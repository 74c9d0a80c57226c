---------------------------- MODULE PipelineProofs ----------------------------
(***************************************************************************)
(* The safety properties of Pipeline, for streams, pipes, diagnostics and  *)
(* numbers of failures of any size.                                        *)
(***************************************************************************)
EXTENDS Pipeline, TLAPS

-----------------------------------------------------------------------------
(* The inductive invariant.                                                *)

Behind(n) == IF n < Last THEN held[n] + buf[n] ELSE 0

(* Every unit of the stream is somewhere: nothing is made up, and nothing  *)
(* is dropped but with the part that held it.                              *)
Conserved == left + got + buf[1] + Behind(2) + Behind(3) = Total

TypeInv == TypeOK /\ Conserved

Ended(j) == state[j] \notin {"unborn", "running"}

(* Parts are born in order, and mybtrfs goes past a stage only when it has *)
(* ended.                                                                  *)
Born ==
  /\ pc = "spawn" \/ verdict = "spawn" => \A j \in Index : state[j] = "unborn" <=> j >= at
  /\ pc # "spawn" /\ verdict # "spawn" => \A j \in Index : state[j] # "unborn"
  /\ pc = "wait" => \A j \in Stages : j > at => Ended(j)
  /\ pc \in {"join", "done"} /\ verdict # "spawn" => \A j \in Stages : Ended(j)

(* A part that took the end of its input for the end of the stream has     *)
(* passed everything on, and nothing more can come.                        *)
Passed ==
  /\ state[1] = "ok" => left = 0
  /\ \A j \in Index : j > 1 /\ state[j] = "ok" =>
       held[j] = 0 /\ buf[j - 1] = 0 /\ Ended(j - 1)

(* A part breaks because the one behind it has not succeeded.              *)
Broken ==
  verdict # "spawn" =>
    \A j \in Index : j < Last /\ state[j] = "broken" => state[j + 1] \in {"failed", "broken"}

Blame ==
  /\ \A j \in Index : IsThread(j) => state[j] # "failed"
  /\ culprit # 0 => culprit \in Stages /\ state[culprit] = "failed"
  /\ verdict = "ok" => \A j \in Stages : state[j] = "ok"
  /\ NeverBlamedDownstream

PipeInv == TypeInv /\ Born /\ Passed /\ Broken /\ Blame

-----------------------------------------------------------------------------
(* What the shapes of the pipelines say of their parts.                    *)
LEMMA LineShape ==
  ASSUME line \in Lines
  PROVE  /\ Last \in 2 .. 4 /\ Last \in Stages /\ 1 \in Stages
         /\ \A j \in Index : line[j] \in Parts
         /\ \A j \in Index : IsThread(j) => j = 2 /\ Last > 2
<1>1. line \in Shapes
  BY PipelineAssumption
<1>2. CASE line = <<"send", "receive">>
  BY <1>2 DEF Last, Stages, Index, IsThread, Parts
<1>3. CASE line = <<"send", "bridge", "receive">>
  BY <1>3 DEF Last, Stages, Index, IsThread, Parts
<1>4. CASE line = <<"send", "compress", "write">>
  BY <1>4 DEF Last, Stages, Index, IsThread, Parts
<1>5. CASE line = <<"send", "bridge", "compress", "write">>
  BY <1>5 DEF Last, Stages, Index, IsThread, Parts
<1> QED
  BY <1>1, <1>2, <1>3, <1>4, <1>5 DEF Shapes

(* stage_result goes left to right: the blamed stage is the first that did *)
(* not succeed.                                                            *)
LEMMA SmallestFailing ==
  ASSUME Last \in 2 .. 4, Failing # {}
  PROVE  \E j \in Failing : (\A i \in Failing : j <= i) /\ Blamed = line[j]
<1>1. Failing \subseteq 1 .. 4
  BY DEF Failing, Stages, Index
<1>2. \E j \in Failing : \A i \in Failing : j <= i
  <2>1. CASE 1 \in Failing
    BY <1>1, <2>1
  <2>2. CASE 1 \notin Failing /\ 2 \in Failing
    BY <1>1, <2>2
  <2>3. CASE 1 \notin Failing /\ 2 \notin Failing /\ 3 \in Failing
    BY <1>1, <2>3
  <2>4. CASE 1 \notin Failing /\ 2 \notin Failing /\ 3 \notin Failing
    <3>1. \A j \in Failing : j = 4
      BY <1>1, <2>4
    <3> QED
      BY <3>1
  <2> QED
    BY <2>1, <2>2, <2>3, <2>4
<1> QED
  BY <1>2 DEF Blamed

LEMMA InitInv == Init => PipeInv
<1> SUFFICES ASSUME Init PROVE PipeInv
  OBVIOUS
<1>1. line \in Lines
  BY DEF Init
<1>2. /\ Last \in 2 .. 4 /\ Last \in Stages /\ 1 \in Stages
      /\ \A j \in Index : line[j] \in Parts
  BY <1>1, LineShape
<1>3. TypeInv
  <2>1. TypeOK
    <3>1. /\ state \in [Index -> {"unborn", "running", "ok", "failed", "broken"}]
          /\ buf \in [Index -> 0 .. Capacity] /\ held \in [Index -> 0 .. 1]
      BY PipelineAssumption DEF Init
    <3>2. at \in Index
      BY <1>2 DEF Init, Index
    <3>3. line \in Lines /\ loud \in Stages /\ pc = "spawn" /\ verdict = "none"
      BY DEF Init
    <3>4. /\ left \in 0 .. Total /\ got \in 0 .. Total
          /\ unsaid \in 0 .. Chatter /\ stderr \in 0 .. Capacity
          /\ fails \in 0 .. MaxFails /\ culprit \in Index \cup {0}
      BY PipelineAssumption DEF Init
    <3>5. drains \in BOOLEAN
      BY DEF Init
    <3> QED
      BY <3>1, <3>2, <3>3, <3>4, <3>5 DEF TypeOK
  <2>2. /\ buf[1] = 0
        /\ Last > 2 => buf[2] = 0 /\ held[2] = 0
        /\ Last > 3 => buf[3] = 0 /\ held[3] = 0
    BY <1>2 DEF Init, Index
  <2> QED
    BY <1>2, <2>1, <2>2, PipelineAssumption DEF Init, TypeInv, Conserved, Behind
<1>4. Born
  BY <1>2 DEF Init, Born, Index, Ended
<1>5. Passed /\ Broken /\ Blame
  BY <1>2 DEF Init, Passed, Broken, Blame, NeverBlamedDownstream, Index, Ended, Parts, Stages
<1> QED
  BY <1>3, <1>4, <1>5 DEF PipeInv

-----------------------------------------------------------------------------
(* The pipeline is what it was when it was begun.                          *)
LEMMA LineStays ==
  [Next]_vars => /\ line' = line /\ loud' = loud
                 /\ Last' = Last /\ Index' = Index /\ Stages' = Stages
<1> SUFFICES ASSUME [Next]_vars PROVE line' = line /\ loud' = loud
  BY DEF Last, Index, Stages, IsThread
<1>1. ASSUME NEW j \in Index, Step(j) \/ FailsAlone(j) PROVE line' = line /\ loud' = loud
  BY <1>1 DEF Step, Write, Breaks, Read, Completes, FailsAlone, Silent
<1>2. CASE Say \/ SayBreaks \/ Drain \/ Spawn \/ SpawnFails \/ Wait \/ Join
  BY <1>2 DEF Say, SayBreaks, Drain, Spawn, SpawnFails, Wait, Join, Mybtrfs, Silent
<1>3. CASE UNCHANGED vars
  BY <1>3 DEF vars
<1> QED
  BY <1>1, <1>2, <1>3 DEF Next

LEMMA NextTypes == TypeInv /\ [Next]_vars => TypeInv'
<1> SUFFICES ASSUME TypeInv, [Next]_vars PROVE TypeInv'
  OBVIOUS
<1> USE PipelineAssumption
<1>0. /\ Last \in 2 .. 4 /\ Last \in Stages /\ 1 \in Stages
      /\ \A j \in Index : line[j] \in Parts
      /\ \A j \in Index : IsThread(j) => j = 2 /\ Last > 2
  BY LineShape DEF TypeInv, TypeOK
<1>a. /\ line' = line /\ loud' = loud /\ Last' = Last /\ Index' = Index /\ Stages' = Stages
  BY LineStays
<1>b. /\ left \in Nat /\ got \in Nat /\ DOMAIN buf = Index /\ DOMAIN held = Index
      /\ \A j \in Index : buf[j] \in Nat /\ held[j] \in Nat
      /\ 1 \in Index /\ (2 < Last => 2 \in Index) /\ (3 < Last => 3 \in Index)
      /\ Behind(2) \in Nat /\ Behind(3) \in Nat
      /\ left + got + buf[1] + Behind(2) + Behind(3) = Total
  <2>1. /\ left \in Nat /\ got \in Nat /\ DOMAIN buf = Index /\ DOMAIN held = Index
        /\ \A j \in Index : buf[j] \in Nat /\ held[j] \in Nat
    BY DEF TypeInv, TypeOK
  <2>2. 1 \in Index /\ (2 < Last => 2 \in Index) /\ (3 < Last => 3 \in Index)
    BY <1>0 DEF Index
  <2> QED
    BY <2>1, <2>2 DEF Behind, TypeInv, Conserved
<1>1. ASSUME NEW j \in Index, Write(j) PROVE TypeInv'
  <2>1. j < Last /\ buf[j] < Capacity /\ buf' = [buf EXCEPT ![j] = @ + 1] /\ line' = line
        /\ UNCHANGED <<loud, state, got, unsaid, stderr, fails, culprit, pc, at, drains, verdict>>
    BY <1>1 DEF Write, Silent, Room, errVars
  <2>2. \/ j = 1 /\ left > 0 /\ left' = left - 1 /\ held' = held
        \/ j # 1 /\ held[j] = 1 /\ held' = [held EXCEPT ![j] = 0] /\ left' = left
    BY <1>1 DEF Write, CanWrite
  <2>3. TypeOK'
    <3>1. buf[j] \in 0 .. Capacity /\ held[j] \in 0 .. 1
      BY DEF TypeInv, TypeOK
    <3>2. buf' \in [Index -> 0 .. Capacity]
      BY <2>1, <3>1 DEF TypeInv, TypeOK
    <3>3. held' \in [Index -> 0 .. 1]
      BY <2>2, <3>1 DEF TypeInv, TypeOK
    <3>4. left' \in 0 .. Total
      BY <2>2 DEF TypeInv, TypeOK
    <3> QED
      BY <1>a, <2>1, <3>2, <3>3, <3>4 DEF TypeInv, TypeOK
  <2>4. Conserved'
    <3>1. CASE j = 1
      <4>1. buf'[1] = buf[1] + 1 /\ Behind(2)' = Behind(2) /\ Behind(3)' = Behind(3)
        BY <1>0, <1>a, <1>b, <2>1, <2>2, <3>1 DEF Behind
      <4> QED
        BY <1>b, <2>1, <2>2, <3>1, <4>1 DEF Conserved
    <3>2. CASE j = 2
      <4>1. buf'[1] = buf[1] /\ Behind(2)' = Behind(2) /\ Behind(3)' = Behind(3)
        BY <1>0, <1>a, <1>b, <2>1, <2>2, <3>2 DEF Behind
      <4> QED
        BY <1>b, <2>1, <2>2, <3>2, <4>1 DEF Conserved
    <3>3. CASE j = 3
      <4>1. buf'[1] = buf[1] /\ Behind(2)' = Behind(2) /\ Behind(3)' = Behind(3)
        BY <1>0, <1>a, <1>b, <2>1, <2>2, <3>3 DEF Behind
      <4> QED
        BY <1>b, <2>1, <2>2, <3>3, <4>1 DEF Conserved
    <3> QED
      BY <1>0, <2>1, <3>1, <3>2, <3>3 DEF Index
  <2> QED
    BY <2>3, <2>4 DEF TypeInv
<1>2. ASSUME NEW j \in Index, Read(j) PROVE TypeInv'
  <2>1. j > 1 /\ held[j] = 0 /\ buf[j - 1] > 0 /\ buf' = [buf EXCEPT ![j - 1] = @ - 1] /\ line' = line
        /\ UNCHANGED <<loud, state, left, unsaid, stderr, fails, culprit, pc, at, drains, verdict>>
    BY <1>2 DEF Read, Silent, errVars
  <2>2. \/ j = Last /\ got' = got + 1 /\ held' = held
        \/ j # Last /\ held' = [held EXCEPT ![j] = 1] /\ got' = got
    BY <1>2 DEF Read
  <2>3. Conserved'
    <3>1. CASE j = 2
      <4>1. /\ buf'[1] = buf[1] - 1 /\ Behind(3)' = Behind(3)
            /\ IF j = Last THEN Behind(2)' = Behind(2) ELSE Behind(2)' = Behind(2) + 1
        BY <1>0, <1>a, <1>b, <2>1, <2>2, <3>1 DEF Behind
      <4> QED
        BY <1>b, <2>1, <2>2, <3>1, <4>1 DEF Conserved
    <3>2. CASE j = 3
      <4>1. /\ buf'[1] = buf[1] /\ Behind(2)' = Behind(2) - 1
            /\ IF j = Last THEN Behind(3)' = Behind(3) ELSE Behind(3)' = Behind(3) + 1
        <5>1. 2 < Last /\ buf' = [buf EXCEPT ![2] = @ - 1]
          BY <1>0, <2>1, <3>2 DEF Index
        <5> QED
          BY <1>0, <1>a, <1>b, <2>1, <2>2, <3>2, <5>1 DEF Behind
      <4> QED
        BY <1>b, <2>1, <2>2, <3>2, <4>1 DEF Conserved
    <3>3. CASE j = 4
      <4>1. j = Last /\ buf'[1] = buf[1] /\ Behind(2)' = Behind(2) /\ Behind(3)' = Behind(3) - 1
        <5>1. Last = 4 /\ buf' = [buf EXCEPT ![3] = @ - 1]
          BY <1>0, <2>1, <3>3 DEF Index
        <5> QED
          BY <1>0, <1>a, <1>b, <2>1, <2>2, <3>3, <5>1 DEF Behind
      <4> QED
        BY <1>b, <2>1, <2>2, <3>3, <4>1 DEF Conserved
    <3> QED
      BY <1>0, <2>1, <3>1, <3>2, <3>3 DEF Index
  <2>4. got' \in Nat /\ buf' \in [Index -> 0 .. Capacity] /\ held' \in [Index -> 0 .. 1]
    <3>1. j - 1 \in Index
      BY <1>0, <2>1 DEF Index
    <3> QED
      BY <2>1, <2>2, <3>1 DEF TypeInv, TypeOK
  <2>5. got' <= Total
    <3>1. left' \in Nat /\ buf'[1] \in Nat /\ Behind(2)' \in Nat /\ Behind(3)' \in Nat
      <4>1. left' \in Nat /\ \A i \in Index : buf'[i] \in Nat /\ held'[i] \in Nat
        BY <1>b, <2>1, <2>4
      <4> QED
        BY <1>a, <1>b, <4>1 DEF Behind
    <3> QED
      BY <2>3, <2>4, <3>1 DEF Conserved
  <2>6. TypeOK'
    BY <1>0, <1>a, <2>1, <2>4, <2>5 DEF TypeInv, TypeOK, Index
  <2> QED
    BY <2>3, <2>6 DEF TypeInv
<1>3. ASSUME NEW j \in Index, Breaks(j) \/ Completes(j) PROVE TypeInv'
  BY <1>0, <1>a, <1>3 DEF Breaks, Completes, Ends, Silent, errVars, TypeInv, TypeOK, Conserved, Behind,
     Index
<1>4. ASSUME NEW j \in Index, FailsAlone(j) PROVE TypeInv'
  BY <1>0, <1>a, <1>4 DEF FailsAlone, Ends, errVars, TypeInv, TypeOK, Conserved, Behind,
     Index
<1>5. CASE Say \/ SayBreaks \/ Drain
  <2>1. CASE Say \/ Drain
    <3>1. UNCHANGED <<line, loud, state, buf, held, left, got, fails, culprit, pc, at, drains, verdict>>
      BY <2>1 DEF Say, Drain, procVars
    <3>2. unsaid' \in 0 .. Chatter /\ stderr' \in 0 .. Capacity
      BY <2>1 DEF Say, Drain, TypeInv, TypeOK
    <3> QED
      BY <1>a, <3>1, <3>2 DEF TypeInv, TypeOK, Conserved, Behind
  <2>2. CASE SayBreaks
    BY <1>0, <1>a, <2>2 DEF SayBreaks, Ends, Silent, errVars, TypeInv, TypeOK, Conserved, Behind, Index
  <2> QED
    BY <1>5, <2>1, <2>2
<1>6. CASE Spawn \/ SpawnFails
  <2>1. CASE Spawn
    <3>1. /\ pc = "spawn" /\ Ends(at, "running") /\ pc' \in {"spawn", "wait"}
          /\ drains' \in BOOLEAN /\ at' \in Index
          /\ UNCHANGED <<line, loud, buf, held, left, got, unsaid, stderr, fails, culprit, verdict>>
      <4>1. at' \in Index
        BY <1>0, <2>1 DEF Spawn, TypeInv, TypeOK, Index
      <4> QED
        BY <2>1, <4>1 DEF Spawn, Mybtrfs, errVars, TypeInv, TypeOK
    <3> QED
      BY <1>a, <3>1 DEF Ends, TypeInv, TypeOK, Conserved, Behind
  <2>2. CASE SpawnFails
    <3>1. "spawn" \notin Parts /\ "none" # "spawn"
      BY DEF Parts
    <3> QED
      BY <1>0, <1>a, <2>2, <3>1 DEF SpawnFails, Mybtrfs, errVars, TypeInv, TypeOK, Conserved, Behind, Index
  <2> QED
    BY <1>6, <2>1, <2>2
<1>7. CASE Wait
  BY <1>0, <1>a, <1>7 DEF Wait, Waits, Mybtrfs, errVars, TypeInv, TypeOK,
     Conserved, Behind, Index
<1>8. CASE Join
  <2>1. Blamed \in {"ok"} \cup Parts
    BY <1>0, <1>a, SmallestFailing DEF Blamed, Failing, Stages
  <2>2. "none" # "ok" /\ "none" \notin Parts
    BY DEF Parts
  <2> QED
    BY <1>0, <1>a, <1>8, <2>1, <2>2 DEF Join, Mybtrfs, errVars, TypeInv, TypeOK, Conserved, Behind, Index
<1>9. CASE UNCHANGED vars
  BY <1>0, <1>a, <1>9 DEF vars, procVars, errVars, TypeInv, TypeOK, Conserved, Behind, Index
<1> QED
  BY <1>1, <1>2, <1>3, <1>4, <1>5, <1>6, <1>7, <1>8, <1>9 DEF Next, Step

(* Types and conservation, for the whole behaviour.                        *)
THEOREM PipelineTypeCorrect == Spec => []TypeOK
<1>1. Init => TypeInv
  BY InitInv DEF PipeInv
<1>2. TypeInv /\ [Next]_vars => TypeInv'
  BY NextTypes
<1>3. TypeInv => TypeOK
  BY DEF TypeInv
<1> QED
  BY <1>1, <1>2, <1>3, PTL DEF Spec

-----------------------------------------------------------------------------
(* A step of a part changes no other part, and starts none.                *)
PartStep(j) ==
  /\ j \in Index /\ state[j] = "running"
  /\ state' \in {state} \cup {[state EXCEPT ![j] = how] : how \in {"ok", "failed", "broken"}}
  /\ UNCHANGED <<pc, at, verdict>>

LEMMA PartSteps ==
  ASSUME NEW j \in Index, Step(j) \/ FailsAlone(j)
  PROVE  PartStep(j)
BY DEF Step, Write, Read, Breaks, Completes, FailsAlone, Silent, Ends, Running, PartStep

LEMMA SayBreaksStep == TypeInv /\ SayBreaks => PartStep(loud)
BY DEF SayBreaks, Silent, Ends, Running, PartStep, TypeInv, TypeOK, Stages

LEMMA NextBorn == TypeInv /\ Born /\ [Next]_vars => Born'
<1> SUFFICES ASSUME TypeInv, Born, [Next]_vars PROVE Born'
  OBVIOUS
<1>0. /\ Last \in 2 .. 4 /\ Last \in Stages /\ 1 \in Stages
      /\ \A j \in Index : IsThread(j) => j = 2 /\ Last > 2
  BY LineShape DEF TypeInv, TypeOK
<1>a. /\ line' = line /\ Last' = Last /\ Index' = Index /\ Stages' = Stages
  BY LineStays
<1>b. at \in Index /\ state \in [Index -> {"unborn", "running", "ok", "failed", "broken"}]
      /\ pc \in {"spawn", "wait", "join", "done"} /\ (pc = "done" <=> verdict # "none")
      /\ Stages \subseteq Index
  BY DEF TypeInv, TypeOK, Stages
<1>1. ASSUME NEW j, PartStep(j) PROVE Born'
  <2>1. j \in Index /\ state[j] = "running" /\ UNCHANGED <<pc, at, verdict>>
    BY <1>1 DEF PartStep
  <2>2. \A i \in Index : /\ state'[i] = "unborn" <=> state[i] = "unborn"
                         /\ Ended(i) => Ended(i)'
    BY <1>b, <1>1 DEF PartStep, Ended
  <2> QED
    BY <1>0, <1>a, <1>b, <2>1, <2>2 DEF Born
<1>2. CASE Spawn
  <2>1. pc = "spawn" /\ state' = [state EXCEPT ![at] = "running"] /\ verdict' = verdict
    BY <1>2 DEF Spawn, Ends, Mybtrfs
  <2>2. verdict # "spawn"
    BY <1>b, <2>1
  <2>3. CASE at < Last /\ at' = at + 1 /\ pc' = pc
    BY <1>0, <1>a, <1>b, <2>1, <2>2, <2>3 DEF Born, Index
  <2>4. CASE at = Last /\ pc' = "wait" /\ at' = at
    BY <1>0, <1>a, <1>b, <2>1, <2>2, <2>4 DEF Born, Index
  <2> QED
    BY <1>0, <1>2, <1>b, <2>3, <2>4 DEF Spawn, Index
<1>3. CASE SpawnFails
  BY <1>0, <1>3, <1>a, <1>b DEF SpawnFails, Born, Index
<1>4. CASE Wait
  <2>1. /\ pc = "wait" /\ state' = state /\ verdict' = verdict /\ (at \in Stages => Ended(at))
        /\ verdict # "spawn" /\ pc' \in {"wait", "join"}
    BY <1>4, <1>b DEF Wait, Waits, Running, Born, Ended, Mybtrfs, Stages
  <2>2. CASE at > 1 /\ at' = at - 1 /\ pc' = "wait"
    BY <1>0, <1>a, <1>b, <2>1, <2>2 DEF Born, Ended, Index
  <2>3. CASE at = 1 /\ pc' = "join"
    BY <1>0, <1>a, <1>b, <2>1, <2>3 DEF Born, Ended, Index
  <2> QED
    BY <1>0, <1>4, <1>b, <2>2, <2>3 DEF Wait, Waits, Index
<1>5. CASE Join
  <2>1. Blamed # "spawn"
    BY <1>0, SmallestFailing, LineShape DEF TypeInv, TypeOK, Blamed, Failing, Stages, Parts
  <2> QED
    BY <1>0, <1>5, <1>a, <1>b, <2>1 DEF Join, Born, Ended, Mybtrfs
<1>6. CASE UNCHANGED <<state, pc, at, verdict>>
  BY <1>6, <1>a DEF Born, Ended
<1>7. Say \/ Drain \/ UNCHANGED vars => UNCHANGED <<state, pc, at, verdict>>
  BY DEF Say, Drain, vars, procVars
<1> QED
  BY <1>1, <1>2, <1>3, <1>4, <1>5, <1>6, <1>7, PartSteps, SayBreaksStep DEF Next

LEMMA SpawnStep ==
  TypeInv /\ Born /\ Spawn =>
    /\ at \in Index /\ state[at] = "unborn" /\ state' = [state EXCEPT ![at] = "running"]
    /\ verdict = "none" /\ UNCHANGED <<buf, held, left, culprit, verdict>>
<1> SUFFICES ASSUME TypeInv, Born, Spawn
             PROVE  /\ at \in Index /\ state[at] = "unborn"
                    /\ verdict = "none" /\ UNCHANGED <<buf, held, left, culprit, verdict>>
  BY DEF Spawn, Ends
<1>1. at \in Index /\ pc = "spawn" /\ verdict = "none"
  BY DEF TypeInv, TypeOK, Spawn
<1>2. at >= at
  BY <1>1, LineShape DEF TypeInv, TypeOK, Index
<1> QED
  BY <1>1, <1>2 DEF Born, Spawn, Mybtrfs

-----------------------------------------------------------------------------
LEMMA NextPassed == TypeInv /\ Born /\ Passed /\ [Next]_vars => Passed'
<1> SUFFICES ASSUME TypeInv, Born, Passed, [Next]_vars PROVE Passed'
  OBVIOUS
<1>0. Last \in 2 .. 4 /\ 1 \in Index
  BY LineShape DEF TypeInv, TypeOK, Index
<1>a. Index' = Index
  BY LineStays
<1>b. /\ at \in Index /\ state \in [Index -> {"unborn", "running", "ok", "failed", "broken"}]
      /\ DOMAIN buf = Index /\ DOMAIN held = Index /\ left \in Nat /\ loud \in Index
      /\ pc \in {"spawn", "wait", "join", "done"} /\ (pc = "done" <=> verdict # "none")
  BY DEF TypeInv, TypeOK, Stages
<1>c. \A j \in Index : j > 1 => j - 1 \in Index
  BY <1>0 DEF Index
<1>1. ASSUME NEW j \in Index, Write(j) PROVE Passed'
  <2>1. /\ state[j] = "running" /\ state' = state /\ buf' = [buf EXCEPT ![j] = @ + 1]
        /\ \/ j = 1 /\ held' = held
           \/ left' = left /\ held' = [held EXCEPT ![j] = 0]
    BY <1>1 DEF Write, Running
  <2> QED
    BY <1>0, <1>a, <1>b, <1>c, <2>1 DEF Passed, Ended
<1>2. ASSUME NEW j \in Index, Read(j) PROVE Passed'
  <2>1. /\ state[j] = "running" /\ state' = state /\ buf' = [buf EXCEPT ![j - 1] = @ - 1]
        /\ left' = left /\ (held' = held \/ held' = [held EXCEPT ![j] = 1]) /\ j > 1
    BY <1>2 DEF Read, Running
  <2>2. ASSUME NEW i \in Index, i > 1, state[i] = "ok" PROVE held'[i] = 0 /\ buf'[i - 1] = 0
    <3>1. i # j /\ i - 1 # j - 1 /\ i - 1 \in Index /\ j - 1 \in Index
      BY <1>0, <1>c, <2>1, <2>2 DEF Index
    <3> QED
      BY <1>b, <2>1, <2>2, <3>1 DEF Passed
  <2> QED
    BY <1>a, <2>1, <2>2 DEF Passed, Ended
<1>3. ASSUME NEW j \in Index, Completes(j) PROVE Passed'
  <2>1. /\ state[j] = "running" /\ UNCHANGED <<buf, held, left>>
        /\ \/ state' = [state EXCEPT ![j] = "ok"]
           \/ state' = [state EXCEPT ![j] = "failed"]
        /\ j = 1 => left = 0
        /\ j > 1 => buf[j - 1] = 0 /\ ~Running(j - 1) /\ held[j] = 0
    BY <1>3, <1>0 DEF Completes, Running, Ends, Eof, Index
  <2>2. j > 1 => state[j - 1] # "unborn"
    BY <1>0, <1>b, <1>c, <2>1 DEF Born, Index
  <2>3. \A i \in Index : Ended(i) => Ended(i)'
    BY <1>b, <2>1 DEF Ended
  <2>4. \A i \in Index : i # j => state'[i] = state[i]
    BY <1>b, <2>1
  <2> QED
    BY <1>0, <1>a, <1>b, <1>c, <2>1, <2>2, <2>3, <2>4 DEF Passed, Ended, Running
<1>4. ASSUME UNCHANGED <<buf, held, left>>, NEW j \in Index, state[j] \in {"unborn", "running"},
             \/ state' = state
             \/ \E how \in {"running", "failed", "broken"} : state' = [state EXCEPT ![j] = how]
      PROVE  Passed'
  <2>1. \A i \in Index : (state'[i] = "ok" => state[i] = "ok") /\ (Ended(i) => Ended(i)')
    BY <1>b, <1>4 DEF Ended
  <2> QED
    BY <1>0, <1>a, <1>c, <1>4, <2>1 DEF Passed
<1>5. ASSUME NEW j \in Index, Breaks(j) \/ FailsAlone(j) PROVE Passed'
  BY <1>4, <1>5 DEF Breaks, FailsAlone, Ends, Running
<1>6. CASE SayBreaks
  BY <1>4, <1>6, <1>b DEF SayBreaks, Ends, Running
<1>7. CASE Spawn
  BY <1>4, <1>7, SpawnStep
<1>8. CASE UNCHANGED <<state, buf, held, left>>
  BY <1>8, <1>a DEF Passed, Ended
<1>9. Say \/ Drain \/ SpawnFails \/ Wait \/ Join \/ UNCHANGED vars => UNCHANGED <<state, buf, held, left>>
  BY DEF Say, Drain, SpawnFails, Wait, Join, Mybtrfs, vars, procVars
<1> QED
  BY <1>1, <1>2, <1>3, <1>5, <1>6, <1>7, <1>8, <1>9 DEF Next, Step

LEMMA NextBroken == TypeInv /\ Born /\ Passed /\ Broken /\ [Next]_vars => Broken'
<1> SUFFICES ASSUME TypeInv, Born, Passed, Broken, [Next]_vars, verdict' # "spawn" PROVE Broken'
  BY DEF Broken
<1>0. Last \in 2 .. 4
  BY LineShape DEF TypeInv, TypeOK
<1>a. Index' = Index /\ Last' = Last
  BY LineStays
<1>b. /\ at \in Index /\ state \in [Index -> {"unborn", "running", "ok", "failed", "broken"}]
      /\ pc \in {"spawn", "wait", "join", "done"} /\ (pc = "done" <=> verdict # "none")
  BY DEF TypeInv, TypeOK
<1>c. \A j \in Index : j < Last => j + 1 \in Index /\ j + 1 > 1 /\ (j + 1) - 1 = j
  BY <1>0 DEF Index
<1>1. ASSUME NEW j \in Index, Breaks(j) PROVE Broken'
  <2>1. /\ state[j] = "running" /\ state' = [state EXCEPT ![j] = "broken"] /\ verdict' = verdict
        /\ j < Last /\ state[j + 1] # "running" /\ ~(state[j + 1] = "unborn" /\ pc = "spawn")
    BY <1>1 DEF Breaks, Running, Ends, Silent, ReadEndOpen
  <2>2. state[j + 1] # "unborn"
    BY <1>b, <1>c, <2>1 DEF Born
  <2>3. state[j + 1] # "ok"
    BY <1>c, <2>1 DEF Passed, Ended
  <2>4. state[j + 1] \in {"failed", "broken"}
    BY <1>b, <1>c, <2>1, <2>2, <2>3
  <2>5. \A i \in Index : state[i] \in {"failed", "broken"} => state'[i] \in {"failed", "broken"}
    BY <1>b, <2>1
  <2>6. \A i \in Index : state'[i] = "broken" => state[i] = "broken" \/ i = j
    BY <1>b, <2>1
  <2> QED
    BY <1>a, <1>c, <2>1, <2>4, <2>5, <2>6 DEF Broken
<1>2. ASSUME NEW j \in Index, state[j] \in {"unborn", "running"}, verdict # "spawn",
             \/ state' = state
             \/ \E how \in {"running", "ok", "failed"} : state' = [state EXCEPT ![j] = how]
      PROVE  Broken'
  <2>1. \A i \in Index : /\ state[i] \in {"failed", "broken"} => state'[i] \in {"failed", "broken"}
                         /\ state'[i] = "broken" => state[i] = "broken"
    BY <1>b, <1>2
  <2> QED
    BY <1>2, <1>a, <1>c, <2>1 DEF Broken
<1>3. ASSUME NEW j \in Index, Write(j) \/ Read(j) \/ Completes(j) \/ FailsAlone(j) PROVE Broken'
  BY <1>2, <1>3 DEF Write, Read, Completes, FailsAlone, Ends, Running, Silent
<1>4. CASE SayBreaks
  BY <1>4 DEF SayBreaks, Silent
<1>5. CASE Spawn
  BY <1>2, <1>5, SpawnStep
<1>6. CASE SpawnFails
  BY <1>6 DEF SpawnFails
<1>7. CASE UNCHANGED state /\ verdict # "spawn"
  BY <1>7, <1>a DEF Broken
<1>8. Say \/ Drain \/ Wait \/ Join \/ UNCHANGED vars => UNCHANGED state /\ verdict # "spawn"
  BY <1>b DEF Say, Drain, Wait, Join, Mybtrfs, vars, procVars
<1> QED
  BY <1>1, <1>3, <1>4, <1>5, <1>6, <1>7, <1>8 DEF Next, Step

LEMMA NextBlame == TypeInv /\ Born /\ Blame /\ [Next]_vars => Blame'
<1> SUFFICES ASSUME TypeInv, Born, Blame, [Next]_vars PROVE Blame'
  OBVIOUS
<1>0. /\ Last \in 2 .. 4 /\ (\A j \in Index : line[j] \in Parts)
      /\ \A j \in Index : IsThread(j) => j = 2 /\ Last > 2
  BY LineShape DEF TypeInv, TypeOK
<1>a. line' = line /\ Index' = Index /\ Last' = Last /\ Stages' = Stages
  BY LineStays
<1>b. /\ at \in Index /\ state \in [Index -> {"unborn", "running", "ok", "failed", "broken"}]
      /\ pc \in {"spawn", "wait", "join", "done"} /\ (pc = "done" <=> verdict # "none")
      /\ loud \in Stages /\ Stages \subseteq Index /\ (\A j \in Stages : ~IsThread(j))
  BY DEF TypeInv, TypeOK, Stages
<1>c. "ok" \notin Parts /\ "spawn" \notin Parts /\ "none" \notin Parts
  BY DEF Parts
<1>1. ASSUME NEW j \in Index, state[j] \in {"unborn", "running"}, verdict' = verdict,
             \/ culprit' = culprit
             \/ j \in Stages /\ culprit' = j /\ state'[j] = "failed"
                /\ (verdict = "none" \/ verdict = "spawn"),
             \/ state' = state
             \/ \E how \in {"running", "ok", "broken"} : state' = [state EXCEPT ![j] = how]
             \/ j \in Stages /\ state' = [state EXCEPT ![j] = "failed"]
      PROVE  Blame'
  <2>1. \A i \in Index : /\ state[i] \in {"ok", "failed"} => state'[i] = state[i]
                         /\ state'[i] = "failed" => state[i] = "failed" \/ i \in Stages
    BY <1>b, <1>1
  <2>2. \A i \in Index : IsThread(i)' => state'[i] # "failed"
    BY <1>a, <1>b, <2>1 DEF Blame, IsThread
  <2>3. culprit' # 0 => culprit' \in Stages /\ state'[culprit'] = "failed"
    BY <1>b, <1>1, <2>1 DEF Blame
  <2>4. verdict' = "ok" => \A i \in Stages : state'[i] = "ok"
    BY <1>b, <1>1, <2>1 DEF Blame
  <2>5. NeverBlamedDownstream'
    BY <1>a, <1>c, <1>1 DEF Blame, NeverBlamedDownstream
  <2> QED
    BY <1>a, <2>2, <2>3, <2>4, <2>5 DEF Blame
<1>2. ASSUME NEW j \in Index, Step(j) PROVE Blame'
  BY <1>1, <1>2 DEF Step, Write, Read, Completes, Breaks, Ends, Running, Silent, Stages
<1>3. ASSUME NEW j \in Index, FailsAlone(j) PROVE Blame'
  <2>1. j \in Stages /\ state[j] = "running" /\ state' = [state EXCEPT ![j] = "failed"]
        /\ verdict' = verdict /\ culprit' \in {j, culprit}
    BY <1>3 DEF FailsAlone, Ends, Running, Stages
  <2>2. verdict = "none" \/ verdict = "spawn"
    BY <1>b, <2>1 DEF Born, Ended
  <2>3. state'[j] = "failed"
    BY <1>b, <2>1
  <2> QED
    BY <1>1, <2>1, <2>2, <2>3
<1>4. CASE SayBreaks
  BY <1>1, <1>4, <1>b DEF SayBreaks, Ends, Running, Silent
<1>5. CASE Spawn
  BY <1>1, <1>5, SpawnStep
<1>6. CASE Join
  <2>1. /\ state' = state /\ culprit' = culprit /\ verdict' = Blamed /\ pc = "join"
        /\ \A j \in Stages : state[j] # "ok" <=> j \in Failing
    BY <1>6 DEF Join, Mybtrfs, Failing
  <2>2. CASE Failing = {}
    <3>1. verdict' = "ok"
      BY <2>1, <2>2 DEF Blamed
    <3> QED
      BY <1>a, <1>b, <1>c, <2>1, <2>2, <3>1 DEF Blame, NeverBlamedDownstream, IsThread
  <2>3. CASE Failing # {}
    <3>1. PICK j \in Failing : (\A i \in Failing : j <= i) /\ Blamed = line[j]
      BY <1>0, <2>3, SmallestFailing
    <3>2. j \in Stages /\ verdict' = line[j] /\ verdict' # "ok"
      BY <1>0, <1>b, <1>c, <2>1, <3>1 DEF Failing
    <3>3. culprit # 0 => culprit \in Failing
      BY DEF Blame, Failing
    <3>4. NeverBlamedDownstream'
      BY <1>a, <2>1, <3>1, <3>2, <3>3 DEF NeverBlamedDownstream
    <3> QED
      BY <1>a, <2>1, <3>2, <3>4 DEF Blame, IsThread
  <2> QED
    BY <2>2, <2>3
<1>7. CASE SpawnFails
  BY <1>7, <1>a, <1>c DEF SpawnFails, Mybtrfs, Blame, NeverBlamedDownstream, IsThread
<1>8. CASE UNCHANGED <<state, culprit, verdict>>
  BY <1>8, <1>a DEF Blame, NeverBlamedDownstream, IsThread
<1>9. Say \/ Drain \/ Wait \/ UNCHANGED vars => UNCHANGED <<state, culprit, verdict>>
  BY DEF Say, Drain, Wait, Mybtrfs, vars, procVars
<1> QED
  BY <1>2, <1>3, <1>4, <1>5, <1>6, <1>7, <1>8, <1>9 DEF Next

-----------------------------------------------------------------------------
LEMMA PipeInvariant == Spec => []PipeInv
<1>1. Init => PipeInv
  BY InitInv
<1>2. PipeInv /\ [Next]_vars => PipeInv'
  BY NextTypes, NextBorn, NextPassed, NextBroken, NextBlame DEF PipeInv
<1> QED
  BY <1>1, <1>2, PTL DEF Spec

(* Success is reported only of a stream that arrived whole: by Blame every *)
(* stage exited 0, by Passed each of them passed on all it had read, by    *)
(* Broken the bridge did not give up on the way, and by Conserved what the *)
(* first one sent is then what the last one took in.                       *)
THEOREM OkIsWhole == Spec => []OkMeansWhole
<1>1. PipeInv => OkMeansWhole
  <2> SUFFICES ASSUME PipeInv, verdict = "ok" PROVE got = Total /\ left = 0
    BY DEF OkMeansWhole
  <2>1. /\ Last \in 2 .. 4 /\ Last \in Stages /\ 1 \in Stages
        /\ \A j \in Index : IsThread(j) => j = 2 /\ Last > 2
    BY LineShape DEF PipeInv, TypeInv, TypeOK
  <2>2. /\ \A j \in Stages : state[j] = "ok"
        /\ \A j \in Index : IsThread(j) => state[j] # "failed"
    BY DEF PipeInv, Blame
  <2>3. \A j \in Index : state[j] = "ok"
    <3> SUFFICES ASSUME NEW j \in Index, IsThread(j) PROVE state[j] = "ok"
      BY <2>2 DEF Stages
    <3>1. j = 2 /\ 2 < Last /\ 3 \in Index /\ 3 \in Stages
      BY <2>1 DEF Index, Stages
    <3>2. Ended(2)
      BY <2>2, <3>1 DEF PipeInv, Passed
    <3>3. state[2] # "broken"
      BY <2>2, <3>1 DEF PipeInv, Broken
    <3> QED
      BY <2>2, <3>1, <3>2, <3>3 DEF Ended, PipeInv, TypeInv, TypeOK
  <2>4. left = 0 /\ \A j \in Index : j > 1 => held[j] = 0 /\ buf[j - 1] = 0
    BY <2>1, <2>3 DEF PipeInv, Passed, Stages
  <2>5. buf[1] = 0 /\ Behind(2) = 0 /\ Behind(3) = 0
    <3>1. 2 \in Index /\ (2 < Last => 3 \in Index) /\ (3 < Last => 4 \in Index)
      BY <2>1 DEF Index
    <3>2. buf[1] = 0
      BY <2>4, <3>1
    <3>3. 2 < Last => held[2] = 0 /\ buf[2] = 0
      BY <2>4, <3>1
    <3>4. 3 < Last => held[3] = 0 /\ buf[3] = 0
      BY <2>1, <2>4, <3>1
    <3> QED
      BY <3>2, <3>3, <3>4 DEF Behind
  <2>6. got \in Nat /\ left + got + buf[1] + Behind(2) + Behind(3) = Total
    BY DEF PipeInv, TypeInv, TypeOK, Conserved
  <2> QED
    BY <2>4, <2>5, <2>6
<1> QED
  BY <1>1, PipeInvariant, PTL

(* Once the call has returned no stage runs any more, but for those a      *)
(* failed spawn left, and then the stage that writes was never born.       *)
THEOREM NothingWritesBehind == Spec => []NothingStillWriting
<1>1. PipeInv => NothingStillWriting
  <2> SUFFICES ASSUME PipeInv, pc = "done" PROVE NothingStillWriting
    BY DEF NothingStillWriting
  <2>1. Last \in Stages /\ Last \in 2 .. 4
    BY LineShape DEF PipeInv, TypeInv, TypeOK
  <2>2. CASE verdict = "spawn"
    <3>1. at \in Index /\ Last \in Index /\ Last >= at
      BY <2>1 DEF PipeInv, TypeInv, TypeOK, Index
    <3>2. state[Last] = "unborn"
      BY <2>2, <3>1 DEF PipeInv, Born
    <3> QED
      BY <2>2, <3>2 DEF NothingStillWriting, Running
  <2>3. CASE verdict # "spawn"
    BY <2>1, <2>3 DEF PipeInv, Born, Ended, NothingStillWriting, Running
  <2> QED
    BY <2>2, <2>3
<1> QED
  BY <1>1, PipeInvariant, PTL

(* The stage that is blamed is not behind the one that failed first.       *)
THEOREM BlameIsNotDownstream == Spec => []NeverBlamedDownstream
<1>1. PipeInv => NeverBlamedDownstream
  BY DEF PipeInv, Blame
<1> QED
  BY <1>1, PipeInvariant, PTL
=============================================================================
