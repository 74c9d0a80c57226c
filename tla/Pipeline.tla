------------------------------ MODULE Pipeline ------------------------------
(***************************************************************************)
(* SystemCommandRunner::pipe and pipe3: the process pipelines every        *)
(* transfer is made of.  mybtrfs spawns the stages left to right, each     *)
(* reading what the one before it writes, drains their stderr, waits for   *)
(* the last one first, and tells from the exit statuses whether the stream *)
(* arrived.  With a progress callback a thread of its own, the bridge,     *)
(* sits behind the first stage.                                            *)
(*                                                                         *)
(* The kernel and the programs are the environment: a pipe holds a bounded *)
(* number of units, a stage that writes to a pipe nobody reads dies of it, *)
(* one that reads what was cut short may fail or not notice, and any stage *)
(* may fail by itself.  A program that hangs for ever is left out: nothing *)
(* in the code bounds its time.                                            *)
(***************************************************************************)
EXTENDS Naturals, Sequences

CONSTANTS
  Lines,      \* the pipelines, as sequences of parts
  Total,      \* the units of the stream
  Capacity,   \* the units a pipe holds, a stderr pipe included
  Chatter,    \* bound: what one stage writes to stderr
  MaxFails    \* bound: stages that fail by themselves, spawns that fail

Parts == {"send", "bridge", "compress", "write", "receive"}

Shapes == {<<"send", "receive">>, <<"send", "bridge", "receive">>,
           <<"send", "compress", "write">>, <<"send", "bridge", "compress", "write">>}

ASSUME PipelineAssumption ==
  /\ Lines \subseteq Shapes
  /\ Total \in Nat /\ Capacity \in Nat \ {0} /\ Chatter \in Nat /\ MaxFails \in Nat

VARIABLES
  line,     \* this pipeline
  state,    \* of each part
  buf,      \* the units in the pipe behind each part
  held,     \* the unit a part has read and not yet written
  left,     \* the units the first stage still has to send
  got,      \* the units the last stage has taken in
  loud,     \* the one stage that writes to stderr
  unsaid,   \* what it may still write
  stderr,   \* what is in its stderr pipe
  fails,    \* failures so far
  culprit,  \* the first part that failed by itself, 0 if none did
  pc,       \* mybtrfs: "spawn", "wait", "join", "done"
  at,       \* the part it spawns or waits for
  drains,   \* the stderr-draining threads run
  verdict   \* "none", "ok", "spawn" (an early return), or the part blamed

procVars == <<state, buf, held, left, got>>
errVars == <<unsaid, stderr>>
vars == <<line, loud, procVars, errVars, fails, culprit, pc, at, drains, verdict>>

Last == Len(line)
Index == 1 .. Last
IsThread(j) == line[j] = "bridge"
Stages == {j \in Index : ~IsThread(j)}

TypeOK ==
  /\ line \in Lines /\ loud \in Stages
  /\ state \in [Index -> {"unborn", "running", "ok", "failed", "broken"}]
  /\ buf \in [Index -> 0 .. Capacity] /\ held \in [Index -> 0 .. 1]
  /\ left \in 0 .. Total /\ got \in 0 .. Total
  /\ unsaid \in 0 .. Chatter /\ stderr \in 0 .. Capacity
  /\ fails \in 0 .. MaxFails /\ culprit \in Index \cup {0}
  /\ pc \in {"spawn", "wait", "join", "done"} /\ at \in Index /\ drains \in BOOLEAN
  /\ verdict \in {"none", "ok", "spawn"} \cup Parts
  /\ (pc = "done" <=> verdict # "none")

Init ==
  /\ line \in Lines /\ loud \in Stages
  /\ state = [j \in Index |-> "unborn"]
  /\ buf = [j \in Index |-> 0] /\ held = [j \in Index |-> 0]
  /\ left = Total /\ got = 0
  /\ unsaid = Chatter /\ stderr = 0
  /\ fails = 0 /\ culprit = 0
  /\ pc = "spawn" /\ at = 1 /\ drains = FALSE /\ verdict = "none"

Running(j) == state[j] = "running"

(* Before the reader is born mybtrfs holds the read end; a failed spawn    *)
(* drops it.                                                               *)
ReadEndLeaks(j) == state[j + 1] \in {"unborn", "running"}  \* faulty variant: kept after a return

ReadEndOpen(j) == Running(j + 1) \/ (state[j + 1] = "unborn" /\ pc = "spawn")

Eof(j) == buf[j - 1] = 0 /\ ~Running(j - 1)

Ends(j, how) == state' = [state EXCEPT ![j] = how]

Silent == UNCHANGED <<line, loud, errVars, fails, culprit, pc, at, drains, verdict>>

-----------------------------------------------------------------------------
(* The parts.                                                              *)

CanWrite(j) == IF j = 1 THEN left > 0 ELSE held[j] = 1

Room(j) == buf[j] < Capacity

WriteAgain(j) ==          \* faulty variant: the bridge keeps the block it has written
  /\ Running(j) /\ j < Last /\ CanWrite(j) /\ ReadEndOpen(j) /\ Room(j)
  /\ buf' = [buf EXCEPT ![j] = @ + 1]
  /\ IF j = 1 THEN left' = left - 1 /\ UNCHANGED held
              ELSE /\ UNCHANGED left
                   /\ IF IsThread(j) THEN UNCHANGED held ELSE held' = [held EXCEPT ![j] = 0]
  /\ UNCHANGED <<state, got>> /\ Silent

Write(j) ==
  /\ Running(j) /\ j < Last /\ CanWrite(j) /\ ReadEndOpen(j) /\ Room(j)
  /\ buf' = [buf EXCEPT ![j] = @ + 1]
  /\ IF j = 1 THEN left' = left - 1 /\ UNCHANGED held
              ELSE held' = [held EXCEPT ![j] = 0] /\ UNCHANGED left
  /\ UNCHANGED <<state, got>> /\ Silent

(* A write nobody can read: SIGPIPE, or for the bridge an error it ends by. *)
Breaks(j) ==
  /\ Running(j) /\ j < Last /\ CanWrite(j) /\ ~ReadEndOpen(j)
  /\ Ends(j, "broken")
  /\ UNCHANGED <<buf, held, left, got>> /\ Silent

Read(j) ==
  /\ Running(j) /\ j > 1 /\ held[j] = 0 /\ buf[j - 1] > 0
  /\ buf' = [buf EXCEPT ![j - 1] = @ - 1]
  /\ IF j = Last THEN got' = got + 1 /\ UNCHANGED held
                 ELSE held' = [held EXCEPT ![j] = 1] /\ UNCHANGED got
  /\ UNCHANGED <<state, left>> /\ Silent

(* Its input is at an end: one that was cut short may look like a failure. *)
Completes(j) ==
  /\ Running(j)
  /\ IF j = 1 THEN left = 0 ELSE Eof(j) /\ held[j] = 0
  /\ \/ Ends(j, "ok")
     \/ /\ j > 1 /\ ~IsThread(j)
        /\ \E i \in 1 .. j - 1 : state[i] \in {"failed", "broken"}
        /\ Ends(j, "failed")
  /\ UNCHANGED <<buf, held, left, got>> /\ Silent

FailsAlone(j) ==
  /\ Running(j) /\ ~IsThread(j) /\ fails < MaxFails
  /\ Ends(j, "failed") /\ fails' = fails + 1
  /\ culprit' = IF culprit = 0 /\ \A i \in Index : state[i] # "broken" THEN j ELSE culprit
  /\ UNCHANGED <<line, loud, buf, held, left, got, errVars, pc, at, drains, verdict>>

(* What a stage has to say it says before it goes on.                      *)
Say ==
  /\ Running(loud) /\ unsaid > 0 /\ stderr < Capacity /\ verdict # "spawn"
  /\ unsaid' = unsaid - 1 /\ stderr' = stderr + 1
  /\ UNCHANGED <<line, loud, procVars, fails, culprit, pc, at, drains, verdict>>

(* After a failed spawn nobody holds the other end of its stderr.          *)
SayBreaks ==
  /\ Running(loud) /\ unsaid > 0 /\ verdict = "spawn"
  /\ Ends(loud, "broken")
  /\ UNCHANGED <<buf, held, left, got>> /\ Silent

Talking(j) == j = loud /\ unsaid > 0

Step(j) == ~Talking(j) /\ (Write(j) \/ Breaks(j) \/ Read(j) \/ Completes(j))

-----------------------------------------------------------------------------
(* mybtrfs.                                                                *)

Mybtrfs == UNCHANGED <<line, loud, buf, held, left, got, errVars, culprit>>

Spawn ==
  /\ pc = "spawn" /\ Ends(at, "running")
  /\ IF at < Last THEN at' = at + 1 /\ UNCHANGED <<pc, drains>>
                  ELSE pc' = "wait" /\ at' = at /\ drains' = TRUE
  /\ Mybtrfs /\ UNCHANGED <<fails, verdict>>

(* The children there are already are neither waited for nor drained.      *)
SpawnFails ==
  /\ pc = "spawn" /\ fails < MaxFails /\ fails' = fails + 1
  /\ pc' = "done" /\ verdict' = "spawn"
  /\ Mybtrfs /\ UNCHANGED <<state, at, drains>>

(* The last stage has its stderr drained by wait_with_output, the others   *)
(* by threads of their own.                                                *)
DrainedLast == loud = Last /\ pc = "wait"          \* faulty variant: no threads

Drained == IF loud = Last THEN pc = "wait" ELSE drains

Drain ==
  /\ Drained /\ stderr > 0
  /\ stderr' = stderr - 1
  /\ UNCHANGED <<line, loud, procVars, unsaid, fails, culprit, pc, at, drains, verdict>>

(* Last to first; the thread is not waited for.                            *)
WaitsForOne ==                 \* faulty variant: only the first stage is waited for
  ~Running(1) /\ pc' = "join" /\ at' = 1

Waits ==
  /\ ~Running(at) \/ IsThread(at)
  /\ at = Last /\ loud = Last => stderr = 0
  /\ IF at > 1 THEN at' = at - 1 /\ UNCHANGED pc ELSE pc' = "join" /\ at' = at

Wait ==
  /\ pc = "wait" /\ Waits
  /\ Mybtrfs /\ UNCHANGED <<state, fails, drains, verdict>>

Failing == {j \in Stages : state[j] # "ok"}

BlamedLast == IF Failing = {} THEN "ok"     \* faulty variant: the last one is blamed
              ELSE line[CHOOSE j \in Failing : \A i \in Failing : i <= j]

BlamedByLast ==            \* faulty variant: all is well if the last one is
  IF state[Last] = "ok" THEN "ok"
  ELSE line[CHOOSE j \in Failing : \A i \in Failing : j <= i]

(* The first that did not succeed, left to right.                          *)
Blamed == IF Failing = {} THEN "ok"
          ELSE line[CHOOSE j \in Failing : \A i \in Failing : j <= i]

Join ==
  /\ pc = "join" /\ stderr = 0
  /\ pc' = "done" /\ verdict' = Blamed
  /\ Mybtrfs /\ UNCHANGED <<state, fails, at, drains>>

-----------------------------------------------------------------------------
Next ==
  \/ \E j \in Index : Step(j) \/ FailsAlone(j)
  \/ Say \/ SayBreaks \/ Drain
  \/ Spawn \/ SpawnFails \/ Wait \/ Join

Spec == Init /\ [][Next]_vars

(* Programs make progress when they can, and so do mybtrfs and its threads. *)
FairSpec ==
  /\ Spec
  /\ \A j \in 1 .. 4 : WF_vars(j \in Index /\ Step(j))
  /\ WF_vars(Say \/ SayBreaks) /\ WF_vars(Drain) /\ WF_vars(Spawn \/ Wait \/ Join)

-----------------------------------------------------------------------------
(* Properties                                                              *)

(* A pipeline that reports success has carried the whole stream: a stage   *)
(* that died half-way is never hidden by later ones that took the end of   *)
(* their input for the end of the stream (pipe, pipe3).                    *)
OkMeansWhole == verdict = "ok" => got = Total /\ left = 0

(* When the call returns nothing works on the target any more, so that     *)
(* what the caller removes next stays removed (cleanup_raw, the deletion   *)
(* of a garbled result).  Only a failed spawn leaves earlier stages        *)
(* running, and then the stage that writes was never born.                 *)
NothingStillWriting ==
  pc = "done" =>
    /\ ~Running(Last)
    /\ verdict = "spawn" => state[Last] = "unborn"
    /\ verdict # "spawn" => \A j \in Stages : ~Running(j)

(* The stage that is blamed never lies behind the one that failed first:   *)
(* a failure upstream is not taken for its consequence downstream.  The    *)
(* other direction does occur, a sender blamed for a receiver that died.   *)
NeverBlamedDownstream ==
  verdict \in Parts /\ culprit # 0 =>
    \E j \in Stages : line[j] = verdict /\ j <= culprit

(* However full the pipes and however chatty the stages: the call returns. *)
Returns == <>(pc = "done")

(* And the children end, also those a failed spawn abandons.               *)
ChildrenEnd == <>[](\A j \in Index : ~Running(j))
=============================================================================
