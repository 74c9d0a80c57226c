-------------------------- MODULE BackupCycleProofs --------------------------
(***************************************************************************)
(* Theorems about module BackupCycle, for every value of its constants:    *)
(* the types, and that no command unlinks source and target.               *)
(***************************************************************************)
EXTENDS BackupCycle, SubvolumesProofs

-----------------------------------------------------------------------------
(* Type correctness.  The type of what a resume sends and of the parent a  *)
(* transfer builds on rests on "the newest of" being one of them, hence on *)
(* ids being bounded by the last one issued; the type of a new name rests  *)
(* on the counters in use being bounded.                                   *)

Bounds ==
  /\ \A s \in src \cup tgt \cup snaps \cup baks : s.id <= tick
  /\ mine # NoSub => mine.id <= tick
  /\ \A s \in src : s.leaf.base \in Bases => s.leaf.nn <= tick
  /\ leaf.nn <= tick + 1
  /\ pc \in {"name", "create"} => base \in Bases

TypeInv == TypeOK /\ Bounds

LEMMA InitTypeInv == Init => TypeInv
<1> SUFFICES ASSUME Init PROVE TypeInv
  OBVIOUS
<1>1. FsTypeOK
  BY CycleAssumption DEF Init, FsTypeOK
<1>2. NoLeaf \in Leaf /\ NoLeaf.nn = 0
  BY DEF NoLeaf, Leaf
<1>3. CommandTypeOK
  BY <1>2 DEF Init, CommandTypeOK, AllCommands, PCs, Modes, SubOrNone, NoSel, NoPipe, Results
<1>4. \A s \in src : s.id <= tick /\ s.leaf.base \notin Bases
  BY CycleAssumption, ForeignIsNoBase DEF Init
<1>5. Bounds
  BY <1>2, <1>4, CycleAssumption DEF Init, Bounds
<1> QED
  BY <1>1, <1>3, <1>5 DEF TypeInv, TypeOK, Init

(* A command that ends leaves its locals cleared.                          *)
LEMMA FinishTyped ==
  ASSUME NEW r \in Results, Finish(r)
  PROVE  /\ CommandTypeOK'
         /\ cmd' = "none" /\ pc' = "idle" /\ mine' = NoSub
         /\ snaps' = {} /\ baks' = {} /\ leaf'.nn = 0
<1>1. NoLeaf \in Leaf /\ NoLeaf.nn = 0
  BY DEF NoLeaf, Leaf
<1> QED
  BY <1>1 DEF Finish, CommandTypeOK, AllCommands, PCs, Modes, SubOrNone, NoSel, NoPipe, Results

(* So any step that ends the command and leaves the subvolumes within the  *)
(* ids issued keeps the type invariant.                                    *)
LEMMA FinishKeepsTypeInv ==
  ASSUME TypeInv, NEW r \in Results, Finish(r), FsTypeOK',
         \A s \in src' \cup tgt' : s.id <= tick',
         \A s \in src' : s.leaf.base \in Bases => s.leaf.nn <= tick'
  PROVE  TypeInv'
<1>1. /\ CommandTypeOK'
      /\ cmd' = "none" /\ pc' = "idle" /\ mine' = NoSub
      /\ snaps' = {} /\ baks' = {} /\ leaf'.nn = 0
  BY FinishTyped
<1>2. tick' \in Nat
  BY DEF FsTypeOK
<1>3. leaf'.nn <= tick' + 1
  BY <1>1, <1>2
<1>4. \A s \in src' \cup tgt' \cup snaps' \cup baks' : s.id <= tick'
  BY <1>1
<1>5. Bounds'
  BY <1>1, <1>3, <1>4 DEF Bounds
<1> QED
  BY <1>1, <1>5 DEF TypeInv, TypeOK

LEMMA NewSnapshotTyped ==
  ASSUME TypeInv, pc = "create"
  PROVE  /\ NewSnapshot \in Subvol /\ NewSnapshot.id = tick + 1
         /\ NewSnapshot.leaf = leaf /\ NewSnapshot.ro /\ NewSnapshot.recv = NoUuid
         /\ NewSnapshot # NoSub
<1>1. SourceUuid[base] \in Nat
  BY CycleAssumption DEF TypeInv, Bounds
<1>2. NewSnapshot \in Subvol
  BY <1>1 DEF NewSnapshot, Subvol, TypeInv, TypeOK, FsTypeOK, CommandTypeOK, NoUuid
<1> QED
  BY <1>2, NoSubIsNone DEF NewSnapshot

(* In particular a step that ends the command and otherwise only drops     *)
(* subvolumes or receives.                                                 *)
LEMMA EndingKeepsTypeInv ==
  ASSUME TypeInv, NEW r \in Results, Finish(r),
         src' \subseteq src, tgt' \subseteq tgt, rx' \subseteq rx, tick' = tick, faults' \in Nat
  PROVE  TypeInv'
<1>1. FsTypeOK'
  BY DEF TypeInv, TypeOK, FsTypeOK
<1>2. /\ \A s \in src' \cup tgt' : s.id <= tick'
      /\ \A s \in src' : s.leaf.base \in Bases => s.leaf.nn <= tick'
  BY DEF TypeInv, Bounds
<1> QED
  BY <1>1, <1>2, FinishKeepsTypeInv

(* A failure only counts.                                                  *)
LEMMA FaultTyped ==
  ASSUME TypeInv, Fault \/ UNCHANGED faults
  PROVE  faults' \in Nat
BY DEF TypeInv, TypeOK, FsTypeOK, Fault

(* A receive changes the flags of the subvolume it writes, nothing else.   *)
LEMMA ReceiveTyped ==
  ASSUME TypeInv, NEW t \in tgt, NEW n \in Nat, NEW ro \in BOOLEAN,
         tgt' = (tgt \ {t}) \cup {[t EXCEPT !.recv = n, !.ro = ro]}
  PROVE  /\ tgt' \subseteq Subvol
         /\ \A s \in tgt' : s.id <= tick
<1> DEFINE u == [t EXCEPT !.recv = n, !.ro = ro]
<1>1. t \in Subvol /\ t.id <= tick
  BY DEF TypeInv, TypeOK, FsTypeOK, Bounds
<1>2. u \in Subvol /\ u.id = t.id
  BY <1>1 DEF Subvol
<1> HIDE DEF u
<1> QED
  BY <1>1, <1>2 DEF TypeInv, TypeOK, FsTypeOK, Bounds, u

LEMMA NextTypeInv == TypeInv /\ [Next]_vars => TypeInv'
<1> SUFFICES ASSUME TypeInv, [Next]_vars PROVE TypeInv'
  OBVIOUS
<1> USE DEF TypeInv
<1>1. ASSUME NEW c \in AllCommands, NEW b \in Bases \cup {Foreign}, NEW m \in Modes,
             Start(c, b, m), c \in {"snapshot", "run"} => b \in Bases
      PROVE TypeInv'
  BY <1>1 DEF Start, TypeOK, FsTypeOK, CommandTypeOK, Bounds, AllCommands, PCs, SubOrNone,
     fsVars, sendVars, planVars
<1>2. CASE StartNamed
  BY <1>1, <1>2, CycleAssumption DEF StartNamed
<1>3. CASE StartPrune
  BY <1>1, <1>3 DEF StartPrune, AllCommands, Modes
<1>4. CASE NameSnapshot
  <2>1. PICK t \in Times : leaf' = NextFreeLeaf(base, t, LeavesOf(src))
    BY <1>4 DEF NameSnapshot
  <2>2. LeavesOf(src) \subseteq Leaf /\ \A l \in LeavesOf(src) : l.base \in Bases => l.nn <= tick
    BY DEF TypeOK, FsTypeOK, LeavesOf, Subvol, Bounds
  <2>3. base \in Bases /\ t \in Nat /\ tick \in Nat
    BY <1>4, CycleAssumption DEF NameSnapshot, TypeOK, FsTypeOK, Bounds
  <2>4. \A l \in LeavesOf(src) : l.base = base => l.nn <= tick
    BY <2>2, <2>3
  <2>5. /\ NextFreeLeaf(base, t, LeavesOf(src)) \in Leaf
        /\ NextFreeLeaf(base, t, LeavesOf(src)).nn <= tick + 1
    BY <2>2, <2>3, <2>4, NextFreeLeafIsFree
  <2>6. leaf' \in Leaf /\ leaf'.nn <= tick + 1
    BY <2>1, <2>5
  <2> QED
    BY <1>4, <2>3, <2>6 DEF NameSnapshot, TypeOK, FsTypeOK, CommandTypeOK, Bounds, PCs,
       fsVars, sendVars, planVars
<1>5. ASSUME pc = "create", src' = src \cup {NewSnapshot}, tick' = tick + 1,
             UNCHANGED <<tgt, rx>>, faults' \in Nat
      PROVE  /\ FsTypeOK'
             /\ \A s \in src' \cup tgt' \cup snaps \cup baks : s.id <= tick'
             /\ mine # NoSub => mine.id <= tick'
             /\ \A s \in src' : s.leaf.base \in Bases => s.leaf.nn <= tick'
             /\ leaf.nn <= tick' + 1
  <2>1. /\ NewSnapshot \in Subvol /\ NewSnapshot.id = tick + 1
        /\ NewSnapshot.leaf = leaf /\ leaf.nn <= tick + 1 /\ leaf.nn \in Nat
    BY <1>5, NewSnapshotTyped DEF Bounds, TypeOK, CommandTypeOK, Leaf
  <2>2. \A s \in Subvol : s.id \in Nat /\ s.leaf.nn \in Nat
    BY DEF Subvol, Leaf
  <2>3. FsTypeOK'
    BY <1>5, <2>1 DEF TypeOK, FsTypeOK
  <2>4. \A s \in src \cup tgt \cup snaps \cup baks : s.id <= tick + 1
    BY <2>2 DEF TypeOK, FsTypeOK, CommandTypeOK, Bounds
  <2>5. mine # NoSub => mine.id <= tick + 1
    BY <2>2 DEF TypeOK, FsTypeOK, CommandTypeOK, SubOrNone, Bounds
  <2>6. \A s \in src : s.leaf.base \in Bases => s.leaf.nn <= tick + 1
    BY <2>2 DEF TypeOK, FsTypeOK, Bounds
  <2>7. tick \in Nat
    BY DEF TypeOK, FsTypeOK
  <2> QED
    BY <1>5, <2>1, <2>3, <2>4, <2>5, <2>6, <2>7
<1>6. CASE CreateSnapshot
  <2>1. faults' \in Nat
    BY <1>6 DEF CreateSnapshot, TypeOK, FsTypeOK
  <2>2. CASE cmd = "run" /\ mine' = NewSnapshot
    <3>1. /\ NewSnapshot \in Subvol /\ NewSnapshot.id = tick + 1 /\ tick \in Nat
      BY <1>6, NewSnapshotTyped DEF CreateSnapshot, TypeOK, FsTypeOK
    <3>2. /\ pc' = "listSource"
          /\ UNCHANGED <<cmdVars, sel, snaps, baks, pipe, own, planVars, res>>
      BY <1>6, <2>2 DEF CreateSnapshot, Finish
    <3> QED
      BY <1>5, <1>6, <2>1, <2>2, <3>1, <3>2 DEF CreateSnapshot, TypeOK, CommandTypeOK, Bounds,
         cmdVars, planVars, PCs, SubOrNone
  <2>3. CASE Finish("ok")
    BY <1>5, <1>6, <2>1, <2>3, FinishKeepsTypeInv DEF CreateSnapshot, Results
  <2> QED
    BY <1>6, <2>2, <2>3 DEF CreateSnapshot
<1>7. CASE CreateUnseen
  <2>1. faults' \in Nat
    BY <1>7 DEF CreateUnseen, Fault, TypeOK, FsTypeOK
  <2> QED
    BY <1>5, <1>7, <2>1, FinishKeepsTypeInv DEF CreateUnseen, Results
<1>8. CASE CreateFails
  BY <1>8, FaultTyped, EndingKeepsTypeInv DEF CreateFails, fsVars, Results
<1>9. CASE ListFails
  BY <1>9, FaultTyped, EndingKeepsTypeInv DEF ListFails, fsVars, Results
<1>10. CASE ListSource
  <2>1. snaps' \subseteq Subvol /\ \A s \in snaps' : s.id <= tick
    BY <1>10 DEF ListSource, TypeOK, FsTypeOK, CommandTypeOK, Bounds, SubOrNone
  <2> QED
    BY <1>10, <2>1 DEF ListSource, TypeOK, FsTypeOK, CommandTypeOK, Bounds, PCs,
       fsVars, cmdVars, planVars
<1>11. CASE ListTarget
  <2> DEFINE s == ToSend(tgt)
  <2>1. s # NoSub => s \in Subvol /\ s.id <= tick
    <3>1. CASE cmd = "run"
      BY <3>1 DEF ToSend, TypeOK, CommandTypeOK, SubOrNone, Bounds
    <3>2. CASE cmd = "resume"
      <4>1. Due(snaps, tgt, base) # NoSub => Due(snaps, tgt, base) \in snaps
        BY DueIsOwed DEF TypeOK, FsTypeOK, CommandTypeOK, Bounds
      <4>2. s = Due(snaps, tgt, base)
        BY <3>2 DEF ToSend
      <4> QED
        BY <4>1, <4>2 DEF TypeOK, CommandTypeOK, Bounds
    <3>3. CASE cmd \notin {"run", "resume"}
      BY <3>3 DEF ToSend
    <3> QED
      BY <3>1, <3>2, <3>3
  <2>2. BestParent(s, snaps, tgt, mode) \in [parent : SubOrNone, clones : SUBSET Subvol]
    <3>1. /\ BestParent(s, snaps, tgt, mode).parent \in SubOrNone
          /\ BestParent(s, snaps, tgt, mode).clones \subseteq Subvol
      <4>1. snaps \subseteq Subvol /\ tick \in Nat /\ \A x \in snaps : x.id <= tick
        BY DEF TypeOK, FsTypeOK, CommandTypeOK, Bounds
      <4>2. /\ BestParent(s, snaps, tgt, mode).parent \in Candidates(s, snaps, tgt, mode) \cup {NoSub}
            /\ BestParent(s, snaps, tgt, mode).clones \subseteq Candidates(s, snaps, tgt, mode)
            /\ Candidates(s, snaps, tgt, mode) \subseteq snaps
        BY <4>1, BestParentIsCandidate
      <4> QED
        BY <4>1, <4>2 DEF SubOrNone
    <3> QED
      BY <3>1 DEF BestParent
  <2> HIDE DEF s
  <2>3. CASE s = NoSub /\ pc' = "plan"
    BY <1>11, <2>3 DEF ListTarget, s, Finish, TypeOK, FsTypeOK, CommandTypeOK, Bounds, PCs,
       fsVars, cmdVars, planVars
  <2>4. CASE s # NoSub /\ pc' = "send"
    <3>1. /\ mine' = s /\ sel' = BestParent(s, snaps, tgt, mode) /\ baks' = tgt
          /\ UNCHANGED <<fsVars, faults, cmdVars, snaps, pipe, own, planVars, res>>
          /\ pc = "listTarget"
      BY <1>11, <2>4 DEF ListTarget, s, Finish
    <3> QED
      BY <3>1, <2>1, <2>2, <2>4 DEF TypeOK, FsTypeOK, CommandTypeOK, Bounds, PCs, SubOrNone,
         fsVars, cmdVars, planVars
  <2>5. CASE Finish("verification")
    BY <1>11, <2>5, EndingKeepsTypeInv DEF ListTarget, fsVars, Results, TypeOK, FsTypeOK
  <2> QED
    BY <1>11, <2>3, <2>4, <2>5 DEF ListTarget, s
<1>12. CASE BeginReceive
  <2>1. PICK p \in IF sel.parent = NoSub THEN {NoUuid} ELSE Ids(TargetCorrelates(sel.parent, tgt)) :
           tgt' = tgt \cup {[id |-> tick + 1, parent |-> p, recv |-> NoUuid, ro |-> FALSE,
                             leaf |-> mine.leaf]}
    BY <1>12 DEF BeginReceive
  <2>2. p \in Nat /\ mine \in Subvol /\ tick \in Nat
    BY <1>12, <2>1 DEF BeginReceive, TypeOK, FsTypeOK, Ids, TargetCorrelates, Subvol, NoUuid
  <2>3. /\ [id |-> tick + 1, parent |-> p, recv |-> NoUuid, ro |-> FALSE, leaf |-> mine.leaf] \in Subvol
        /\ [sub |-> tick + 1, of |-> mine.id] \in [sub : Nat, of : Nat]
    BY <2>2 DEF Subvol, NoUuid
  <2>4. FsTypeOK' /\ \A s \in src' \cup tgt' \cup snaps' \cup baks' : s.id <= tick'
    <3>1. tgt' \subseteq Subvol /\ rx' \subseteq [sub : Nat, of : Nat]
      BY <1>12, <2>1, <2>3 DEF BeginReceive, TypeOK, FsTypeOK
    <3>2. \A s \in src \cup tgt \cup snaps \cup baks : s.id <= tick + 1
      BY <2>2 DEF TypeOK, FsTypeOK, CommandTypeOK, Bounds, Subvol
    <3> QED
      BY <1>12, <2>1, <2>2, <3>1, <3>2 DEF BeginReceive, TypeOK, FsTypeOK
  <2>5. \A s \in src' : s.leaf.base \in Bases => s.leaf.nn <= tick'
    BY <1>12, <2>2 DEF BeginReceive, TypeOK, FsTypeOK, Bounds, Subvol, Leaf
  <2>6. mine'.id <= tick' /\ leaf'.nn <= tick' + 1
    BY <1>12, <2>2, NoSubIsNone DEF BeginReceive, TypeOK, CommandTypeOK, Bounds, Subvol, Leaf, cmdVars
  <2> QED
    BY <1>12, <2>2, <2>4, <2>5, <2>6 DEF BeginReceive, TypeOK, CommandTypeOK, Bounds, PCs,
       cmdVars, planVars
<1>13. CASE PipeFails
  BY <1>13, FaultTyped DEF PipeFails, TypeOK, FsTypeOK, CommandTypeOK, Bounds, PCs, NoPipe,
     fsVars, cmdVars, planVars
<1>14. CASE PipeEnds
  BY <1>14 DEF PipeEnds, TypeOK, FsTypeOK, CommandTypeOK, Bounds, PCs,
     fsVars, cmdVars, planVars
<1>15. CASE InspectFails
  BY <1>15, FaultTyped, EndingKeepsTypeInv DEF InspectFails, fsVars, Results
<1>16. CASE InspectGarbled
  BY <1>16 DEF InspectGarbled, TypeOK, FsTypeOK, CommandTypeOK, Bounds, PCs,
     fsVars, cmdVars, sendVars, planVars
<1>17. PipeError \in Results
  BY DEF PipeError, Results
<1>18. CASE Cleanup
  BY <1>17, <1>18, FaultTyped, EndingKeepsTypeInv DEF Cleanup
<1>19. CASE InspectRejects
  BY <1>17, <1>19, FaultTyped, EndingKeepsTypeInv DEF InspectRejects, fsVars
<1>20. CASE InspectAccepts
  <2>1. PICK t \in tgt : baks' = baks \cup {t} /\ own' = {t.id}
    BY <1>20 DEF InspectAccepts, Received
  <2>2. t \in Subvol /\ t.id \in Nat /\ t.id <= tick
    BY DEF TypeOK, FsTypeOK, Bounds, Subvol
  <2> QED
    BY <1>20, <2>1, <2>2 DEF InspectAccepts, TypeOK, FsTypeOK, CommandTypeOK, Bounds, PCs,
       fsVars, cmdVars, planVars
<1>21. CASE Plan
  <2>1. delB' \subseteq Subvol /\ delS' \subseteq Subvol
    BY <1>21 DEF Plan, Schedules, Named, Enforce, TypeOK, CommandTypeOK
  <2> QED
    BY <1>21, <2>1 DEF Plan, TypeOK, FsTypeOK, CommandTypeOK, Bounds, PCs,
       fsVars, cmdVars, sendVars
<1>22. CASE DeleteBackup
  BY <1>22 DEF DeleteBackup, TypeOK, FsTypeOK, CommandTypeOK, Bounds, PCs,
     cmdVars, sendVars
<1>23. CASE BackupsPruned
  BY <1>23 DEF BackupsPruned, TypeOK, FsTypeOK, CommandTypeOK, Bounds, PCs,
     fsVars, cmdVars, sendVars, planVars
<1>24. CASE DeleteSnapshot
  BY <1>24 DEF DeleteSnapshot, TypeOK, FsTypeOK, CommandTypeOK, Bounds, PCs,
     cmdVars, sendVars
<1>25. CASE SnapshotsPruned
  BY <1>25, FaultTyped, EndingKeepsTypeInv DEF SnapshotsPruned, fsVars, Results
<1>26. CASE DeleteFails
  BY <1>26, FaultTyped, EndingKeepsTypeInv DEF DeleteFails, fsVars, Results
<1>27. CASE ReceiveStamps
  <2>1. PICK r \in rx, t \in tgt : tgt' = (tgt \ {t}) \cup {[t EXCEPT !.recv = r.of]}
    BY <1>27 DEF ReceiveStamps, Target
  <2>2. r.of \in Nat /\ t.ro \in BOOLEAN /\ [t EXCEPT !.recv = r.of] = [t EXCEPT !.recv = r.of, !.ro = t.ro]
    BY DEF TypeOK, FsTypeOK, Subvol
  <2>3. tgt' \subseteq Subvol /\ \A s \in tgt' : s.id <= tick
    BY <2>1, <2>2, ReceiveTyped
  <2> QED
    BY <1>27, <2>3 DEF ReceiveStamps, TypeOK, FsTypeOK, CommandTypeOK, Bounds,
       cmdVars, sendVars, planVars
<1>28. CASE ReceiveSeals
  <2>1. PICK r \in rx, t \in tgt : /\ tgt' = (tgt \ {t}) \cup {[t EXCEPT !.recv = r.of, !.ro = TRUE]}
                                   /\ rx' = rx \ {r}
    BY <1>28 DEF ReceiveSeals, Target
  <2>2. r.of \in Nat
    BY DEF TypeOK, FsTypeOK
  <2>3. tgt' \subseteq Subvol /\ \A s \in tgt' : s.id <= tick
    BY <2>1, <2>2, ReceiveTyped
  <2> QED
    BY <1>28, <2>1, <2>3 DEF ReceiveSeals, TypeOK, FsTypeOK, CommandTypeOK, Bounds,
       cmdVars, sendVars, planVars
<1>29. CASE ReceiveDies
  BY <1>29, FaultTyped DEF ReceiveDies, TypeOK, FsTypeOK, CommandTypeOK, Bounds,
     cmdVars, sendVars, planVars
<1>30. CASE Killed
  BY <1>30, FaultTyped, EndingKeepsTypeInv DEF Killed, Results
<1>31. CASE UNCHANGED vars
  BY <1>31 DEF vars, fsVars, cmdVars, sendVars, planVars, TypeOK, FsTypeOK, CommandTypeOK, Bounds,
     SubOrNone
<1> QED
  BY <1>2, <1>3, <1>4, <1>6, <1>7, <1>8, <1>9, <1>10, <1>11, <1>12, <1>13, <1>14, <1>15, <1>16,
     <1>18, <1>19, <1>20, <1>21, <1>22, <1>23, <1>24, <1>25, <1>26, <1>27, <1>28, <1>29, <1>30, <1>31
     DEF Next, Command, Receive

(* Every variable keeps its type, the lock is held exactly while a command *)
(* is under way, and a transfer always has a snapshot to work on, for any  *)
(* base names, policies, failures and bounds.                              *)
THEOREM TypeCorrect == Spec => []TypeOK
<1>1. TypeInv => TypeOK
  BY DEF TypeInv
<1> QED
  BY <1>1, InitTypeInv, NextTypeInv, PTL DEF Spec

-----------------------------------------------------------------------------
(* No command unlinks source and target (CommonPairKept), when a receive   *)
(* never outlives the command that started it.                             *)
(*                                                                         *)
(* The property is about the step that deletes, but what makes it true is  *)
(* decided several calls earlier, from the listings.  The invariant below  *)
(* carries that knowledge along: names are unique on each side, so that a  *)
(* delete by path removes one subvolume; no receive runs but the command's *)
(* own, into a subvolume the listings do not show; up to the plan the      *)
(* listings say what is there; and the plan spares one pair.               *)

LeavesUnique ==
  /\ \A s, t \in src : s.leaf = t.leaf => s = t
  /\ \A s, t \in tgt : s.leaf = t.leaf => s = t

OwnReceive ==
  /\ pc # "pipe" => rx = {}
  /\ \A r \in rx : r.sub = pipe.sub /\ r.of = mine.id
  /\ \A r \in rx, t \in tgt : t.id = r.sub => ~t.ro
  /\ pc = "pipe" => /\ \A t \in tgt : t.id = pipe.sub => t.leaf = mine.leaf
                    /\ \A t \in baks : t.id # pipe.sub

Listed == {"listTarget", "send", "pipe", "inspect", "cleanup", "plan"}

ListingsHold ==
  /\ pc \in {"idle", "name", "create"} => mine = NoSub
  /\ pc \in Listed \cup {"listSource"} /\ mine # NoSub => mine \in src
  /\ pc \in Listed => snaps = src
  /\ pc \in {"send", "plan"} => baks = tgt
  /\ pc \in {"pipe", "inspect", "cleanup"} =>
       baks \subseteq tgt /\ \A t \in tgt \ baks : t.leaf = mine.leaf

CleanupIsGarbled == pc = "cleanup" => \A t \in Received : Garbled(t)

PlanSparesPair ==
  pc \in {"pruneB", "pruneS"} /\ Linked =>
    \E s \in src, t \in tgt : /\ Correlated(s, t)
                              /\ \A d \in delS : d.leaf # s.leaf
                              /\ \A d \in delB : d.leaf # t.leaf

ChainInv ==
  /\ TypeInv
  /\ LeavesUnique
  /\ OwnReceive
  /\ ListingsHold
  /\ CleanupIsGarbled
  /\ PlanSparesPair

-----------------------------------------------------------------------------
LEMMA InitChainInv == Init => ChainInv
<1> SUFFICES ASSUME Init PROVE ChainInv
  OBVIOUS
<1>1. TypeInv
  BY InitTypeInv
<1>2. LeavesUnique
  BY CycleAssumption DEF Init, LeavesUnique
<1>3. OwnReceive /\ ListingsHold /\ CleanupIsGarbled /\ PlanSparesPair
  BY DEF Init, OwnReceive, ListingsHold, CleanupIsGarbled, PlanSparesPair, Listed
<1> QED
  BY <1>1, <1>2, <1>3 DEF ChainInv

(* Between commands only the names and the absence of receives matter.     *)
LEMMA IdleChainInv ==
  ASSUME TypeInv', pc' = "idle", mine' = NoSub, rx' = {}, LeavesUnique'
  PROVE  ChainInv'
<1>1. OwnReceive' /\ ListingsHold' /\ CleanupIsGarbled' /\ PlanSparesPair'
  BY DEF OwnReceive, ListingsHold, CleanupIsGarbled, PlanSparesPair, Listed
<1> QED
  BY <1>1 DEF ChainInv

LEMMA FewerLeavesUnique ==
  ASSUME LeavesUnique, src' \subseteq src, tgt' \subseteq tgt
  PROVE  LeavesUnique'
BY DEF LeavesUnique

(* A step that ends the command and only drops subvolumes.                 *)
LEMMA EndingKeepsChainInv ==
  ASSUME ChainInv, TypeInv', NEW r, Finish(r), rx' = {}, src' \subseteq src, tgt' \subseteq tgt
  PROVE  ChainInv'
<1>1. pc' = "idle" /\ mine' = NoSub /\ LeavesUnique'
  BY FewerLeavesUnique DEF Finish, ChainInv
<1> QED
  BY <1>1, IdleChainInv

(* Nothing is received but while a command waits in its pipe.              *)
LEMMA NoReceive ==
  ASSUME ChainInv, pc # "pipe"
  PROVE  rx = {}
BY DEF ChainInv, OwnReceive

(* A newly created snapshot has a name of its own.                         *)
LEMMA CreateLeavesUnique ==
  ASSUME ChainInv, pc = "create", leaf \notin LeavesOf(src), src' = src \cup {NewSnapshot},
         tgt' = tgt
  PROVE  LeavesUnique'
<1>1. NewSnapshot.leaf = leaf /\ \A s \in src : s.leaf # leaf
  BY DEF NewSnapshot, LeavesOf
<1> QED
  BY <1>1 DEF ChainInv, LeavesUnique

(* A receive changes a writable subvolume of the target, under its name.   *)
LEMMA ReceiveStep ==
  ASSUME ChainInv, ReceiveStamps \/ ReceiveSeals
  PROVE  /\ pc = "pipe" /\ pc' = "pipe"
         /\ rx' \subseteq rx
         /\ UNCHANGED <<src, tick, cmdVars, sendVars, planVars>>
         /\ \E t \in tgt, u \in Subvol :
              /\ t.id = pipe.sub /\ ~t.ro
              /\ u.id = t.id /\ u.leaf = t.leaf /\ u.recv = mine.id
              /\ u.ro => rx' = {}
              /\ tgt' = (tgt \ {t}) \cup {u}
<1>1. pc = "pipe"
  BY NoReceive DEF ReceiveStamps, ReceiveSeals
<1>2. tgt \subseteq Subvol /\ \A r \in rx : r.of \in Nat /\ r.sub = pipe.sub /\ r.of = mine.id
  BY DEF ChainInv, TypeInv, TypeOK, FsTypeOK, OwnReceive
<1>3. CASE ReceiveStamps
  <2>1. PICK r \in rx, t \in tgt : t.id = r.sub /\ tgt' = (tgt \ {t}) \cup {[t EXCEPT !.recv = r.of]}
    BY <1>3 DEF ReceiveStamps, Target
  <2> DEFINE u == [t EXCEPT !.recv = r.of]
  <2>2. ~t.ro /\ t.id = pipe.sub
    BY <1>2, <2>1 DEF ChainInv, OwnReceive
  <2>3. u \in Subvol /\ u.id = t.id /\ u.leaf = t.leaf /\ u.recv = mine.id /\ ~u.ro
    BY <1>2, <2>2 DEF Subvol
  <2> HIDE DEF u
  <2> QED
    BY <1>1, <1>3, <2>1, <2>2, <2>3 DEF ReceiveStamps, u
<1>4. CASE ReceiveSeals
  <2>1. PICK r \in rx, t \in tgt : /\ t.id = r.sub
                                   /\ tgt' = (tgt \ {t}) \cup {[t EXCEPT !.recv = r.of, !.ro = TRUE]}
                                   /\ rx' = rx \ {r}
    BY <1>4 DEF ReceiveSeals, Target
  <2> DEFINE u == [t EXCEPT !.recv = r.of, !.ro = TRUE]
  <2>2. ~t.ro /\ t.id = pipe.sub
    BY <1>2, <2>1 DEF ChainInv, OwnReceive
  <2>3. u \in Subvol /\ u.id = t.id /\ u.leaf = t.leaf /\ u.recv = mine.id
    BY <1>2, <2>2 DEF Subvol
  <2> HIDE DEF u
  <2>4. rx' = {}
    <3>1. \A q \in rx : q = r
      BY DEF ChainInv, OwnReceive, TypeInv, TypeOK, FsTypeOK
    <3> QED
      BY <2>1, <3>1
  <2> QED
    BY <1>1, <1>4, <2>1, <2>2, <2>3, <2>4 DEF ReceiveSeals, u
<1> QED
  BY <1>3, <1>4

LEMMA NextChainInv == ~Orphans /\ ChainInv /\ [Next]_vars => ChainInv'
<1> SUFFICES ASSUME ~Orphans, ChainInv, [Next]_vars PROVE ChainInv'
  OBVIOUS
<1>0. TypeInv'
  BY NextTypeInv DEF ChainInv
<1> USE <1>0
<1>1. CASE StartNamed \/ StartPrune
  <2>1. /\ pc = "idle" /\ pc' \in {"name", "listSource"}
        /\ UNCHANGED <<fsVars, leaf, sendVars, planVars>>
    BY <1>1 DEF StartNamed, StartPrune, Start
  <2>2. rx = {}
    BY <2>1, NoReceive
  <2> QED
    BY <2>1, <2>2 DEF ChainInv, LeavesUnique, OwnReceive, ListingsHold, CleanupIsGarbled,
       PlanSparesPair, Listed, fsVars, sendVars
<1>2. CASE NameSnapshot
  <2> QED
    BY <1>2, NoReceive DEF NameSnapshot, ChainInv, LeavesUnique, OwnReceive, ListingsHold,
       CleanupIsGarbled, PlanSparesPair, Listed, fsVars, sendVars, planVars
<1>3. CASE CreateSnapshot
  <2>1. /\ pc = "create" /\ rx' = {} /\ LeavesUnique' /\ NewSnapshot \in src'
    BY <1>3, NoReceive, CreateLeavesUnique DEF CreateSnapshot
  <2>2. CASE pc' = "idle" /\ mine' = NoSub
    BY <2>1, <2>2, IdleChainInv
  <2>3. CASE pc' = "listSource" /\ mine' = NewSnapshot
    BY <2>1, <2>3 DEF ChainInv, OwnReceive, ListingsHold, CleanupIsGarbled, PlanSparesPair, Listed
  <2> QED
    BY <1>3, <2>2, <2>3 DEF CreateSnapshot, Finish
<1>4. CASE CreateUnseen
  <2>1. /\ pc' = "idle" /\ mine' = NoSub /\ rx' = {} /\ LeavesUnique'
    BY <1>4, NoReceive, CreateLeavesUnique DEF CreateUnseen, Finish
  <2> QED
    BY <2>1, IdleChainInv
<1>5. CASE CreateFails \/ ListFails \/ InspectFails \/ InspectRejects \/ SnapshotsPruned \/ DeleteFails
  <2>1. pc # "pipe" /\ UNCHANGED fsVars /\ \E r \in Results \cup {PipeError} : Finish(r)
    BY <1>5 DEF CreateFails, ListFails, InspectFails, InspectRejects, SnapshotsPruned, DeleteFails,
       Results
  <2> QED
    BY <2>1, NoReceive, EndingKeepsChainInv DEF fsVars
<1>6. CASE Cleanup
  BY <1>6, NoReceive, EndingKeepsChainInv DEF Cleanup
<1>7. CASE Killed
  <2>1. rx' = {}
    BY <1>7 DEF Killed, ChainInv, OwnReceive
  <2> QED
    BY <1>7, <2>1, EndingKeepsChainInv DEF Killed
<1>8. CASE ListSource
  <2>1. /\ pc = "listSource" /\ pc' = "listTarget" /\ rx = {} /\ snaps' = src
        /\ UNCHANGED <<src, tgt, rx, mine>>
    BY <1>8, NoReceive DEF ListSource, ChainInv, ListingsHold, fsVars
  <2> QED
    BY <2>1 DEF ChainInv, LeavesUnique, OwnReceive, ListingsHold, CleanupIsGarbled, PlanSparesPair, Listed
<1>9. CASE ListTarget
  <2>1. CASE pc' = "idle" /\ mine' = NoSub
    BY <1>9, <2>1, NoReceive, IdleChainInv DEF ListTarget, fsVars, ChainInv, LeavesUnique
  <2>2. CASE pc' \in {"plan", "send"}
    <3>1. /\ pc = "listTarget" /\ rx = {} /\ baks' = tgt /\ UNCHANGED <<src, tgt, rx, snaps>>
      BY <1>9, <2>2, NoReceive DEF ListTarget, Finish, fsVars
    <3>2. mine' = mine \/ (mine' = ToSend(tgt) /\ mine' # NoSub)
      BY <1>9, <2>2 DEF ListTarget, Finish
    <3>3. mine' # NoSub => mine' \in src
      <4>1. snaps = src /\ (mine # NoSub => mine \in src)
        BY <3>1 DEF ChainInv, ListingsHold, Listed
      <4>2. Due(snaps, tgt, base) # NoSub => Due(snaps, tgt, base) \in snaps
        <5>1. snaps \subseteq Subvol /\ tick \in Nat /\ \A s \in snaps : s.id <= tick
          BY DEF ChainInv, TypeInv, TypeOK, FsTypeOK, CommandTypeOK, Bounds
        <5> QED
          BY ONLY <5>1, DueIsOwed
      <4>3. ToSend(tgt) \in {mine, Due(snaps, tgt, base), NoSub}
        BY DEF ToSend
      <4> QED
        BY <3>2, <4>1, <4>2, <4>3
    <3> QED
      BY <2>2, <3>1, <3>3 DEF ChainInv, LeavesUnique, OwnReceive, ListingsHold, CleanupIsGarbled,
         PlanSparesPair, Listed
  <2> QED
    BY <1>9, <2>1, <2>2 DEF ListTarget, Finish
<1>10. CASE BeginReceive
  <2>1. PICK new \in Subvol : /\ new.id = tick + 1 /\ ~new.ro /\ new.leaf = mine.leaf
                              /\ tgt' = tgt \cup {new}
    <3>1. PICK p \in IF sel.parent = NoSub THEN {NoUuid} ELSE Ids(TargetCorrelates(sel.parent, tgt)) :
             tgt' = tgt \cup {[id |-> tick + 1, parent |-> p, recv |-> NoUuid, ro |-> FALSE,
                               leaf |-> mine.leaf]}
      BY <1>10 DEF BeginReceive
    <3> DEFINE new == [id |-> tick + 1, parent |-> p, recv |-> NoUuid, ro |-> FALSE, leaf |-> mine.leaf]
    <3>2. new \in tgt' /\ tgt' \subseteq Subvol
      BY <3>1 DEF TypeInv, TypeOK, FsTypeOK
    <3> QED
      BY <3>1, <3>2
  <2>2. /\ pc = "send" /\ pc' = "pipe" /\ rx' = {[sub |-> tick + 1, of |-> mine.id]}
        /\ pipe'.sub = tick + 1 /\ mine.leaf \notin LeavesOf(tgt)
        /\ UNCHANGED <<src, mine, snaps, baks>>
    BY <1>10, NoReceive DEF BeginReceive
  <2>3. \A t \in tgt : t.id # tick + 1 /\ t.leaf # mine.leaf
    <3>1. \A t \in tgt : t.id \in Nat /\ t.id <= tick /\ tick \in Nat
      BY DEF ChainInv, TypeInv, TypeOK, FsTypeOK, Bounds, Subvol
    <3> QED
      BY <2>2, <3>1 DEF LeavesOf
  <2>4. LeavesUnique'
    BY <2>1, <2>2, <2>3 DEF ChainInv, LeavesUnique
  <2>5. baks = tgt /\ snaps = src /\ (mine # NoSub => mine \in src)
    BY <2>2 DEF ChainInv, ListingsHold, Listed
  <2>6. OwnReceive'
    BY <2>1, <2>2, <2>3, <2>5 DEF OwnReceive
  <2>7. ListingsHold'
    BY <2>1, <2>2, <2>5 DEF ListingsHold, Listed
  <2> QED
    BY <2>2, <2>4, <2>6, <2>7 DEF ChainInv, CleanupIsGarbled, PlanSparesPair
<1>11. CASE PipeFails
  BY <1>11, NoReceive DEF PipeFails, ChainInv, LeavesUnique, OwnReceive, ListingsHold,
     CleanupIsGarbled, PlanSparesPair, Listed, fsVars, cmdVars, planVars
<1>12. CASE PipeEnds
  <2>1. rx = {}
    BY <1>12 DEF PipeEnds, Receiving, ChainInv, OwnReceive
  <2> QED
    BY <1>12, <2>1 DEF PipeEnds, ChainInv, LeavesUnique, OwnReceive, ListingsHold,
       CleanupIsGarbled, PlanSparesPair, Listed, fsVars, cmdVars, planVars
<1>13. CASE InspectGarbled
  <2>1. PICK t \in Received : Garbled(t)
    BY <1>13 DEF InspectGarbled
  <2>2. \A x \in Received : x = t
    BY <2>1 DEF Received, ChainInv, LeavesUnique
  <2>3. /\ pc = "inspect" /\ pc' = "cleanup" /\ Received' = Received
        /\ UNCHANGED <<src, tgt, rx, mine, snaps, baks>>
    BY <1>13 DEF InspectGarbled, Received, fsVars, sendVars
  <2>4. CleanupIsGarbled'
    BY <2>1, <2>2, <2>3 DEF CleanupIsGarbled
  <2>5. rx = {}
    BY <2>3, NoReceive
  <2> QED
    BY <2>3, <2>4, <2>5 DEF ChainInv, LeavesUnique, OwnReceive, ListingsHold, PlanSparesPair, Listed
<1>14. CASE InspectAccepts
  <2>1. PICK t \in tgt : t.leaf = mine.leaf /\ baks' = baks \cup {t}
    BY <1>14 DEF InspectAccepts, Received
  <2>2. /\ pc = "inspect" /\ pc' = "plan" /\ rx = {} /\ UNCHANGED <<src, tgt, rx, mine, snaps>>
    BY <1>14, NoReceive DEF InspectAccepts, fsVars
  <2>3. baks' = tgt
    BY <2>1, <2>2 DEF ChainInv, ListingsHold, LeavesUnique
  <2> QED
    BY <2>2, <2>3 DEF ChainInv, LeavesUnique, OwnReceive, ListingsHold, CleanupIsGarbled,
       PlanSparesPair, Listed
<1>15. CASE Plan
  <2>1. /\ pc = "plan" /\ pc' = "pruneB" /\ rx = {} /\ UNCHANGED <<src, tgt, rx>>
    BY <1>15, NoReceive DEF Plan, fsVars
  <2>2. snaps = src /\ baks = tgt
    BY <2>1 DEF ChainInv, ListingsHold, Listed
  <2>3. PlanSparesPair'
    <3>1. PICK dropB \in Schedules(baks), dropS \in Schedules(snaps) :
             /\ delB' = Enforce(dropB, BackupIdsToKeep, FALSE)
             /\ delS' = Enforce(dropS, SnapshotIdsToKeep, TargetAborted)
      BY <1>15 DEF Plan
    <3>2. dropB \subseteq tgt /\ dropS \subseteq src
      BY <2>2, <3>1 DEF Schedules, Named
    <3>3. /\ delB' \subseteq tgt /\ \A d \in delB' : d.id \notin BackupIdsToKeep
          /\ delS' \subseteq src /\ \A d \in delS' : d.id \notin SnapshotIdsToKeep
      BY <3>1, <3>2, EnforceSpares DEF TargetAborted
    <3>4. ASSUME Linked
          PROVE  \E s \in src, t \in tgt : /\ Correlated(s, t)
                                           /\ \A d \in delS' : d.leaf # s.leaf
                                           /\ \A d \in delB' : d.leaf # t.leaf
      <4>1. PICK s \in src, t \in tgt : Correlated(s, t)
        BY <3>4 DEF Linked
      <4>2. PICK u \in src, v \in tgt : /\ Correlated(u, v)
                                        /\ u.id \in LatestCommonPair(src, tgt).snapshot
                                        /\ v.id \in LatestCommonPair(src, tgt).backups
        BY <4>1, LatestCommonPairIsCommon DEF ChainInv, TypeInv, TypeOK, FsTypeOK, Bounds
      <4>3. u.id \in SnapshotIdsToKeep /\ v.id \in BackupIdsToKeep
        BY <2>2, <4>2 DEF SnapshotIdsToKeep, BackupIdsToKeep
      <4>4. /\ \A d \in delS' : d.leaf # u.leaf
            /\ \A d \in delB' : d.leaf # v.leaf
        BY <3>3, <4>3 DEF ChainInv, LeavesUnique
      <4> QED
        BY <4>2, <4>4
    <3>5. Linked' <=> Linked
      BY <2>1 DEF Linked
    <3> QED
      BY <2>1, <3>4, <3>5 DEF PlanSparesPair
  <2> QED
    BY <2>1, <2>3 DEF ChainInv, LeavesUnique, OwnReceive, ListingsHold, CleanupIsGarbled, Listed
<1>16. CASE DeleteBackup
  <2>1. PICK b \in delB : tgt' = {t \in tgt : t.leaf # b.leaf} /\ delB' = delB \ {b}
    BY <1>16 DEF DeleteBackup
  <2>2. /\ pc = "pruneB" /\ pc' = "pruneB" /\ rx = {} /\ UNCHANGED <<src, rx, delS>>
    BY <1>16, NoReceive DEF DeleteBackup
  <2>3. PlanSparesPair'
    BY <2>1, <2>2 DEF ChainInv, PlanSparesPair, Linked
  <2> QED
    BY <2>1, <2>2, <2>3 DEF ChainInv, LeavesUnique, OwnReceive, ListingsHold, CleanupIsGarbled, Listed
<1>17. CASE DeleteSnapshot
  <2>1. PICK d \in delS : src' = {s \in src : s.leaf # d.leaf} /\ delS' = delS \ {d}
    BY <1>17 DEF DeleteSnapshot
  <2>2. /\ pc = "pruneS" /\ pc' = "pruneS" /\ rx = {} /\ UNCHANGED <<tgt, rx, delB>>
    BY <1>17, NoReceive DEF DeleteSnapshot
  <2>3. PlanSparesPair'
    BY <2>1, <2>2 DEF ChainInv, PlanSparesPair, Linked
  <2> QED
    BY <2>1, <2>2, <2>3 DEF ChainInv, LeavesUnique, OwnReceive, ListingsHold, CleanupIsGarbled, Listed
<1>18. CASE BackupsPruned
  <2>1. /\ pc = "pruneB" /\ pc' = "pruneS" /\ rx = {} /\ UNCHANGED <<src, tgt, rx, delB, delS>>
    BY <1>18, NoReceive DEF BackupsPruned, fsVars, planVars
  <2> QED
    BY <2>1 DEF ChainInv, LeavesUnique, OwnReceive, ListingsHold, CleanupIsGarbled, PlanSparesPair,
       Linked, Listed
<1>19. CASE ReceiveStamps \/ ReceiveSeals
  <2>1. /\ pc = "pipe" /\ pc' = "pipe" /\ rx' \subseteq rx
        /\ UNCHANGED <<src, mine, snaps, baks, pipe>>
    BY <1>19, ReceiveStep DEF sendVars
  <2>2. PICK t \in tgt, u \in Subvol : /\ t.id = pipe.sub /\ ~t.ro
                                       /\ u.id = t.id /\ u.leaf = t.leaf
                                       /\ u.ro => rx' = {}
                                       /\ tgt' = (tgt \ {t}) \cup {u}
    BY <1>19, ReceiveStep
  <2>3. LeavesUnique'
    BY <2>1, <2>2 DEF ChainInv, LeavesUnique
  <2>4. OwnReceive'
    BY <2>1, <2>2 DEF ChainInv, OwnReceive
  <2>5. t \notin baks /\ t.leaf = mine.leaf
    BY <2>1, <2>2 DEF ChainInv, OwnReceive
  <2>6. ListingsHold'
    BY <2>1, <2>2, <2>5 DEF ChainInv, ListingsHold, Listed
  <2> QED
    BY <2>1, <2>3, <2>4, <2>6 DEF ChainInv, CleanupIsGarbled, PlanSparesPair
<1>20. CASE ReceiveDies
  <2>1. /\ pc = "pipe" /\ pc' = "pipe" /\ rx' \subseteq rx
        /\ UNCHANGED <<src, tgt, mine, snaps, baks, pipe>>
    BY <1>20, NoReceive DEF ReceiveDies, sendVars
  <2> QED
    BY <2>1 DEF ChainInv, LeavesUnique, OwnReceive, ListingsHold, CleanupIsGarbled, PlanSparesPair, Listed
<1>21. CASE UNCHANGED vars
  BY <1>21 DEF vars, fsVars, cmdVars, sendVars, planVars, ChainInv, LeavesUnique, OwnReceive,
     ListingsHold, CleanupIsGarbled, Received, PlanSparesPair, Linked
<1> QED
  BY <1>1, <1>2, <1>3, <1>4, <1>5, <1>6, <1>7, <1>8, <1>9, <1>10, <1>11, <1>12, <1>13, <1>14,
     <1>15, <1>16, <1>17, <1>18, <1>19, <1>20, <1>21 DEF Next, Command, Receive

-----------------------------------------------------------------------------
(* Subvolumes that appear do no harm to a pair that is there.              *)
LEMMA MoreStayLinked ==
  ASSUME src \subseteq src', tgt \subseteq tgt', Linked
  PROVE  Linked'
BY DEF Linked

(* No step unlinks the two sides: a receive touches only a writable        *)
(* subvolume, the clean-up only garbled ones, and the prune spares a pair. *)
LEMMA StepKeepsLinked ==
  ASSUME ~Orphans, ChainInv, [Next]_vars, Linked
  PROVE  Linked'
<1>1. CASE CreateSnapshot \/ CreateUnseen \/ BeginReceive
  BY <1>1, MoreStayLinked DEF CreateSnapshot, CreateUnseen, BeginReceive
<1>2. CASE Cleanup
  <2>1. pc = "cleanup" /\ src' = src /\ (tgt' = tgt \/ tgt' = tgt \ Received)
    BY <1>2 DEF Cleanup
  <2>2. \A t \in Received : ~t.ro
    BY <2>1 DEF ChainInv, CleanupIsGarbled, Garbled
  <2>3. \A s \in src, t \in tgt : Correlated(s, t) => t \in tgt'
    BY <2>1, <2>2 DEF Correlated
  <2> QED
    BY <2>1, <2>3 DEF Linked
<1>3. CASE DeleteBackup
  <2>1. PICK b \in delB : tgt' = {t \in tgt : t.leaf # b.leaf}
    BY <1>3 DEF DeleteBackup
  <2>2. pc = "pruneB" /\ src' = src
    BY <1>3 DEF DeleteBackup
  <2> QED
    BY <2>1, <2>2 DEF ChainInv, PlanSparesPair, Linked
<1>4. CASE DeleteSnapshot
  <2>1. PICK d \in delS : src' = {s \in src : s.leaf # d.leaf}
    BY <1>4 DEF DeleteSnapshot
  <2>2. pc = "pruneS" /\ tgt' = tgt
    BY <1>4 DEF DeleteSnapshot
  <2> QED
    BY <2>1, <2>2 DEF ChainInv, PlanSparesPair, Linked
<1>5. CASE ReceiveStamps \/ ReceiveSeals
  <2>1. PICK t \in tgt, u \in Subvol : ~t.ro /\ tgt' = (tgt \ {t}) \cup {u}
    BY <1>5, ReceiveStep
  <2>2. src' = src
    BY <1>5, ReceiveStep
  <2>3. \A s \in src, v \in tgt : Correlated(s, v) => v \in tgt'
    BY <2>1 DEF Correlated
  <2> QED
    BY <2>2, <2>3 DEF Linked
<1>6. CASE UNCHANGED <<src, tgt>>
  BY <1>6, MoreStayLinked
<1>7. \/ CreateSnapshot \/ CreateUnseen \/ BeginReceive \/ Cleanup \/ DeleteBackup \/ DeleteSnapshot
      \/ ReceiveStamps \/ ReceiveSeals \/ UNCHANGED <<src, tgt>>
  BY DEF Next, Command, Receive, StartNamed, StartPrune, Start, NameSnapshot, CreateFails, ListSource,
     ListTarget, ListFails, PipeFails, PipeEnds, InspectFails, InspectGarbled, InspectRejects,
     InspectAccepts, Plan, BackupsPruned, SnapshotsPruned, DeleteFails, ReceiveDies, Killed, vars, fsVars
<1> QED
  BY <1>1, <1>2, <1>3, <1>4, <1>5, <1>6, <1>7

LEMMA ChainInvariant == ~Orphans => (Spec => []ChainInv)
<1> SUFFICES ASSUME ~Orphans PROVE Spec => []ChainInv
  OBVIOUS
<1>1. ChainInv /\ [Next]_vars => ChainInv'
  BY NextChainInv
<1> QED
  BY <1>1, InitChainInv, PTL DEF Spec

(* The latest common pair is never deleted (prune_both, PruneService).  If *)
(* a receive never outlives its command, no step of any command unlinks    *)
(* source and target: whatever the policy drops, however many sources,     *)
(* snapshots and failures there are, and wherever a command is killed.     *)
THEOREM CommonPairIsKept == ~Orphans => (Spec => CommonPairKept)
<1> SUFFICES ASSUME ~Orphans PROVE Spec => CommonPairKept
  OBVIOUS
<1>1. ChainInv /\ [Next]_vars => [Linked => Linked']_vars
  BY StepKeepsLinked
<1> QED
  BY <1>1, ChainInvariant, PTL DEF Spec, CommonPairKept
=============================================================================
