-------------------------- MODULE CycleSafetyProofs --------------------------
(***************************************************************************)
(* The other safety properties of BackupCycle, for every value of its      *)
(* constants.  The first two need nothing of the processes a command       *)
(* spawns; the rest rest on ChainInv, and so on receives that end with     *)
(* their command.                                                          *)
(***************************************************************************)
EXTENDS BackupCycleProofs

-----------------------------------------------------------------------------
LEMMA NextNameIsFree == TypeInv /\ NameIsFree /\ [Next]_vars => NameIsFree'
<1> SUFFICES ASSUME TypeInv, NameIsFree, [Next]_vars PROVE NameIsFree'
  OBVIOUS
<1>1. CASE NameSnapshot
  <2>1. PICK t \in Times : leaf' = NextFreeLeaf(base, t, LeavesOf(src))
    BY <1>1 DEF NameSnapshot
  <2>2. src' = src /\ base \in Bases
    BY <1>1 DEF NameSnapshot, fsVars, TypeInv, Bounds
  <2>3. /\ LeavesOf(src) \subseteq Leaf /\ tick \in Nat /\ t \in Nat
        /\ \A l \in LeavesOf(src) : l.base = base => l.nn <= tick
    BY <2>2, CycleAssumption DEF TypeInv, TypeOK, FsTypeOK, Bounds, LeavesOf, Subvol
  <2>4. leaf' \notin LeavesOf(src)
    BY <2>1, <2>2, <2>3, NextFreeLeafIsFree
  <2> QED
    BY <2>2, <2>4 DEF NameIsFree, LeavesOf
<1>2. CASE pc' # "create"
  BY <1>2 DEF NameIsFree
<1>3. CASE pc = "create" /\ UNCHANGED <<src, leaf>>
  BY <1>3 DEF NameIsFree, LeavesOf
<1>4. NameSnapshot \/ pc' # "create" \/ (pc = "create" /\ UNCHANGED <<src, leaf>>)
  <2>1. CASE StartNamed \/ StartPrune
    BY <2>1 DEF StartNamed, StartPrune, Start
  <2>2. CASE CreateSnapshot \/ CreateFails \/ CreateUnseen \/ ListSource \/ ListTarget \/ ListFails
    BY <2>2 DEF CreateSnapshot, CreateFails, CreateUnseen, ListSource, ListTarget, ListFails, Finish
  <2>3. CASE BeginReceive \/ PipeFails \/ PipeEnds \/ InspectFails \/ InspectGarbled \/ Cleanup
             \/ InspectRejects \/ InspectAccepts
    BY <2>3 DEF BeginReceive, PipeFails, PipeEnds, InspectFails, InspectGarbled, Cleanup,
       InspectRejects, InspectAccepts, Finish
  <2>4. CASE Plan \/ DeleteBackup \/ BackupsPruned \/ DeleteSnapshot \/ SnapshotsPruned \/ DeleteFails
             \/ Killed
    BY <2>4 DEF Plan, DeleteBackup, BackupsPruned, DeleteSnapshot, SnapshotsPruned, DeleteFails,
       Killed, Finish
  <2>5. CASE Receive
    BY <2>5 DEF Receive, ReceiveStamps, ReceiveSeals, ReceiveDies, cmdVars
  <2>6. CASE UNCHANGED vars
    BY <2>6 DEF vars, fsVars, cmdVars
  <2> QED
    BY <2>1, <2>2, <2>3, <2>4, <2>5, <2>6 DEF Next, Command
<1> QED
  BY <1>1, <1>2, <1>3, <1>4

(* The name snapshot() picks is never in use when the snapshot is created, *)
(* however many snapshots share a timestamp and whichever of them a prune  *)
(* has taken away.                                                         *)
THEOREM NewNameIsFree == Spec => []NameIsFree
<1>1. Init => NameIsFree
  BY DEF Init, NameIsFree
<1>2. TypeInv /\ NameIsFree /\ [Next]_vars => NameIsFree'
  BY NextNameIsFree
<1> QED
  BY <1>1, <1>2, InitTypeInv, NextTypeInv, PTL DEF Spec

-----------------------------------------------------------------------------
(* What holds the snapshots back while the target is missing.              *)
HeldBack == pc \in {"pruneB", "pruneS"} /\ delS # {} => baks # {}

LEMMA PlanHoldsBack ==
  ASSUME Plan
  PROVE  delS' # {} => baks # {} /\ baks' = baks
<1>1. PICK dropS \in Schedules(snaps) : delS' = Enforce(dropS, SnapshotIdsToKeep, TargetAborted)
  BY DEF Plan
<1>2. dropS \subseteq snaps
  BY DEF Schedules, Named
<1>3. TargetAborted => delS' = {}
  BY <1>1 DEF Enforce
<1>4. delS' \subseteq dropS
  BY <1>1, EnforceSpares DEF TargetAborted
<1>5. delS' # {} => baks # {}
  BY <1>2, <1>3, <1>4 DEF TargetAborted
<1> QED
  BY <1>5 DEF Plan, sendVars

LEMMA NextHeldBack == HeldBack /\ [Next]_vars => HeldBack'
<1> SUFFICES ASSUME HeldBack, [Next]_vars PROVE HeldBack'
  OBVIOUS
<1>1. CASE Plan
  BY <1>1, PlanHoldsBack DEF HeldBack
<1>2. CASE pc' \notin {"pruneB", "pruneS"}
  BY <1>2 DEF HeldBack
<1>3. CASE pc \in {"pruneB", "pruneS"} /\ delS' \subseteq delS /\ baks' = baks
  BY <1>3 DEF HeldBack
<1>4. \/ Plan \/ pc' \notin {"pruneB", "pruneS"}
      \/ pc \in {"pruneB", "pruneS"} /\ delS' \subseteq delS /\ baks' = baks
  <2>1. CASE StartNamed \/ StartPrune \/ NameSnapshot
    BY <2>1 DEF StartNamed, StartPrune, Start, NameSnapshot
  <2>2. CASE CreateSnapshot \/ CreateFails \/ CreateUnseen \/ ListSource \/ ListTarget \/ ListFails
    BY <2>2 DEF CreateSnapshot, CreateFails, CreateUnseen, ListSource, ListTarget, ListFails, Finish
  <2>3. CASE BeginReceive \/ PipeFails \/ PipeEnds \/ InspectFails \/ InspectGarbled \/ Cleanup
             \/ InspectRejects \/ InspectAccepts
    BY <2>3 DEF BeginReceive, PipeFails, PipeEnds, InspectFails, InspectGarbled, Cleanup,
       InspectRejects, InspectAccepts, Finish
  <2>4. CASE DeleteBackup \/ BackupsPruned \/ DeleteSnapshot
    BY <2>4 DEF DeleteBackup, BackupsPruned, DeleteSnapshot, sendVars, planVars
  <2>5. CASE SnapshotsPruned \/ DeleteFails \/ Killed
    BY <2>5 DEF SnapshotsPruned, DeleteFails, Killed, Finish
  <2>6. CASE Receive
    BY <2>6 DEF Receive, ReceiveStamps, ReceiveSeals, ReceiveDies, sendVars, planVars
  <2>7. CASE UNCHANGED vars
    BY <2>7 DEF vars, sendVars, planVars
  <2> QED
    BY <2>1, <2>2, <2>3, <2>4, <2>5, <2>6, <2>7 DEF Next, Command
<1> QED
  BY <1>1, <1>2, <1>3, <1>4

(* A missing target costs no snapshot (target_aborted): only a command     *)
(* that saw a backup deletes a snapshot, whatever the policy.              *)
THEOREM MissingTargetCostsNothing == Spec => SnapshotsOutliveMissingTarget
<1>1. Init => HeldBack
  BY DEF Init, HeldBack
<1>2. HeldBack /\ [Next]_vars => [src' \subseteq src /\ src' # src => baks # {}]_vars
  <2> SUFFICES ASSUME HeldBack, Next, src' \subseteq src, src' # src PROVE baks # {}
    OBVIOUS
  <2>1. CASE DeleteSnapshot
    BY <2>1 DEF DeleteSnapshot, HeldBack
  <2>2. CASE CreateSnapshot \/ CreateUnseen
    BY <2>2 DEF CreateSnapshot, CreateUnseen
  <2>3. DeleteSnapshot \/ CreateSnapshot \/ CreateUnseen \/ src' = src
    BY DEF Next, Command, Receive, StartNamed, StartPrune, Start, NameSnapshot, CreateFails,
       ListSource, ListTarget, ListFails, BeginReceive, PipeFails, PipeEnds, InspectFails,
       InspectGarbled, Cleanup, InspectRejects, InspectAccepts, Plan, DeleteBackup, BackupsPruned,
       SnapshotsPruned, DeleteFails, ReceiveStamps, ReceiveSeals, ReceiveDies, Killed, fsVars
  <2> QED
    BY <2>1, <2>2, <2>3
<1> QED
  BY <1>1, <1>2, NextHeldBack, PTL DEF Spec, SnapshotsOutliveMissingTarget

-----------------------------------------------------------------------------
(* The clean-up after a failed transfer takes nothing but what an          *)
(* interrupted receive left (is_garbled), even when the transfer failed    *)
(* because the name was already in use.                                    *)
THEOREM CleanupSparesReceived == ~Orphans => (Spec => CleanupTakesOnlyGarbled)
<1> SUFFICES ASSUME ~Orphans PROVE Spec => CleanupTakesOnlyGarbled
  OBVIOUS
<1>1. ChainInv /\ [Next]_vars => [pc = "cleanup" => \A t \in tgt \ tgt' : ~t.ro /\ t.recv = NoUuid]_vars
  <2> SUFFICES ASSUME ChainInv, Next, pc = "cleanup", NEW t \in tgt \ tgt'
               PROVE  ~t.ro /\ t.recv = NoUuid
    OBVIOUS
  <2>1. CASE Cleanup
    BY <2>1 DEF Cleanup, ChainInv, CleanupIsGarbled, Garbled
  <2>2. rx = {}
    BY NoReceive
  <2>3. Cleanup \/ tgt' = tgt
    BY <2>2 DEF Next, Command, Receive, StartNamed, StartPrune, Start, NameSnapshot, CreateSnapshot,
       CreateFails, CreateUnseen, ListSource, ListTarget, ListFails, BeginReceive, PipeFails, PipeEnds,
       InspectFails, InspectGarbled, InspectRejects, InspectAccepts, Plan, DeleteBackup, BackupsPruned,
       DeleteSnapshot, SnapshotsPruned, DeleteFails, ReceiveStamps, ReceiveSeals, ReceiveDies, Killed,
       fsVars
  <2> QED
    BY <2>1, <2>3
<1> QED
  BY <1>1, ChainInvariant, PTL DEF Spec, CleanupTakesOnlyGarbled

-----------------------------------------------------------------------------
(* What run and resume report.  The backup is accepted long before the     *)
(* report, by its name.  The invariant says why that is enough: after a    *)
(* transfer, the only subvolume under that name is the one the command's   *)
(* own receive wrote, and the anchors keep it, and run's snapshot, out of  *)
(* the prune.                                                              *)

OwnResult ==
  /\ pc \notin {"plan", "pruneB", "pruneS"} => own = {}
  /\ pc = "pipe" \/ (pc = "inspect" /\ pipe.ok) => pipe.sub # 0
  /\ pc \in {"pipe", "inspect"} /\ pipe.sub # 0 =>
       \A t \in tgt : t.leaf = mine.leaf => t.id = pipe.sub /\ t.recv \in {NoUuid, mine.id}

(* The backup the command made is there, and the prune leaves it and, for  *)
(* run, the snapshot it is a copy of.                                      *)
MadeBackup ==
  \E t \in tgt : /\ t.id \in own /\ t.recv = mine.id /\ VerifyReceived(t, FullSend)
                 /\ pc # "plan" => \A d \in delB : d.leaf # t.leaf

MadeSnapshot ==
  /\ mine \in src
  /\ pc # "plan" => \A d \in delS : d.leaf # mine.leaf

Made ==
  pc \in {"plan", "pruneB", "pruneS"} /\ own # {} =>
    /\ MadeBackup
    /\ cmd = "run" => MadeSnapshot

ReportInv == ChainInv /\ OwnResult /\ Made

-----------------------------------------------------------------------------
LEMMA InitReportInv == Init => ReportInv
<1>1. Init => OwnResult /\ Made
  BY DEF Init, OwnResult, Made
<1> QED
  BY <1>1, InitChainInv DEF ReportInv

(* Outside a transfer, its inspection and the prune there is nothing to    *)
(* keep.                                                                   *)
LEMMA NothingMade ==
  ASSUME own' = {}, pc' \notin {"pipe", "inspect"}
  PROVE  OwnResult' /\ Made'
BY DEF OwnResult, Made

LEMMA BeginReceiveOwnResult ==
  ASSUME ReportInv, BeginReceive
  PROVE  OwnResult' /\ Made'
<1>1. tick \in Nat
  BY DEF ReportInv, ChainInv, TypeInv, TypeOK, FsTypeOK
<1>2. /\ pc = "send" /\ pc' = "pipe" /\ own' = own /\ mine' = mine
      /\ pipe' = [sub |-> tick + 1, ok |-> FALSE]
      /\ \A t \in tgt : t.leaf # mine.leaf
  BY DEF BeginReceive, LeavesOf
<1>3. PICK p : tgt' = tgt \cup {[id |-> tick + 1, parent |-> p, recv |-> NoUuid, ro |-> FALSE,
                                 leaf |-> mine.leaf]}
  BY DEF BeginReceive
<1>4. own' = {} /\ pipe'.sub = tick + 1 /\ pipe'.sub # 0
  BY <1>1, <1>2 DEF ReportInv, OwnResult
<1>5. \A t \in tgt' : t.leaf = mine'.leaf => t.id = pipe'.sub /\ t.recv \in {NoUuid, mine'.id}
  BY <1>2, <1>3, <1>4
<1> QED
  BY <1>2, <1>4, <1>5 DEF OwnResult, Made

LEMMA ReceiveOwnResult ==
  ASSUME ReportInv, ReceiveStamps \/ ReceiveSeals
  PROVE  OwnResult' /\ Made'
<1>1. pc = "pipe" /\ pc' = "pipe" /\ UNCHANGED <<mine, pipe, own>>
  BY ReceiveStep DEF sendVars, ReportInv
<1>2. PICK t \in tgt, u \in Subvol : /\ t.id = pipe.sub
                                     /\ u.id = t.id /\ u.leaf = t.leaf /\ u.recv = mine.id
                                     /\ tgt' = (tgt \ {t}) \cup {u}
  BY ReceiveStep DEF ReportInv
<1> QED
  BY <1>1, <1>2 DEF ReportInv, OwnResult, Made

LEMMA AcceptsMade ==
  ASSUME ReportInv, InspectAccepts
  PROVE  OwnResult' /\ Made'
<1>1. PICK t \in tgt : t.leaf = mine.leaf /\ VerifyReceived(t, FullSend) /\ own' = {t.id}
  BY DEF InspectAccepts, Received
<1>2. /\ pc = "inspect" /\ pipe.ok /\ pc' = "plan"
      /\ UNCHANGED <<src, tgt, cmd, mine, sel>>
  BY DEF InspectAccepts, fsVars, cmdVars
<1>3. t.recv = mine.id
  BY <1>1, <1>2 DEF ReportInv, OwnResult, VerifyReceived
<1>4. mine \in src
  BY <1>2, NoSubIsNone DEF ReportInv, ChainInv, TypeInv, TypeOK, ListingsHold, Listed
<1>5. MadeBackup' /\ MadeSnapshot'
  BY <1>1, <1>2, <1>3, <1>4 DEF MadeBackup, MadeSnapshot, FullSend
<1> QED
  BY <1>2, <1>5 DEF OwnResult, Made

(* The anchors keep both out of the plan.                                  *)
LEMMA PlanSparesMade ==
  ASSUME ReportInv, Plan
  PROVE  OwnResult' /\ Made'
<1>1. /\ pc = "plan" /\ pc' = "pruneB" /\ UNCHANGED <<src, tgt, cmd, mine, sel, own>>
  BY DEF Plan, fsVars, cmdVars, sendVars
<1>2. PICK dropB \in Schedules(baks), dropS \in Schedules(snaps) :
         /\ delB' = Enforce(dropB, BackupIdsToKeep, FALSE)
         /\ delS' = Enforce(dropS, SnapshotIdsToKeep, TargetAborted)
  BY DEF Plan
<1>3. dropB \subseteq tgt /\ dropS \subseteq src
  BY <1>1, <1>2 DEF ReportInv, ChainInv, ListingsHold, Listed, Schedules, Named
<1>4. /\ delB' \subseteq tgt /\ \A d \in delB' : d.id \notin BackupIdsToKeep
      /\ delS' \subseteq src /\ \A d \in delS' : d.id \notin SnapshotIdsToKeep
  BY <1>2, <1>3, EnforceSpares DEF TargetAborted
<1>5. CASE own = {}
  BY <1>1, <1>5 DEF OwnResult, Made
<1>6. CASE own # {}
  <2>1. PICK t \in tgt : t.id \in own /\ t.recv = mine.id /\ VerifyReceived(t, FullSend)
    BY <1>1, <1>6 DEF ReportInv, Made, MadeBackup
  <2>2. \A d \in delB' : d.leaf # t.leaf
    BY <1>4, <2>1 DEF BackupIdsToKeep, ReportInv, ChainInv, LeavesUnique
  <2>3. MadeBackup'
    BY <1>1, <2>1, <2>2 DEF MadeBackup, FullSend
  <2>4. ASSUME cmd = "run" PROVE MadeSnapshot'
    <3>1. mine \in src
      BY <1>1, <1>6, <2>4 DEF ReportInv, Made, MadeSnapshot
    <3>2. \A d \in delS' : d.leaf # mine.leaf
      BY <1>4, <2>4, <3>1 DEF SnapshotIdsToKeep, JustCreated, ReportInv, ChainInv, LeavesUnique
    <3> QED
      BY <1>1, <3>1, <3>2 DEF MadeSnapshot
  <2> QED
    BY <1>1, <2>3, <2>4 DEF OwnResult, Made
<1> QED
  BY <1>5, <1>6

(* A delete by path removes what bears the name, and nothing that was made *)
(* bears it.                                                               *)
LEMMA DeleteSparesMade ==
  ASSUME ReportInv, DeleteBackup \/ DeleteSnapshot
  PROVE  OwnResult' /\ Made'
<1>1. CASE DeleteBackup
  <2>1. PICK b \in delB : tgt' = {t \in tgt : t.leaf # b.leaf} /\ delB' = delB \ {b}
    BY <1>1 DEF DeleteBackup
  <2>2. pc = "pruneB" /\ pc' = "pruneB" /\ UNCHANGED <<src, cmd, mine, sel, own, delS>>
    BY <1>1 DEF DeleteBackup, cmdVars, sendVars
  <2> QED
    BY <2>1, <2>2 DEF ReportInv, OwnResult, Made, MadeBackup, MadeSnapshot, FullSend
<1>2. CASE DeleteSnapshot
  <2>1. PICK d \in delS : src' = {s \in src : s.leaf # d.leaf} /\ delS' = delS \ {d}
    BY <1>2 DEF DeleteSnapshot
  <2>2. pc = "pruneS" /\ pc' = "pruneS" /\ UNCHANGED <<tgt, cmd, mine, sel, own, delB>>
    BY <1>2 DEF DeleteSnapshot, cmdVars, sendVars
  <2> QED
    BY <2>1, <2>2 DEF ReportInv, OwnResult, Made, MadeBackup, MadeSnapshot, FullSend
<1> QED
  BY <1>1, <1>2

LEMMA NextReportInv == ~Orphans /\ ReportInv /\ [Next]_vars => ReportInv'
<1> SUFFICES ASSUME ~Orphans, ReportInv, [Next]_vars PROVE OwnResult' /\ Made'
  BY NextChainInv DEF ReportInv
<1> USE DEF ReportInv
<1>1. CASE StartNamed \/ StartPrune \/ NameSnapshot
  <2>1. own' = own /\ pc \in {"idle", "name"} /\ pc' \notin {"pipe", "inspect"}
    BY <1>1 DEF StartNamed, StartPrune, Start, NameSnapshot, sendVars
  <2> QED
    BY <2>1, NothingMade DEF OwnResult
<1>2. CASE CreateSnapshot \/ ListSource \/ ListTarget
  <2>1. (own' = own \/ own' = {}) /\ pc \in {"create", "listSource", "listTarget"}
        /\ pc' \notin {"pipe", "inspect"}
    BY <1>2 DEF CreateSnapshot, ListSource, ListTarget, Finish
  <2> QED
    BY <2>1, NothingMade DEF OwnResult
<1>3. CASE CreateFails \/ CreateUnseen \/ ListFails \/ InspectFails \/ InspectRejects \/ Cleanup
           \/ SnapshotsPruned \/ DeleteFails \/ Killed
  <2>1. own' = {} /\ pc' = "idle"
    BY <1>3 DEF CreateFails, CreateUnseen, ListFails, InspectFails, InspectRejects, Cleanup,
       SnapshotsPruned, DeleteFails, Killed, Finish
  <2> QED
    BY <2>1, NothingMade
<1>4. CASE BeginReceive
  BY <1>4, BeginReceiveOwnResult
<1>5. CASE PipeFails
  <2>1. /\ pc = "send" /\ pc' = "inspect" /\ own' = own
        /\ pipe'.sub = 0 /\ ~pipe'.ok
    BY <1>5 DEF PipeFails, NoPipe
  <2> QED
    BY <2>1 DEF OwnResult, Made
<1>6. CASE PipeEnds
  <2>1. /\ pc = "pipe" /\ pc' = "inspect" /\ UNCHANGED <<tgt, mine, own>>
    BY <1>6 DEF PipeEnds, fsVars
  <2>2. pipe'.sub = pipe.sub
    BY <1>6 DEF PipeEnds, ChainInv, TypeInv, TypeOK, CommandTypeOK
  <2> QED
    BY <2>1, <2>2 DEF OwnResult, Made
<1>7. CASE InspectGarbled
  <2>1. pc = "inspect" /\ pc' = "cleanup" /\ own' = own
    BY <1>7 DEF InspectGarbled, sendVars
  <2> QED
    BY <2>1, NothingMade DEF OwnResult
<1>8. CASE InspectAccepts
  BY <1>8, AcceptsMade
<1>9. CASE Plan
  BY <1>9, PlanSparesMade
<1>10. CASE DeleteBackup \/ DeleteSnapshot
  BY <1>10, DeleteSparesMade
<1>11. CASE BackupsPruned
  <2>1. pc = "pruneB" /\ pc' = "pruneS" /\ UNCHANGED <<src, tgt, cmd, mine, sel, own, delB, delS>>
    BY <1>11 DEF BackupsPruned, fsVars, cmdVars, sendVars, planVars
  <2> QED
    BY <2>1 DEF OwnResult, Made, MadeBackup, MadeSnapshot, FullSend
<1>12. CASE ReceiveStamps \/ ReceiveSeals
  BY <1>12, ReceiveOwnResult
<1>13. CASE ReceiveDies \/ UNCHANGED vars
  <2>1. UNCHANGED <<src, tgt, cmd, pc, mine, sel, pipe, own, delB, delS>>
    BY <1>13 DEF ReceiveDies, vars, fsVars, cmdVars, sendVars, planVars
  <2> QED
    BY <2>1 DEF OwnResult, Made, MadeBackup, MadeSnapshot, FullSend
<1> QED
  BY <1>1, <1>2, <1>3, <1>4, <1>5, <1>6, <1>7, <1>8, <1>9, <1>10, <1>11, <1>12, <1>13
     DEF Next, Command, Receive

(* When run or resume reports success, its own backup is on the target at  *)
(* that moment, sealed, stamped and of the right kind, and run's snapshot  *)
(* is on the source: neither was mistaken for another of the same name,    *)
(* nor taken by the command's own prune.                                   *)
THEOREM ReportsAreTrue == ~Orphans => (Spec => ReportIsTrue)
<1> DEFINE Kept == /\ \E t \in tgt' : t.id \in own /\ t.recv = mine.id /\ VerifyReceived(t, FullSend)
                   /\ cmd = "run" => mine \in src'
<1> SUFFICES ASSUME ~Orphans PROVE Spec => ReportIsTrue
  OBVIOUS
<1>1. ReportInv /\ [Next]_vars => ReportInv'
  BY NextReportInv
<1>2. ReportInv /\ [Next]_vars =>
        [pc = "pruneS" /\ res' = "ok" /\ pc' = "idle" /\ own # {} => Kept]_vars
  <2> SUFFICES ASSUME ReportInv, Next, pc = "pruneS", pc' = "idle", own # {} PROVE Kept
    OBVIOUS
  <2>1. UNCHANGED <<src, tgt>>
    BY NoReceive DEF ReportInv, Next, Command, Receive, StartNamed, StartPrune, Start, NameSnapshot,
       CreateSnapshot, CreateFails, CreateUnseen, ListSource, ListTarget, ListFails, BeginReceive,
       PipeFails, PipeEnds, InspectFails, InspectGarbled, Cleanup, InspectRejects, InspectAccepts, Plan,
       DeleteBackup, BackupsPruned, DeleteSnapshot, SnapshotsPruned, DeleteFails, ReceiveStamps,
       ReceiveSeals, ReceiveDies, Killed, fsVars
  <2> QED
    BY <2>1 DEF ReportInv, Made, MadeBackup, MadeSnapshot
<1> QED
  BY <1>1, <1>2, InitReportInv, PTL DEF Spec, ReportIsTrue

-----------------------------------------------------------------------------
(* BackupCycle implements Archive, and what a send may rely on.            *)
(*                                                                         *)
(* The refinement has one hard step: when a receive seals its subvolume,   *)
(* what it copied must be on the source and must have no copy yet.  Both   *)
(* were decided from the listings, so the invariant says that a snapshot   *)
(* about to be sent, or being received, has no complete copy; for run's    *)
(* own snapshot because its uuid is newer than every stamp on the target.  *)

(* What is in the snapshot directory was made there, not received.         *)
SourceClean == \A s \in src : s.ro /\ s.recv = NoUuid /\ s.id # NoUuid

(* A stamp is the uuid of something that exists or existed.                *)
StampsIssued == \A t \in tgt : t.recv <= tick

SentOnce ==
  /\ pc \in {"listSource", "listTarget"} /\ cmd = "run" => \A t \in tgt : t.recv # mine.id
  /\ pc = "send" \/ rx # {} => \A t \in tgt : t.ro => t.recv # mine.id

ArchiveInv ==
  /\ ChainInv
  /\ SourceClean
  /\ StampsIssued
  /\ SentOnce
  /\ ParentOnBothSides

-----------------------------------------------------------------------------
(* On a clean source, correlated means: sealed and stamped with its uuid.  *)
LEMMA CorrelatedIsStamped ==
  ASSUME NEW s, s.ro, s.recv = NoUuid, s.id # NoUuid, NEW t
  PROVE  Correlated(s, t) <=> t.ro /\ t.recv = s.id
BY DEF Correlated, Same

LEMMA InitArchiveInv == Init => ArchiveInv
<1> SUFFICES ASSUME Init PROVE ArchiveInv
  OBVIOUS
<1>1. SourceClean
  BY CycleAssumption DEF Init, SourceClean, NoUuid
<1>2. StampsIssued /\ SentOnce /\ ParentOnBothSides
  BY DEF Init, StampsIssued, SentOnce, ParentOnBothSides
<1> QED
  BY <1>1, <1>2, InitChainInv DEF ArchiveInv

(* What a step adds to the source is new and was not received.             *)
LEMMA NextSourceClean == TypeInv /\ SourceClean /\ [Next]_vars => SourceClean'
<1> SUFFICES ASSUME TypeInv, SourceClean, [Next]_vars PROVE SourceClean'
  OBVIOUS
<1>1. CASE src' \subseteq src
  BY <1>1 DEF SourceClean
<1>2. CASE src' = src \cup {NewSnapshot}
  <2>1. NewSnapshot.ro /\ NewSnapshot.recv = NoUuid /\ NewSnapshot.id = tick + 1 /\ tick \in Nat
    BY DEF NewSnapshot, TypeInv, TypeOK, FsTypeOK
  <2>2. NewSnapshot.id # NoUuid
    BY <2>1 DEF NoUuid
  <2> QED
    BY <1>2, <2>1, <2>2 DEF SourceClean
<1>3. src' \subseteq src \/ src' = src \cup {NewSnapshot}
  BY DEF Next, Command, Receive, StartNamed, StartPrune, Start, NameSnapshot, CreateSnapshot,
     CreateFails, CreateUnseen, ListSource, ListTarget, ListFails, BeginReceive, PipeFails, PipeEnds,
     InspectFails, InspectGarbled, Cleanup, InspectRejects, InspectAccepts, Plan, DeleteBackup,
     BackupsPruned, DeleteSnapshot, SnapshotsPruned, DeleteFails, ReceiveStamps, ReceiveSeals,
     ReceiveDies, Killed, vars, fsVars
<1> QED
  BY <1>1, <1>2, <1>3

(* How a step changes the target: it drops some, it adds the writable      *)
(* subvolume of a receive that starts, or a receive works on its own.      *)
LEMMA TargetSteps ==
  ASSUME ~Orphans, ChainInv, [Next]_vars
  PROVE  \/ tgt' \subseteq tgt /\ rx' \subseteq rx /\ tick' \in {tick, tick + 1}
         \/ BeginReceive
         \/ ReceiveStamps \/ ReceiveSeals
<1>1. CASE Killed
  BY <1>1 DEF Killed
<1>2. CASE Cleanup \/ DeleteBackup
  BY <1>2, NoReceive DEF Cleanup, DeleteBackup
<1>3. \/ Killed \/ Cleanup \/ DeleteBackup \/ BeginReceive \/ ReceiveStamps \/ ReceiveSeals
      \/ tgt' = tgt /\ rx' \subseteq rx /\ tick' \in {tick, tick + 1}
  BY DEF Next, Command, Receive, StartNamed, StartPrune, Start, NameSnapshot, CreateSnapshot,
     CreateFails, CreateUnseen, ListSource, ListTarget, ListFails, PipeFails, PipeEnds,
     InspectFails, InspectGarbled, InspectRejects, InspectAccepts, Plan, BackupsPruned,
     DeleteSnapshot, SnapshotsPruned, DeleteFails, ReceiveDies, vars, fsVars
<1> QED
  BY <1>1, <1>2, <1>3

LEMMA NextStampsIssued ==
  ASSUME ~Orphans, ChainInv, StampsIssued, [Next]_vars
  PROVE  StampsIssued'
<1>1. tick \in Nat /\ \A t \in tgt : t.recv \in Nat
  BY DEF ChainInv, TypeInv, TypeOK, FsTypeOK, Subvol
<1>2. CASE tgt' \subseteq tgt /\ tick' \in {tick, tick + 1}
  BY <1>1, <1>2 DEF StampsIssued
<1>3. CASE BeginReceive
  <2>1. PICK p : tgt' = tgt \cup {[id |-> tick + 1, parent |-> p, recv |-> NoUuid, ro |-> FALSE,
                                   leaf |-> mine.leaf]}
    BY <1>3 DEF BeginReceive
  <2>2. tick' = tick + 1
    BY <1>3 DEF BeginReceive
  <2> QED
    BY <1>1, <2>1, <2>2 DEF StampsIssued, NoUuid
<1>4. CASE ReceiveStamps \/ ReceiveSeals
  <2>1. PICK t \in tgt, u \in Subvol : u.recv = mine.id /\ tgt' = (tgt \ {t}) \cup {u}
    BY <1>4, ReceiveStep
  <2>2. pc = "pipe" /\ tick' = tick
    BY <1>4, ReceiveStep
  <2>3. mine.id <= tick
    BY <2>2, NoSubIsNone DEF ChainInv, TypeInv, TypeOK, Bounds
  <2> QED
    BY <2>1, <2>2, <2>3 DEF StampsIssued
<1> QED
  BY <1>2, <1>3, <1>4, TargetSteps

-----------------------------------------------------------------------------
(* What ListTarget finds to send is a snapshot with no complete copy, and  *)
(* its parent and clone sources are snapshots that have one.               *)
LEMMA ListTargetSends ==
  ASSUME ArchiveInv, ListTarget, pc' = "send"
  PROVE  /\ UNCHANGED <<src, tgt, rx>> /\ rx = {}
         /\ mine' \in src
         /\ \A t \in tgt : t.ro => t.recv # mine'.id
         /\ sel'.parent # NoSub => sel'.parent \in src /\ TargetCorrelates(sel'.parent, tgt) # {}
         /\ sel'.clones \subseteq src
         /\ \A c \in sel'.clones : TargetCorrelates(c, tgt) # {}
<1> DEFINE s == ToSend(tgt)
<1>1. /\ pc = "listTarget" /\ UNCHANGED <<src, tgt, rx>>
      /\ s # NoSub /\ mine' = s /\ sel' = BestParent(s, snaps, tgt, mode)
  BY DEF ListTarget, Finish, fsVars
<1>2. rx = {} /\ snaps = src /\ (mine # NoSub => mine \in src)
  BY <1>1, NoReceive DEF ArchiveInv, ChainInv, ListingsHold, Listed
<1>3. src \subseteq Subvol /\ tick \in Nat /\ \A x \in src : x.id <= tick
  BY DEF ArchiveInv, ChainInv, TypeInv, TypeOK, FsTypeOK, Bounds
<1>4. s \in src /\ \A t \in tgt : t.ro => t.recv # s.id
  <2>1. CASE cmd = "run"
    BY <1>1, <1>2, <2>1 DEF ToSend, ArchiveInv, SentOnce
  <2>2. CASE cmd = "resume"
    <3>1. s = Due(src, tgt, base)
      BY <1>2, <2>2 DEF ToSend
    <3>2. s \in src /\ TargetCorrelates(s, tgt) = {}
      BY <1>1, <1>3, <3>1, DueIsOwed
    <3>3. \A t \in tgt : Correlated(s, t) <=> t.ro /\ t.recv = s.id
      BY <3>2, CorrelatedIsStamped DEF ArchiveInv, SourceClean
    <3> QED
      BY <3>2, <3>3 DEF TargetCorrelates
  <2> QED
    BY <1>1, <2>1, <2>2 DEF ToSend
<1>5. /\ sel'.parent \in Candidates(s, src, tgt, mode) \cup {NoSub}
      /\ sel'.clones \subseteq Candidates(s, src, tgt, mode)
      /\ Candidates(s, src, tgt, mode) \subseteq src
      /\ \A x \in Candidates(s, src, tgt, mode) : TargetCorrelates(x, tgt) # {}
  BY <1>1, <1>2, <1>3, BestParentIsCandidate
<1> QED
  BY <1>1, <1>2, <1>4, <1>5

(* While a command is about to send, nothing else moves.                   *)
LEMMA SendWaits ==
  ASSUME ~Orphans, ChainInv, [Next]_vars, pc' = "send"
  PROVE  ListTarget \/ (pc = "send" /\ UNCHANGED <<src, tgt, rx, mine, sel>>)
<1>1. CASE Receive
  BY <1>1, NoReceive DEF Receive, ReceiveStamps, ReceiveSeals, ReceiveDies
<1>2. ListTarget \/ Receive \/ UNCHANGED vars
  <2>1. CASE StartNamed \/ StartPrune \/ NameSnapshot
    BY <2>1 DEF StartNamed, StartPrune, Start, NameSnapshot
  <2>2. CASE CreateSnapshot \/ CreateFails \/ CreateUnseen \/ ListSource \/ ListFails
    BY <2>2 DEF CreateSnapshot, CreateFails, CreateUnseen, ListSource, ListFails, Finish
  <2>3. CASE BeginReceive \/ PipeFails \/ PipeEnds \/ InspectFails \/ InspectGarbled \/ Cleanup
             \/ InspectRejects \/ InspectAccepts
    BY <2>3 DEF BeginReceive, PipeFails, PipeEnds, InspectFails, InspectGarbled, Cleanup,
       InspectRejects, InspectAccepts, Finish
  <2>4. CASE Plan \/ DeleteBackup \/ BackupsPruned \/ DeleteSnapshot \/ SnapshotsPruned \/ DeleteFails
             \/ Killed
    BY <2>4 DEF Plan, DeleteBackup, BackupsPruned, DeleteSnapshot, SnapshotsPruned, DeleteFails,
       Killed, Finish
  <2> QED
    BY <2>1, <2>2, <2>3, <2>4 DEF Next, Command
<1> QED
  BY <1>1, <1>2 DEF vars, fsVars, sendVars

LEMMA NextParentOnBothSides ==
  ASSUME ~Orphans, ArchiveInv, [Next]_vars
  PROVE  ParentOnBothSides'
<1> SUFFICES ASSUME pc' = "send" PROVE ParentOnBothSides'
  BY DEF ParentOnBothSides
<1>1. CASE ListTarget
  <2>1. Sendable' /\ \A c \in sel'.clones : TargetCorrelates(c, tgt') # {}
    BY <1>1, ListTargetSends DEF Sendable
  <2> QED
    BY <2>1 DEF ParentOnBothSides
<1>2. CASE pc = "send" /\ UNCHANGED <<src, tgt, rx, mine, sel>>
  BY <1>2 DEF ArchiveInv, ParentOnBothSides, Sendable
<1> QED
  BY <1>1, <1>2, SendWaits DEF ArchiveInv

(* While something is being received, only that receive moves.             *)
LEMMA ReceiveAlone ==
  ASSUME ~Orphans, ChainInv, [Next]_vars, rx' # {}
  PROVE  \/ BeginReceive \/ ReceiveStamps \/ ReceiveSeals
         \/ rx # {} /\ UNCHANGED <<src, tgt, mine>>
<1>1. rx # {} => pc = "pipe"
  BY NoReceive
<1>2. CASE Killed
  BY <1>1, <1>2 DEF Killed, ChainInv, OwnReceive
<1>3. CASE rx # {} /\ (ReceiveDies \/ UNCHANGED vars)
  BY <1>3 DEF ReceiveDies, vars, fsVars, sendVars
<1>4. \/ Killed \/ PipeEnds \/ BeginReceive \/ Receive \/ UNCHANGED vars
      \/ (pc # "pipe" /\ rx' = rx)
  BY DEF Next, Command, StartNamed, StartPrune, Start, NameSnapshot, CreateSnapshot,
     CreateFails, CreateUnseen, ListSource, ListTarget, ListFails, PipeFails,
     InspectFails, InspectGarbled, Cleanup, InspectRejects, InspectAccepts, Plan, DeleteBackup,
     BackupsPruned, DeleteSnapshot, SnapshotsPruned, DeleteFails, fsVars
<1>5. CASE ReceiveDies
  BY <1>3, <1>5 DEF ReceiveDies
<1>6. CASE UNCHANGED vars
  BY <1>3, <1>6 DEF vars, fsVars
<1>7. CASE PipeEnds
  <2>1. rx = {}
    BY <1>7 DEF PipeEnds, Receiving, ChainInv, OwnReceive
  <2> QED
    BY <1>7, <2>1 DEF PipeEnds, fsVars
<1> QED
  BY <1>1, <1>2, <1>4, <1>5, <1>6, <1>7 DEF Receive

(* The steps after which run's new snapshot is still to be sent.           *)
LEMMA RunLists ==
  ASSUME ~Orphans, ChainInv, [Next]_vars, pc' \in {"listSource", "listTarget"}, cmd' = "run"
  PROVE  \/ CreateSnapshot
         \/ pc \in {"listSource", "listTarget"} /\ UNCHANGED <<tgt, cmd, mine>>
<1>1. CASE StartNamed \/ StartPrune \/ NameSnapshot
  BY <1>1 DEF StartNamed, StartPrune, Start, NameSnapshot
<1>2. CASE CreateFails \/ CreateUnseen \/ ListSource \/ ListTarget \/ ListFails
  BY <1>2 DEF CreateFails, CreateUnseen, ListSource, ListTarget, ListFails, Finish, fsVars, cmdVars
<1>3. CASE BeginReceive \/ PipeFails \/ PipeEnds \/ InspectFails \/ InspectGarbled \/ Cleanup
           \/ InspectRejects \/ InspectAccepts
  BY <1>3 DEF BeginReceive, PipeFails, PipeEnds, InspectFails, InspectGarbled, Cleanup,
     InspectRejects, InspectAccepts, Finish
<1>4. CASE Plan \/ DeleteBackup \/ BackupsPruned \/ DeleteSnapshot \/ SnapshotsPruned \/ DeleteFails
           \/ Killed
  BY <1>4 DEF Plan, DeleteBackup, BackupsPruned, DeleteSnapshot, SnapshotsPruned, DeleteFails,
     Killed, Finish
<1>5. CASE Receive
  BY <1>5, NoReceive DEF Receive, ReceiveStamps, ReceiveSeals, ReceiveDies
<1>6. CASE UNCHANGED vars
  BY <1>6 DEF vars, fsVars, cmdVars, sendVars
<1> QED
  BY <1>1, <1>2, <1>3, <1>4, <1>5, <1>6 DEF Next, Command

LEMMA NextSentOnce ==
  ASSUME ~Orphans, ArchiveInv, [Next]_vars
  PROVE  SentOnce'
<1> USE DEF ArchiveInv
<1>1. ASSUME pc' \in {"listSource", "listTarget"}, cmd' = "run"
      PROVE  \A t \in tgt' : t.recv # mine'.id
  <2>1. CASE CreateSnapshot
    <3>1. mine' = NewSnapshot /\ tgt' = tgt
      BY <1>1, <2>1 DEF CreateSnapshot, Finish
    <3>2. \A t \in tgt : t.recv \in Nat /\ t.recv <= tick /\ tick \in Nat
      BY DEF ChainInv, TypeInv, TypeOK, FsTypeOK, Subvol, StampsIssued
    <3> QED
      BY <3>1, <3>2 DEF NewSnapshot
  <2>2. CASE pc \in {"listSource", "listTarget"} /\ UNCHANGED <<tgt, cmd, mine>>
    BY <1>1, <2>2 DEF SentOnce
  <2> QED
    BY <1>1, <2>1, <2>2, RunLists
<1>2. ASSUME pc' = "send"
      PROVE  \A t \in tgt' : t.ro => t.recv # mine'.id
  BY <1>2, SendWaits, ListTargetSends DEF SentOnce
<1>3. ASSUME rx' # {}
      PROVE  \A t \in tgt' : t.ro => t.recv # mine'.id
  <2>1. CASE BeginReceive
    <3>1. PICK new : ~new.ro /\ tgt' = tgt \cup {new}
      BY <2>1 DEF BeginReceive
    <3> QED
      BY <2>1, <3>1 DEF BeginReceive, SentOnce
  <2>2. CASE ReceiveStamps \/ ReceiveSeals
    <3>1. PICK t \in tgt, u \in Subvol : (u.ro => rx' = {}) /\ tgt' = (tgt \ {t}) \cup {u}
      BY <2>2, ReceiveStep
    <3>2. mine' = mine /\ rx # {}
      BY <1>3, <2>2, ReceiveStep DEF sendVars
    <3> QED
      BY <1>3, <3>1, <3>2 DEF SentOnce
  <2>3. CASE rx # {} /\ UNCHANGED <<src, tgt, mine>>
    BY <2>3 DEF SentOnce
  <2> QED
    BY <1>3, <2>1, <2>2, <2>3, ReceiveAlone
<1> QED
  BY <1>1, <1>2, <1>3 DEF SentOnce

LEMMA NextArchiveInv == ~Orphans /\ ArchiveInv /\ [Next]_vars => ArchiveInv'
<1> SUFFICES ASSUME ~Orphans, ArchiveInv, [Next]_vars PROVE ArchiveInv'
  OBVIOUS
<1>1. ChainInv'
  BY NextChainInv DEF ArchiveInv
<1>2. SourceClean'
  BY NextSourceClean DEF ArchiveInv, ChainInv
<1>3. StampsIssued'
  BY NextStampsIssued DEF ArchiveInv
<1> QED
  BY <1>1, <1>2, <1>3, NextSentOnce, NextParentOnBothSides DEF ArchiveInv

LEMMA ArchiveInvariant == ~Orphans => (Spec => []ArchiveInv)
<1> SUFFICES ASSUME ~Orphans PROVE Spec => []ArchiveInv
  OBVIOUS
<1>1. ArchiveInv /\ [Next]_vars => ArchiveInv'
  BY NextArchiveInv
<1> QED
  BY <1>1, InitArchiveInv, PTL DEF Spec

(* What choose_parent chose from the listings still holds when the send    *)
(* starts: the parent and the clone sources are on the source, each with a *)
(* read-only copy on the target, whatever ran and failed before.           *)
THEOREM ParentIsThere == ~Orphans => (Spec => []ParentOnBothSides)
<1>1. ArchiveInv => ParentOnBothSides
  BY DEF ArchiveInv
<1> QED
  BY <1>1, ArchiveInvariant, PTL

(* run and resume never send what already has a complete copy on the       *)
(* target, whatever failed or was killed before.                           *)
THEOREM NothingIsSentTwice == ~Orphans => (Spec => []NeverSentTwice)
<1>1. ArchiveInv => NeverSentTwice
  <2> SUFFICES ASSUME ArchiveInv, pc = "send"
               PROVE  TargetCorrelates(mine, tgt) = {} /\ rx = {}
    BY DEF NeverSentTwice
  <2>1. rx = {}
    BY NoReceive DEF ArchiveInv
  <2>2. mine \in src
    BY DEF ArchiveInv, ParentOnBothSides, Sendable
  <2>3. \A t \in tgt : Correlated(mine, t) <=> t.ro /\ t.recv = mine.id
    BY <2>2, CorrelatedIsStamped DEF ArchiveInv, SourceClean
  <2> QED
    BY <2>1, <2>3 DEF ArchiveInv, SentOnce, TargetCorrelates
<1> QED
  BY <1>1, ArchiveInvariant, PTL

-----------------------------------------------------------------------------
(* The refinement.                                                         *)

LEMMA LinkedIsChainLinked ==
  SourceClean => (Linked <=> Chain!Linked)
<1> SUFFICES ASSUME SourceClean PROVE Linked <=> Chain!Linked
  OBVIOUS
<1>1. \A s \in src, t \in tgt : Correlated(s, t) <=> t.ro /\ t.recv = s.id
  BY CorrelatedIsStamped DEF SourceClean
<1>2. ASSUME Linked PROVE Chain!Linked
  <2>1. PICK s \in src, t \in tgt : t.ro /\ t.recv = s.id
    BY <1>1, <1>2 DEF Linked
  <2>2. s.id \in Ids(src) /\ s.id \in Copied
    BY <2>1 DEF Ids, Copied, SourceClean
  <2> QED
    BY <2>2 DEF Chain!Linked
<1>3. ASSUME Chain!Linked PROVE Linked
  <2>1. PICK n : n \in Ids(src) /\ n \in Copied
    BY <1>3 DEF Chain!Linked
  <2>2. PICK s \in src, t \in tgt : s.id = n /\ t.ro /\ t.recv = n
    BY <2>1 DEF Ids, Copied
  <2> QED
    BY <1>1, <2>2 DEF Linked
<1> QED
  BY <1>2, <1>3

LEMMA LinkedIsChainLinkedNext == SourceClean' => (Linked' <=> Chain!Linked')
BY LinkedIsChainLinked, PTL

(* Dropping subvolumes on either side, the chain kept, is a Purge.         *)
LEMMA DroppingPurges ==
  ASSUME SourceClean, SourceClean', src' \subseteq src, tgt' \subseteq tgt, Linked => Linked'
  PROVE  Chain!Purge
<1>1. Ids(src)' \subseteq Ids(src) /\ Copied' \subseteq Copied
  BY DEF Ids, Copied
<1> QED
  BY <1>1, LinkedIsChainLinked, LinkedIsChainLinkedNext DEF Chain!Purge

(* A snapshot that is created, seen or not, is one that neither side held. *)
LEMMA CreatingTakes ==
  ASSUME ArchiveInv, src' = src \cup {NewSnapshot}, tgt' = tgt
  PROVE  Chain!Take
<1>1. NewSnapshot.id = tick + 1 /\ tick \in Nat
  BY DEF NewSnapshot, ArchiveInv, ChainInv, TypeInv, TypeOK, FsTypeOK
<1>2. /\ \A s \in src : s.id \in Nat /\ s.id <= tick
      /\ \A t \in tgt : t.recv \in Nat /\ t.recv <= tick
  BY DEF ArchiveInv, ChainInv, TypeInv, TypeOK, FsTypeOK, Bounds, Subvol, StampsIssued
<1>3. tick + 1 \notin Ids(src) /\ tick + 1 \notin Copied
  BY <1>1, <1>2 DEF Ids, Copied
<1>4. Ids(src)' = Ids(src) \cup {tick + 1} /\ Copied' = Copied
  BY <1>1 DEF Ids, Copied
<1> QED
  BY <1>3, <1>4 DEF Chain!Take

(* A receive that seals gives a snapshot its one copy; a stamp alone does  *)
(* nothing yet.                                                            *)
LEMMA ReceivingCopies ==
  ASSUME ArchiveInv, ReceiveStamps \/ ReceiveSeals
  PROVE  Chain!Copy \/ UNCHANGED Chain!vars
<1>1. /\ pc = "pipe" /\ src' = src /\ rx # {}
  BY ReceiveStep DEF ArchiveInv, ReceiveStamps, ReceiveSeals
<1>2. PICK t \in tgt, u \in Subvol : ~t.ro /\ u.recv = mine.id /\ tgt' = (tgt \ {t}) \cup {u}
  BY ReceiveStep DEF ArchiveInv
<1>3. mine \in src
  BY <1>1, NoSubIsNone DEF ArchiveInv, ChainInv, TypeInv, TypeOK, ListingsHold, Listed
<1>4. mine.id # NoUuid /\ mine.id \in Ids(src)
  BY <1>3 DEF ArchiveInv, SourceClean, Ids
<1>5. mine.id \notin Copied
  BY <1>1 DEF ArchiveInv, SentOnce, Copied
<1>6. Ids(src)' = Ids(src)
  BY <1>1 DEF Ids
<1>7. CASE u.ro
  <2>1. Copied' = Copied \cup {mine.id}
    BY <1>2, <1>4, <1>7 DEF Copied
  <2> QED
    BY <1>4, <1>5, <1>6, <2>1 DEF Chain!Copy
<1>8. CASE ~u.ro
  <2>1. Copied' = Copied
    BY <1>2, <1>8 DEF Copied
  <2> QED
    BY <1>6, <2>1 DEF Chain!vars
<1> QED
  BY <1>7, <1>8 DEF Subvol

LEMMA NextRefines ==
  ASSUME ~Orphans, ArchiveInv, [Next]_vars
  PROVE  [Chain!Next]_(Chain!vars)
<1> SUFFICES Chain!Next \/ UNCHANGED Chain!vars
  OBVIOUS
<1>1. CASE CreateSnapshot \/ CreateUnseen
  BY <1>1, CreatingTakes DEF CreateSnapshot, CreateUnseen, Chain!Next
<1>2. CASE BeginReceive
  <2>1. PICK new : ~new.ro /\ tgt' = tgt \cup {new}
    BY <1>2 DEF BeginReceive
  <2>2. Copied' = Copied /\ Ids(src)' = Ids(src)
    BY <1>2, <2>1 DEF Copied, Ids, BeginReceive
  <2> QED
    BY <2>2 DEF Chain!vars
<1>3. CASE Cleanup \/ DeleteBackup \/ DeleteSnapshot
  <2>1. src' \subseteq src /\ tgt' \subseteq tgt
    BY <1>3 DEF Cleanup, DeleteBackup, DeleteSnapshot
  <2>2. SourceClean /\ SourceClean' /\ (Linked => Linked')
    BY NextSourceClean, StepKeepsLinked DEF ArchiveInv, ChainInv
  <2> QED
    BY <2>1, <2>2, DroppingPurges DEF Chain!Next
<1>4. CASE ReceiveStamps \/ ReceiveSeals
  BY <1>4, ReceivingCopies DEF Chain!Next
<1>5. CASE UNCHANGED <<src, tgt>>
  BY <1>5 DEF Chain!vars, Ids, Copied
<1>6. \/ CreateSnapshot \/ CreateUnseen \/ BeginReceive \/ Cleanup \/ DeleteBackup \/ DeleteSnapshot
      \/ ReceiveStamps \/ ReceiveSeals \/ UNCHANGED <<src, tgt>>
  BY DEF Next, Command, Receive, StartNamed, StartPrune, Start, NameSnapshot, CreateFails, ListSource,
     ListTarget, ListFails, PipeFails, PipeEnds, InspectFails, InspectGarbled, InspectRejects,
     InspectAccepts, Plan, BackupsPruned, SnapshotsPruned, DeleteFails, ReceiveDies, Killed, vars, fsVars
<1> QED
  BY <1>1, <1>2, <1>3, <1>4, <1>5, <1>6

(* The commands implement the archive, as long as no receive outlives its  *)
(* command: every snapshot is new, is on the source when it gets its copy, *)
(* gets it once, and no prune or clean-up breaks the chain.                *)
THEOREM CycleImplementsArchive == ~Orphans => (Spec => RefinesArchive)
<1> SUFFICES ASSUME ~Orphans PROVE Spec => RefinesArchive
  OBVIOUS
<1>1. Init => Chain!Init
  <2>1. Init => src \subseteq Subvol /\ tgt = {}
    BY InitTypeInv DEF Init, TypeInv, TypeOK, FsTypeOK
  <2> QED
    BY <2>1 DEF Chain!Init, Ids, Copied, Subvol
<1>2. ArchiveInv /\ [Next]_vars => [Chain!Next]_(Chain!vars)
  BY NextRefines
<1> QED
  BY <1>1, <1>2, ArchiveInvariant, PTL DEF Spec, RefinesArchive, Chain!Spec
=============================================================================
