----------------------------- MODULE BackupCycle -----------------------------
(***************************************************************************)
(* The commands snapshot, run, resume and prune, from taking the run lock  *)
(* to releasing it, over one snapshot directory and one target directory.  *)
(*                                                                         *)
(* One command is active at a time: dispatch holds the run lock for its    *)
(* whole life.  A command is a sequence of calls to btrfs, each of them a  *)
(* step here, between which it only has what it listed earlier; it can be  *)
(* killed between any two.  `btrfs receive` is a process of its own with   *)
(* its own steps, so that what it leaves when it is cut off, and what the  *)
(* command sees of it, are both explicit.                                  *)
(*                                                                         *)
(* Retention is any choice of what to drop, so that what is shown holds    *)
(* for every policy, or nothing at all under the default policy.           *)
(***************************************************************************)
EXTENDS Subvolumes

CONSTANTS
  SourceUuid,    \* [Bases -> uuid of the live subvolume snapshotted under it]
  Times,         \* the timestamps a snapshot name can carry
  Commands,      \* the commands that are issued
  UsedModes,     \* the --incremental modes they are issued with
  KeepAll,       \* TRUE: the default policy, which drops nothing
  Outsiders,     \* foreign-named read-only snapshots in the snapshot directory
  Orphans,       \* TRUE: a receive may outlive the command that started it
  FinishInSteps, \* TRUE: a receive stamps and seals in two steps, FALSE: in one
  FirstId,       \* no id up to this one is issued
  MaxId,         \* bound: the last id that is issued
  Reserve,       \* bound: ids only a resume may use
  MaxFaults      \* bound: failures and kills in a behaviour

AllCommands == {"snapshot", "run", "resume", "prune"}

ASSUME CycleAssumption ==
  /\ FirstId \in Nat /\ MaxId \in Nat /\ Reserve \in Nat /\ MaxFaults \in Nat
  /\ SourceUuid \in [Bases -> 1 .. FirstId]
  /\ Times \subseteq Nat
  /\ Commands \subseteq AllCommands
  /\ UsedModes \subseteq Modes
  /\ KeepAll \in BOOLEAN /\ Orphans \in BOOLEAN /\ FinishInSteps \in BOOLEAN
  /\ Outsiders \subseteq Subvol
  /\ \A s \in Outsiders : /\ s.id \in 1 .. FirstId /\ s.recv = NoUuid /\ s.ro
                          /\ s.leaf.base = Foreign
                          /\ \A t \in Outsiders : t.id = s.id \/ t.leaf = s.leaf => t = s

VARIABLES
  src,        \* the subvolumes directly in the snapshot directory
  tgt,        \* the subvolumes directly in the target directory
  rx,         \* the live receives: [sub |-> target id, of |-> uuid being sent]
  tick,       \* the last id issued
  faults,     \* failures and kills so far
  cmd,        \* the active command, or "none"
  pc,         \* the call it makes next
  base,       \* its base name, or Foreign when it has none
  mode,       \* its --incremental mode
  leaf,       \* the name chosen for the new snapshot
  mine,       \* the snapshot it created or resumes
  sel,        \* the parent and clone sources it sends with
  snaps,      \* the snapshot directory as it listed it
  baks,       \* the target directory as it listed it, plus its own backup
  pipe,       \* its transfer: [sub |-> id received into, ok |-> exit status 0]
  own,        \* the ids of the backups it made
  delB, delS, \* the backups and snapshots it still has to delete
  res         \* how the last command ended

fsVars == <<src, tgt, rx, tick>>
planVars == <<delB, delS>>
sendVars == <<mine, sel, snaps, baks, pipe, own>>
cmdVars == <<cmd, base, mode, leaf>>
vars == <<fsVars, faults, cmdVars, pc, sendVars, planVars, res>>

NoLeaf == [base |-> Foreign, time |-> 0, nn |-> 0]
NoSel == [parent |-> NoSub, clones |-> {}]
NoPipe == [sub |-> 0, ok |-> FALSE]

PCs == {"idle", "name", "create", "listSource", "listTarget", "send", "pipe",
        "inspect", "cleanup", "plan", "pruneB", "pruneS"}
Results == {"none", "ok", "command", "verification", "killed"}

SubOrNone == Subvol \cup {NoSub}

FsTypeOK ==
  /\ src \subseteq Subvol /\ tgt \subseteq Subvol
  /\ rx \subseteq [sub : Nat, of : Nat]
  /\ tick \in Nat /\ faults \in Nat

CommandTypeOK ==
  /\ cmd \in AllCommands \cup {"none"} /\ pc \in PCs
  /\ base \in Bases \cup {Foreign} /\ mode \in Modes /\ leaf \in Leaf
  /\ mine \in SubOrNone
  /\ sel \in [parent : SubOrNone, clones : SUBSET Subvol]
  /\ snaps \subseteq Subvol /\ baks \subseteq Subvol
  /\ pipe \in [sub : Nat, ok : BOOLEAN]
  /\ own \subseteq Nat
  /\ delB \subseteq Subvol /\ delS \subseteq Subvol
  /\ res \in Results

(* Every variable has its type; the lock is held exactly while a command   *)
(* has a next call to make; and what a transfer works on is a snapshot.    *)
TypeOK ==
  /\ FsTypeOK
  /\ CommandTypeOK
  /\ cmd = "none" <=> pc = "idle"
  /\ pc \in {"send", "pipe", "inspect", "cleanup"} => mine \in Subvol

Init ==
  /\ src \in SUBSET Outsiders
  /\ tgt = {} /\ rx = {} /\ tick = FirstId /\ faults = 0
  /\ cmd = "none" /\ pc = "idle" /\ base = Foreign /\ mode = "yes" /\ leaf = NoLeaf
  /\ mine = NoSub /\ sel = NoSel /\ snaps = {} /\ baks = {}
  /\ pipe = NoPipe /\ own = {} /\ delB = {} /\ delS = {}
  /\ res = "none"

(* The command returns, its locals are gone and the lock is released.      *)
FinishHoldingLock(r) ==           \* faulty variant: the lock is not released
  /\ pc' = "idle" /\ base' = Foreign /\ mode' = "yes" /\ leaf' = NoLeaf
  /\ mine' = NoSub /\ sel' = NoSel /\ snaps' = {} /\ baks' = {}
  /\ pipe' = NoPipe /\ own' = {} /\ delB' = {} /\ delS' = {}
  /\ res' = r /\ UNCHANGED cmd

Finish(r) ==
  /\ cmd' = "none" /\ pc' = "idle" /\ base' = Foreign /\ mode' = "yes" /\ leaf' = NoLeaf
  /\ mine' = NoSub /\ sel' = NoSel /\ snaps' = {} /\ baks' = {}
  /\ pipe' = NoPipe /\ own' = {} /\ delB' = {} /\ delS' = {}
  /\ res' = r

(* Something outside the program goes wrong.                               *)
Fault == faults < MaxFaults /\ faults' = faults + 1

-----------------------------------------------------------------------------
(* Taking the lock.  A command is issued only while the ids it may need    *)
(* are within the bounds.                                                  *)

IdsFor(c) == CASE c = "run" -> 2 + Reserve
               [] c = "snapshot" -> 1 + Reserve
               [] c = "resume" -> 1
               [] OTHER -> 0

Start(c, b, m) ==
  /\ pc = "idle"
  /\ tick + IdsFor(c) <= MaxId
  /\ cmd' = c /\ base' = b /\ mode' = m
  /\ pc' = IF c \in {"snapshot", "run"} THEN "name" ELSE "listSource"
  /\ UNCHANGED <<fsVars, faults, leaf, sendVars, planVars, res>>

StartNamed == \E c \in Commands \ {"prune"}, b \in Bases, m \in UsedModes : Start(c, b, m)

StartPrune == "prune" \in Commands /\ Start("prune", Foreign, "yes")

-----------------------------------------------------------------------------
(* BackupService::snapshot                                                 *)

(* The name is formed from the clock and the names now in the directory.   *)
NameSnapshot ==
  /\ pc = "name"
  /\ \E t \in Times : leaf' = NextFreeLeaf(base, t, LeavesOf(src))
  /\ pc' = "create"
  /\ UNCHANGED <<fsVars, faults, cmd, base, mode, sendVars, planVars, res>>

NewSnapshot ==
  [id |-> tick + 1, parent |-> SourceUuid[base], recv |-> NoUuid, ro |-> TRUE, leaf |-> leaf]

CreateSnapshot ==
  /\ pc = "create"
  /\ leaf \notin LeavesOf(src)
  /\ src' = src \cup {NewSnapshot}
  /\ tick' = tick + 1
  /\ \/ /\ cmd = "run"
        /\ mine' = NewSnapshot
        /\ pc' = "listSource"
        /\ UNCHANGED <<cmdVars, sel, snaps, baks, pipe, own, planVars, res>>
     \/ cmd = "snapshot" /\ Finish("ok")
  /\ UNCHANGED <<tgt, rx, faults>>

(* `btrfs subvolume snapshot` fails, or the name is taken by now.          *)
CreateFails ==
  /\ pc = "create"
  /\ \/ leaf \in LeavesOf(src) /\ UNCHANGED faults
     \/ leaf \notin LeavesOf(src) /\ Fault
  /\ Finish("command")
  /\ UNCHANGED fsVars

(* It succeeds, but the `btrfs subvolume show` that reads it back fails.   *)
CreateUnseen ==
  /\ pc = "create"
  /\ leaf \notin LeavesOf(src)
  /\ Fault
  /\ src' = src \cup {NewSnapshot}
  /\ tick' = tick + 1
  /\ Finish("command")
  /\ UNCHANGED <<tgt, rx>>

-----------------------------------------------------------------------------
(* Listing both sides and choosing what to send, and with which parent.    *)

ListSource ==
  /\ pc = "listSource"
  /\ snaps' = src \cup ({mine} \ {NoSub})
  /\ pc' = "listTarget"
  /\ UNCHANGED <<fsVars, faults, cmdVars, mine, sel, baks, pipe, own, planVars, res>>

(* run sends the snapshot it created, resume the one that is due, prune    *)
(* (and a resume with nothing due) nothing.                                *)
ToSend(T) ==
  CASE cmd = "run" -> mine
    [] cmd = "resume" -> Due(snaps, T, base)
    [] OTHER -> NoSub

ListTarget ==
  /\ pc = "listTarget"
  /\ LET s == ToSend(tgt) IN
     \/ /\ s = NoSub
        /\ baks' = tgt
        /\ pc' = "plan"
        /\ UNCHANGED <<cmdVars, mine, sel, snaps, pipe, own, planVars, res>>
     \/ /\ s # NoSub
        /\ ~StrictRefuses(s, snaps, tgt, mode)
        /\ mine' = s
        /\ sel' = BestParent(s, snaps, tgt, mode)
        /\ baks' = tgt
        /\ pc' = "send"
        /\ UNCHANGED <<cmdVars, snaps, pipe, own, planVars, res>>
     \/ /\ s # NoSub
        /\ StrictRefuses(s, snaps, tgt, mode)
        /\ Finish("verification")
  /\ UNCHANGED <<fsVars, faults>>

ListFails ==
  /\ pc \in {"name", "listSource", "listTarget"}
  /\ Fault
  /\ Finish("command")
  /\ UNCHANGED fsVars

-----------------------------------------------------------------------------
(* TransferPort::send_receive                                              *)

(* The send side finds what it was told to send, and the receive side the  *)
(* copy of the parent the stream builds on.                                *)
Sendable ==
  /\ mine \in src /\ sel.clones \subseteq src
  /\ sel.parent # NoSub => sel.parent \in src /\ TargetCorrelates(sel.parent, tgt) # {}

(* The receive starts: a writable subvolume under the snapshot's name.     *)
BeginReceive ==
  /\ pc = "send"
  /\ Sendable
  /\ mine.leaf \notin LeavesOf(tgt)
  /\ \E p \in IF sel.parent = NoSub THEN {NoUuid} ELSE Ids(TargetCorrelates(sel.parent, tgt)) :
       tgt' = tgt \cup {[id |-> tick + 1, parent |-> p, recv |-> NoUuid, ro |-> FALSE,
                         leaf |-> mine.leaf]}
  /\ rx' = rx \cup {[sub |-> tick + 1, of |-> mine.id]}
  /\ tick' = tick + 1
  /\ pipe' = [sub |-> tick + 1, ok |-> FALSE]
  /\ pc' = "pipe"
  /\ UNCHANGED <<src, faults, cmdVars, mine, sel, snaps, baks, own, planVars, res>>

(* The pipe fails before anything is received: the name is taken on the    *)
(* target, or one side cannot start.                                       *)
PipeFails ==
  /\ pc = "send"
  /\ \/ (mine.leaf \in LeavesOf(tgt) \/ ~Sendable) /\ UNCHANGED faults
     \/ Fault
  /\ pipe' = NoPipe
  /\ pc' = "inspect"
  /\ UNCHANGED <<fsVars, cmdVars, mine, sel, snaps, baks, own, planVars, res>>

Receiving(i) == \E r \in rx : r.sub = i

(* Both processes have ended; the exit status is not to be trusted.        *)
PipeEnds ==
  /\ pc = "pipe"
  /\ ~Receiving(pipe.sub)
  /\ \E ok \in BOOLEAN : pipe' = [pipe EXCEPT !.ok = ok]
  /\ pc' = "inspect"
  /\ UNCHANGED <<fsVars, faults, cmdVars, mine, sel, snaps, baks, own, planVars, res>>

Received == {t \in tgt : t.leaf = mine.leaf}

(* `btrfs subvolume show` finds nothing under the name, or fails.          *)
InspectFails ==
  /\ pc = "inspect"
  /\ \/ Received = {} /\ UNCHANGED faults
     \/ Received # {} /\ Fault
  /\ Finish("command")
  /\ UNCHANGED fsVars

InspectGarbled ==
  /\ pc = "inspect"
  /\ \E t \in Received : Garbled(t)
  /\ pc' = "cleanup"
  /\ UNCHANGED <<fsVars, faults, cmdVars, sendVars, planVars, res>>

PipeError == IF pipe.ok THEN "verification" ELSE "command"

(* The garbled result is deleted by its path; a failure is only logged.    *)
CleanupSkipped ==                 \* faulty variant: the result is left behind
  /\ pc = "cleanup"
  /\ Finish(PipeError)
  /\ UNCHANGED <<fsVars, faults>>

Cleanup ==
  /\ pc = "cleanup"
  /\ \/ tgt' = tgt \ Received /\ UNCHANGED faults
     \/ Fault /\ UNCHANGED tgt
  /\ Finish(PipeError)
  /\ UNCHANGED <<src, rx, tick>>

(* A result that is not garbled is judged: first the exit status, then     *)
(* the plausibility of what was received.                                  *)
FullSend == sel.parent = NoSub

InspectRejects ==
  /\ pc = "inspect"
  /\ \E t \in Received : ~Garbled(t) /\ ~(pipe.ok /\ VerifyReceived(t, FullSend))
  /\ Finish(PipeError)
  /\ UNCHANGED <<fsVars, faults>>

(* The backup joins the listing, which cannot hold it already: its id is   *)
(* newer than the listing.                                                 *)
InspectAccepts ==
  /\ pc = "inspect"
  /\ pipe.ok
  /\ \E t \in Received :
       /\ ~Garbled(t) /\ VerifyReceived(t, FullSend)
       /\ baks' = baks \cup {t}
       /\ own' = {t.id}
  /\ pc' = "plan"
  /\ UNCHANGED <<fsVars, faults, cmdVars, mine, sel, snaps, pipe, planVars, res>>

-----------------------------------------------------------------------------
(* `btrfs receive`: it stamps the uuid of what was sent, then seals the    *)
(* subvolume read-only, or is cut off.                                     *)

Target(i) == {t \in tgt : t.id = i}

ReceiveStamps ==
  /\ FinishInSteps
  /\ \E r \in rx : \E t \in Target(r.sub) :
       /\ t.recv = NoUuid
       /\ tgt' = (tgt \ {t}) \cup {[t EXCEPT !.recv = r.of]}
  /\ UNCHANGED <<src, rx, tick, faults, cmdVars, pc, sendVars, planVars, res>>

ReceiveSeals ==
  /\ \E r \in rx : \E t \in Target(r.sub) :
       /\ FinishInSteps => t.recv # NoUuid
       /\ tgt' = (tgt \ {t}) \cup {[t EXCEPT !.recv = r.of, !.ro = TRUE]}
       /\ rx' = rx \ {r}
  /\ UNCHANGED <<src, tick, faults, cmdVars, pc, sendVars, planVars, res>>

ReceiveDies ==
  /\ \E r \in rx :
       /\ \/ Target(r.sub) = {} /\ UNCHANGED faults
          \/ Target(r.sub) # {} /\ Fault
       /\ rx' = rx \ {r}
  /\ UNCHANGED <<src, tgt, tick, cmdVars, pc, sendVars, planVars, res>>

-----------------------------------------------------------------------------
(* BackupService::prune_both and PruneService::prune                       *)

Schedules(S) == IF KeepAll THEN {{}} ELSE SUBSET Named(S)

JustCreated == IF cmd = "run" THEN {mine.id} ELSE {}

SnapshotIdsToKeepOwn == JustCreated   \* faulty variant: the pair is no anchor

SnapshotIdsToKeep == JustCreated \cup LatestCommonPair(snaps, baks).snapshot

BackupIdsToKeepPair ==       \* faulty variant: the new backup is no anchor
  LatestCommonPair(snaps, baks).backups

BackupIdsToKeep == own \cup LatestCommonPair(snaps, baks).backups

TargetAborted == snaps # {} /\ baks = {}

(* Both schedules and their anchors come from the listings.  The target    *)
(* being missing only holds back the snapshot side.                        *)
Plan ==
  /\ pc = "plan"
  /\ \E dropB \in Schedules(baks), dropS \in Schedules(snaps) :
       /\ delB' = Enforce(dropB, BackupIdsToKeep, FALSE)
       /\ delS' = Enforce(dropS, SnapshotIdsToKeep, TargetAborted)
  /\ pc' = "pruneB"
  /\ UNCHANGED <<fsVars, faults, cmdVars, sendVars, res>>

DeleteBackup ==
  /\ pc = "pruneB"
  /\ \E b \in delB :
       /\ b.leaf \in LeavesOf(tgt)
       /\ tgt' = {t \in tgt : t.leaf # b.leaf}
       /\ delB' = delB \ {b}
  /\ UNCHANGED <<src, rx, tick, faults, cmdVars, pc, sendVars, delS, res>>

BackupsPruned ==
  /\ pc = "pruneB" /\ delB = {}
  /\ pc' = "pruneS"
  /\ UNCHANGED <<fsVars, faults, cmdVars, sendVars, planVars, res>>

DeleteSnapshot ==
  /\ pc = "pruneS"
  /\ \E s \in delS :
       /\ s.leaf \in LeavesOf(src)
       /\ src' = {t \in src : t.leaf # s.leaf}
       /\ delS' = delS \ {s}
  /\ UNCHANGED <<tgt, rx, tick, faults, cmdVars, pc, sendVars, delB, res>>

SnapshotsPruned ==
  /\ pc = "pruneS" /\ delS = {}
  /\ Finish("ok")
  /\ UNCHANGED <<fsVars, faults>>

(* A delete that fails ends the command at once.                           *)
DeleteFails ==
  /\ \/ pc = "pruneB" /\ \E b \in delB :
          IF b.leaf \in LeavesOf(tgt) THEN Fault ELSE UNCHANGED faults
     \/ pc = "pruneS" /\ \E s \in delS :
          IF s.leaf \in LeavesOf(src) THEN Fault ELSE UNCHANGED faults
  /\ Finish("command")
  /\ UNCHANGED fsVars

-----------------------------------------------------------------------------
(* The command is killed.  Its receive dies with it (the process group is  *)
(* signalled, the machine goes down), or lives on as an orphan.            *)
Killed ==
  /\ pc # "idle"
  /\ Fault
  /\ Finish("killed")
  /\ \/ rx' = {r \in rx : r.sub # pipe.sub}
     \/ Orphans /\ UNCHANGED rx
  /\ UNCHANGED <<src, tgt, tick>>

-----------------------------------------------------------------------------
Command ==
  \/ NameSnapshot \/ CreateSnapshot \/ CreateFails \/ CreateUnseen
  \/ ListSource \/ ListTarget \/ ListFails
  \/ BeginReceive \/ PipeFails \/ PipeEnds
  \/ InspectFails \/ InspectGarbled \/ Cleanup \/ InspectRejects \/ InspectAccepts
  \/ Plan \/ DeleteBackup \/ BackupsPruned \/ DeleteSnapshot \/ SnapshotsPruned \/ DeleteFails

Receive == ReceiveStamps \/ ReceiveSeals \/ ReceiveDies

Next == StartNamed \/ StartPrune \/ Command \/ Receive \/ Killed

Spec == Init /\ [][Next]_vars

(* A command once started goes on, so do the processes it spawned, and     *)
(* whoever runs the tool retries: resume is issued again and again for     *)
(* every base name.                                                        *)
Resume(b) == "resume" \in Commands /\ \E m \in UsedModes : Start("resume", b, m)

FairSpec ==
  /\ Spec
  /\ WF_vars(Command) /\ WF_vars(Receive)
  /\ \A b \in Bases : SF_vars(Resume(b))

-----------------------------------------------------------------------------
(* Properties                                                              *)

(* Snapshots a complete copy of which is on the target.                    *)
Copied == {t.recv : t \in {u \in tgt : u.ro /\ u.recv # NoUuid}}

Linked == \E s \in src, t \in tgt : Correlated(s, t)

(* The latest common pair is never deleted (prune_both, PruneService): no  *)
(* step of any command, whatever the policy and wherever it is killed,     *)
(* leaves source and target without a common snapshot once they have one.  *)
CommonPairKept == [][Linked => Linked']_vars

(* The parent and the clone sources a send names (choose_parent) are still *)
(* on the source when it starts, each with a read-only copy on the target: *)
(* what the listings said still holds.                                     *)
ParentOnBothSides ==
  pc = "send" =>
    /\ Sendable
    /\ \A c \in sel.clones : TargetCorrelates(c, tgt) # {}

(* A backed-up snapshot is never sent again (resume): what a send is about *)
(* to transfer has no complete copy on the target and no receive is making *)
(* one, whatever the commands before it left behind.                       *)
NeverSentTwice ==
  pc = "send" => /\ TargetCorrelates(mine, tgt) = {}
                 /\ \A r \in rx : r.of # mine.id

(* The name snapshot() picks is free when the snapshot is created: no      *)
(* existing snapshot is in its way, however often a timestamp repeats.     *)
NameIsFree == pc = "create" => leaf \notin LeavesOf(src)

(* When run or resume reports success, the backup it made is on the target *)
(* at that moment, verified and complete, and run's snapshot on the source *)
(* (send_receive, then the anchors of prune_both).                         *)
ReportIsTrue ==
  [][pc = "pruneS" /\ res' = "ok" /\ pc' = "idle" /\ own # {} =>
       /\ \E t \in tgt' : t.id \in own /\ t.recv = mine.id /\ VerifyReceived(t, FullSend)
       /\ cmd = "run" => mine \in src']_vars

(* A missing target costs no snapshot: one is deleted only by a command    *)
(* that saw at least one backup (target_aborted).                          *)
SnapshotsOutliveMissingTarget ==
  [][src' \subseteq src /\ src' # src => baks # {}]_vars

(* The clean-up after a failed transfer takes nothing but what an          *)
(* interrupted receive left: never a subvolume stamped as received.        *)
CleanupTakesOnlyGarbled ==
  [][pc = "cleanup" => \A t \in tgt \ tgt' : ~t.ro /\ t.recv = NoUuid]_vars

(* The commands keep the promise of module Archive.                        *)
Chain == INSTANCE Archive WITH kept <- Ids(src), copies <- Copied
RefinesArchive == Chain!Spec

(* Resuming again and again backs every snapshot up in the end, whatever   *)
(* was interrupted before.                                                 *)
ResumeCatchesUp ==
  \A n \in FirstId + 1 .. MaxId : n \in Ids(Named(src)) ~> n \in Copied
=============================================================================
