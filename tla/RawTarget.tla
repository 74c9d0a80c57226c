------------------------------ MODULE RawTarget ------------------------------
(***************************************************************************)
(* A raw target: a plain directory in which a backup is two files, the     *)
(* stream `btrfs send` wrote and a sidecar <leaf>.info that describes it,  *)
(* and where the backups known are the sidecars found.  The commands       *)
(* snapshot, run --raw and resume --raw over it, call by call: what they   *)
(* leave when they are cut, and what the next command makes of that.       *)
(*                                                                         *)
(* Naming, correlation, the parent, what is owed and what must outlive a   *)
(* prune are those of Subvolumes; retention is any choice of what to drop. *)
(* One base name, one snapshot directory, one command at a time (the run   *)
(* lock).  A command that is cut takes its pipeline with it, and what was  *)
(* written before stays: no file system loses a write afterwards.          *)
(***************************************************************************)
EXTENDS Subvolumes

CONSTANTS
  Series,        \* the base name
  Times,         \* the timestamps a snapshot name can carry
  Plain,         \* the --compress/--passphrase choices whose writer is dd
  Encrypted,     \* those whose writer is gpg
  FixedOptions,  \* TRUE: every command of a behaviour is given the same choice
  UsedModes,     \* the --incremental modes
  Retains,       \* TRUE: the default policy, which drops nothing
  CutAt,         \* the calls during which a command may be killed or fail
  MaxId,         \* bound: the last snapshot id
  MaxFaults      \* bound: failures and kills in a behaviour

Codecs == Plain \cup Encrypted

Calls == {"list", "bootstrap", "uuid", "pipe", "verify", "sidecar", "plan",
          "pruneB", "unlink", "pruneS"}

ASSUME RawAssumption ==
  /\ Series \in Bases /\ Times \subseteq Nat
  /\ Plain \cap Encrypted = {}
  /\ UsedModes \subseteq Modes /\ Retains \in BOOLEAN /\ FixedOptions \in BOOLEAN
  /\ CutAt \subseteq Calls
  /\ MaxId \in Nat /\ MaxFaults \in Nat

VARIABLES
  src,       \* the snapshots in the snapshot directory
  uuidFile,  \* .mybtrfs_raw_fs_uuid: "absent", "torn" (created, not written), "good"
  streams,   \* the stream files
  infos,     \* the sidecars
  tmp,       \* the leaf names with a sidecar still under its .tmp name
  tick,      \* the last snapshot id issued
  faults,    \* failures and kills so far
  cmd, mode, codec,  \* the active command and its options (codec: the last one's)
  pc,        \* the call it makes next
  mine,      \* the snapshot it sends
  sel,       \* the parent and clone sources it sends with
  snaps,     \* the snapshot directory as it listed it
  baks,      \* the target as it listed it, plus its own backup
  own,       \* the ids of the backups it made
  victim,    \* the backup whose stream file it removed last
  delB, delS, \* the backups and snapshots it still has to delete
  res        \* how the last command ended

dirVars == <<uuidFile, streams, infos, tmp>>
optVars == <<cmd, mode, codec>>
sendVars == <<mine, sel, snaps, baks, own>>
planVars == <<victim, delB, delS>>
vars == <<src, dirVars, tick, faults, optVars, pc, sendVars, planVars, res>>

NoSel == [parent |-> NoSub, clones |-> {}]

(* A stream file: the snapshot it is of, the snapshots whose copies a      *)
(* receive of it needs, and whether all of it was written.                 *)
Stream == [leaf : Leaf, codec : Codecs, of : Nat, needs : SUBSET Nat, whole : BOOLEAN]

(* A sidecar: uuid, received_from_uuid, leaf and stream_file.              *)
Info == [id : Nat, recv : Nat, leaf : Leaf, codec : Codecs]

FilesTypeOK ==
  /\ src \subseteq Subvol
  /\ uuidFile \in {"absent", "torn", "good"}
  /\ streams \subseteq Stream /\ infos \subseteq Info /\ tmp \subseteq Leaf
  /\ tick \in Nat /\ faults \in Nat

CommandTypeOK ==
  /\ cmd \in {"none", "run", "resume"} /\ mode \in Modes /\ codec \in Codecs
  /\ pc \in Calls \cup {"idle"} /\ (cmd = "none" <=> pc = "idle")
  /\ snaps \subseteq Subvol /\ baks \subseteq Subvol
  /\ mine \in Subvol \cup {NoSub}
  /\ sel \in [parent : Subvol \cup {NoSub}, clones : SUBSET Subvol]
  /\ own \subseteq Nat /\ victim \in Subvol \cup {NoSub} /\ delB \subseteq Subvol /\ delS \subseteq Subvol
  /\ res \in {"none", "ok", "error", "killed"}

(* The files, and the command; the lock is held exactly while one runs.    *)
TypeOK == FilesTypeOK /\ CommandTypeOK

Init ==
  /\ src = {} /\ uuidFile = "absent" /\ streams = {} /\ infos = {} /\ tmp = {}
  /\ tick = 1 /\ faults = 0
  /\ cmd = "none" /\ mode = "yes" /\ codec \in Codecs /\ pc = "idle"
  /\ mine = NoSub /\ sel = NoSel /\ snaps = {} /\ baks = {} /\ own = {}
  /\ victim = NoSub /\ delB = {} /\ delS = {} /\ res = "none"

FinishHoldingLock(r) ==       \* faulty variant: the lock is not released
  /\ mode' = "yes" /\ pc' = "idle" /\ UNCHANGED <<cmd, codec>>
  /\ mine' = NoSub /\ sel' = NoSel /\ snaps' = {} /\ baks' = {} /\ own' = {}
  /\ victim' = NoSub /\ delB' = {} /\ delS' = {} /\ res' = r

Finish(r) ==
  /\ cmd' = "none" /\ mode' = "yes" /\ pc' = "idle" /\ UNCHANGED codec
  /\ mine' = NoSub /\ sel' = NoSel /\ snaps' = {} /\ baks' = {} /\ own' = {}
  /\ victim' = NoSub /\ delB' = {} /\ delS' = {} /\ res' = r

Fault == pc \in CutAt /\ faults < MaxFaults /\ faults' = faults + 1

Goto(p) == pc' = p /\ UNCHANGED <<optVars, res>>

-----------------------------------------------------------------------------
(* The files of one backup.                                                *)

FileOf(l, k) == {f \in streams : f.leaf = l /\ f.codec = k}

FileNamed(i) == FileOf(i.leaf, i.codec)

(* sidecar_to_subvolume                                                    *)
AsSubvol(i) == [id |-> i.id, parent |-> NoUuid, recv |-> i.recv, ro |-> TRUE, leaf |-> i.leaf]

Listing == {AsSubvol(i) : i \in infos}

(* The target cannot be listed: the uuid file is malformed, or there are   *)
(* sidecars without it.                                                    *)
Unlistable == uuidFile = "torn" \/ (uuidFile = "absent" /\ infos # {})

CleanupSparesStream ==       \* faulty variant: the stream file stays
  /\ infos' = {i \in infos : i.leaf # mine.leaf}
  /\ tmp' = tmp \ {mine.leaf}
  /\ UNCHANGED streams

(* cleanup_raw                                                             *)
Cleanup ==
  /\ streams' = streams \ FileOf(mine.leaf, codec)
  /\ infos' = {i \in infos : i.leaf # mine.leaf}
  /\ tmp' = tmp \ {mine.leaf}

-----------------------------------------------------------------------------
(* The commands begin.                                                     *)

(* The local time never goes back behind a snapshot that is there.         *)
ClockAt(t) == \A s \in src : s.leaf.time <= t

TakeSnapshot(t) ==
  LET s == [id |-> tick + 1, parent |-> 1, recv |-> NoUuid, ro |-> TRUE,
            leaf |-> NextFreeLeaf(Series, t, LeavesOf(src))]
  IN  /\ pc = "idle" /\ tick < MaxId /\ ClockAt(t)
      /\ src' = src \cup {s} /\ tick' = tick + 1
      /\ UNCHANGED <<dirVars, faults, sel, snaps, baks, own, planVars>>

Snapshot(t) == TakeSnapshot(t) /\ res' = "ok" /\ UNCHANGED <<optVars, pc, mine>>

Usable(k) == FixedOptions => k = codec

Run(t, k, m) ==
  /\ TakeSnapshot(t) /\ Usable(k)
  /\ mine' = CHOOSE s \in src' : s \notin src
  /\ cmd' = "run" /\ codec' = k /\ mode' = m /\ pc' = "list"
  /\ UNCHANGED res

Resume(k, m) ==
  /\ pc = "idle" /\ Usable(k)
  /\ cmd' = "resume" /\ codec' = k /\ mode' = m /\ pc' = "list"
  /\ UNCHANGED <<src, dirVars, tick, faults, sendVars, planVars, res>>

-----------------------------------------------------------------------------
(* Listing both sides and choosing what to send, and with which parent.    *)

ToSend == IF cmd = "run" THEN mine ELSE Due(src, Listing, Series)

(* --incremental strict, and no related parent.                            *)
NoParent == ToSend # NoSub /\ StrictRefuses(ToSend, src, Listing, mode)

List ==
  /\ pc = "list" /\ ~Unlistable
  /\ snaps' = src /\ baks' = Listing
  /\ \/ /\ ToSend # NoSub /\ ~NoParent
        /\ mine' = ToSend /\ sel' = BestParent(ToSend, src, Listing, mode)
        /\ Goto("bootstrap")
     \/ ToSend = NoSub /\ Goto("plan") /\ UNCHANGED <<mine, sel>>
  /\ UNCHANGED <<src, dirVars, tick, faults, own, planVars>>

ListFails ==
  /\ pc = "list"
  /\ \/ (Unlistable \/ NoParent) /\ UNCHANGED faults
     \/ ~Unlistable /\ Fault
  /\ Finish("error")
  /\ UNCHANGED <<src, dirVars, tick>>

-----------------------------------------------------------------------------
(* RawStreamAdapter::send_receive                                          *)

(* load_or_create_fs_uuid: the file appears empty before it is written.    *)
Bootstrap ==
  /\ pc = "bootstrap"
  /\ \/ uuidFile = "good" /\ Goto("pipe") /\ UNCHANGED uuidFile
     \/ uuidFile = "absent" /\ uuidFile' = "torn" /\ Goto("uuid")
  /\ UNCHANGED <<src, streams, infos, tmp, tick, faults, sendVars, planVars>>

WriteUuid ==
  /\ pc = "uuid"
  /\ uuidFile' = "good" /\ Goto("pipe")
  /\ UNCHANGED <<src, streams, infos, tmp, tick, faults, sendVars, planVars>>

(* The uuid file cannot be made: nothing was sent, nothing is taken back.  *)
BootstrapFails ==
  /\ pc \in {"bootstrap", "uuid"} /\ Fault
  /\ Finish("error")
  /\ UNCHANGED <<src, dirVars, tick>>

Needs == Ids(sel.clones \cup ({sel.parent} \ {NoSub}))

NewStream(w) ==
  [leaf |-> mine.leaf, codec |-> codec, of |-> mine.id, needs |-> Needs, whole |-> w]

(* gpg will not write over a file that is there; dd does.                  *)
Refused == codec \in Encrypted /\ FileOf(mine.leaf, codec) # {}

PipeBegins ==
  /\ pc = "pipe" /\ ~Refused
  /\ streams' = (streams \ FileOf(mine.leaf, codec)) \cup {NewStream(FALSE)}
  /\ Goto("verify")
  /\ UNCHANGED <<src, uuidFile, infos, tmp, tick, faults, sendVars, planVars>>

PipeEndsUnchecked ==          \* faulty variant: the exit status is not looked at
  /\ pc = "verify"
  /\ tmp' = tmp \cup {mine.leaf}
  /\ Goto("sidecar")
  /\ UNCHANGED <<src, uuidFile, streams, infos, tick, faults, sendVars, planVars>>

(* The pipeline exits 0, the file is there and not empty, and the sidecar  *)
(* text is sound and written beside its name.                              *)
PipeEnds ==
  /\ pc = "verify"
  /\ streams' = (streams \ FileOf(mine.leaf, codec)) \cup {NewStream(TRUE)}
  /\ tmp' = tmp \cup {mine.leaf}
  /\ Goto("sidecar")
  /\ UNCHANGED <<src, uuidFile, infos, tick, faults, sendVars, planVars>>

(* The uuid of a stream is drawn at random; one id for each snapshot is    *)
(* enough, since no two streams of a snapshot are listed together.         *)
NewInfo == [id |-> MaxId + mine.id, recv |-> mine.id, leaf |-> mine.leaf, codec |-> codec]

RenameSidecar ==
  /\ pc = "sidecar"
  /\ infos' = {i \in infos : i.leaf # mine.leaf} \cup {NewInfo}
  /\ tmp' = tmp \ {mine.leaf}
  /\ baks' = baks \cup {AsSubvol(NewInfo)} /\ own' = {NewInfo.id}
  /\ Goto("plan")
  /\ UNCHANGED <<src, uuidFile, streams, tick, faults, mine, sel, snaps, planVars>>

(* Any failure from the pipeline on takes back what was written.           *)
TransferFails ==
  /\ \/ pc = "pipe" /\ Refused /\ UNCHANGED faults
     \/ pc \in {"verify", "sidecar"} /\ Fault
  /\ Cleanup
  /\ Finish("error")
  /\ UNCHANGED <<src, uuidFile, tick>>

-----------------------------------------------------------------------------
(* BackupService::prune_both, its backups deleted by RawStreamAdapter.     *)

Schedules(S) == IF Retains THEN {{}} ELSE SUBSET Named(S)

JustCreated == IF cmd = "run" THEN {mine.id} ELSE {}

SnapshotIdsToKeepOwn == JustCreated            \* faulty variant: the pair is no anchor

SnapshotIdsToKeep == JustCreated \cup LatestCommonPair(snaps, baks).snapshot

BackupIdsToKeepOwn == own                      \* faulty variant: the pair is no anchor

BackupIdsToKeepPair ==            \* faulty variant: the new backup is no anchor
  LatestCommonPair(snaps, baks).backups

BackupIdsToKeep == own \cup LatestCommonPair(snaps, baks).backups

Plan ==
  /\ pc = "plan"
  /\ \E dropB \in Schedules(baks), dropS \in Schedules(snaps) :
       /\ delB' = Enforce(dropB, BackupIdsToKeep, FALSE)
       /\ delS' = Enforce(dropS, SnapshotIdsToKeep, snaps # {} /\ baks = {})
  /\ sel' = NoSel /\ snaps' = {} /\ baks' = {}      \* not read any more
  /\ Goto("pruneB")
  /\ UNCHANGED <<src, dirVars, tick, faults, mine, own, victim>>

InfosOf(b) == {i \in infos : i.id = b.id}

FilesOf(b) == UNION {FileNamed(i) : i \in InfosOf(b)}

(* delete, oldest first: the sidecar names the stream file, which goes      *)
(* before it.                                                              *)
RemoveStream ==
  /\ pc = "pruneB" /\ delB # {}
  /\ LET b == Oldest(delB) IN
       /\ FilesOf(b) # {}
       /\ streams' = streams \ FilesOf(b)
       /\ victim' = b
  /\ Goto("unlink")
  /\ UNCHANGED <<src, uuidFile, infos, tmp, tick, faults, sendVars, delB, delS>>

RemoveSidecar ==
  /\ pc = "unlink"
  /\ infos' = infos \ InfosOf(victim)
  /\ delB' = delB \ {victim}
  /\ victim' = NoSub
  /\ Goto("pruneB")
  /\ UNCHANGED <<src, uuidFile, streams, tmp, tick, faults, sendVars, delS>>

BackupsPruned ==
  /\ pc = "pruneB" /\ delB = {} /\ Goto("pruneS")
  /\ UNCHANGED <<src, dirVars, tick, faults, sendVars, planVars>>

DeleteSnapshot ==
  /\ pc = "pruneS" /\ delS # {}
  /\ src' = src \ {Oldest(delS)} /\ delS' = delS \ {Oldest(delS)}
  /\ UNCHANGED <<dirVars, tick, faults, optVars, pc, sendVars, victim, delB, res>>

SnapshotsPruned ==
  /\ pc = "pruneS" /\ delS = {} /\ Finish("ok")
  /\ UNCHANGED <<src, dirVars, tick, faults>>

(* A delete that fails ends the command: also that of a backup whose       *)
(* stream file is already gone.                                            *)
DeleteFails ==
  /\ \/ pc = "pruneB" /\ delB # {} /\ FilesOf(Oldest(delB)) = {} /\ UNCHANGED faults
     \/ pc = "pruneB" /\ delB # {} /\ FilesOf(Oldest(delB)) # {} /\ Fault
     \/ pc = "unlink" /\ Fault
     \/ pc = "pruneS" /\ delS # {} /\ Fault
  /\ Finish("error")
  /\ UNCHANGED <<src, dirVars, tick>>

Killed ==
  /\ pc # "idle" /\ Fault
  /\ Finish("killed")
  /\ UNCHANGED <<src, dirVars, tick>>

-----------------------------------------------------------------------------
Send == \/ Bootstrap \/ WriteUuid \/ BootstrapFails
        \/ PipeBegins \/ PipeEnds \/ RenameSidecar \/ TransferFails

Prune == \/ Plan \/ RemoveStream \/ RemoveSidecar \/ BackupsPruned
         \/ DeleteSnapshot \/ SnapshotsPruned \/ DeleteFails

Next ==
  \/ \E t \in Times : Snapshot(t) \/ \E k \in Codecs, m \in UsedModes : Run(t, k, m)
  \/ \E k \in Codecs, m \in UsedModes : Resume(k, m)
  \/ List \/ ListFails \/ Send \/ Prune \/ Killed

Spec == Init /\ [][Next]_vars

(* A command once started goes on, and resume is issued again and again,   *)
(* with the default mode.                                                  *)
FairSpec ==
  /\ Spec
  /\ WF_vars(List \/ ListFails \/ Send \/ Prune)
  /\ SF_vars(\E k \in Codecs : Resume(k, "yes"))

-----------------------------------------------------------------------------
(* Properties                                                              *)

Whole(i) == \E f \in FileNamed(i) : f.whole /\ f.of = i.recv

(* The snapshots with a backup that can be read.                           *)
Copied == {i.recv : i \in {j \in infos : Whole(j)}}

(* The sidecar appears last and is renamed into place (send_receive): a    *)
(* listed backup never has a partly written stream, nor one of another     *)
(* snapshot.  Its stream is whole, or it is gone.                          *)
ListedNeverPartial == \A i \in infos : FileNamed(i) = {} \/ Whole(i)

(* A listed backup loses its data only to a prune that chose it: no        *)
(* transfer, failed, cut or successful, touches the stream of a backup     *)
(* that is already listed (send_receive, cleanup_raw).                     *)
OnlyPruneTakesData ==
  [][\A i \in infos : Whole(i) => Whole(i)' \/ i.id \in Ids(delB)]_vars

(* A delete that was cut leaves a sidecar without a stream, and that is    *)
(* never the pair the next incremental counts on (latest_common_pair over  *)
(* what list() returns).                                                   *)
AnchorIsWhole ==
  LET B == BackedUp(src, Listing) IN B # {} => Newest(B).id \in Copied

(* When run or resume reports success, the backup it made is listed and    *)
(* whole at that moment, and the snapshot it is of still on the source.    *)
RawReportIsTrue ==
  [][pc = "pruneS" /\ pc' = "idle" /\ res' = "ok" /\ own # {} =>
       mine.id \in Copied' /\ (cmd = "run" => mine \in src')]_vars

(* The raw target keeps the promise of module Archive.                     *)
RawChain == INSTANCE Archive WITH kept <- Ids(src), copies <- Copied
RawRefinesArchive == RawChain!Spec

(* Resuming backs the newest snapshot up in the end, whatever was cut      *)
(* before, unless a cut left the uuid file created but not written, which  *)
(* no later command repairs (load_or_create_fs_uuid).                      *)
LatestIsBackedUp ==
  \A n \in 2 .. MaxId :
    src # {} /\ n = Newest(src).id ~>
      \/ n \in Copied \/ n \notin Ids(src) \/ n # Newest(src).id
      \/ uuidFile = "torn"
=============================================================================
