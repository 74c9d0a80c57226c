------------------------------- MODULE Restore -------------------------------
(***************************************************************************)
(* `mybtrfs restore`: a writable subvolume at dest from a read-only        *)
(* snapshot of the same filesystem, from a backup on another filesystem    *)
(* (sent back into dest's directory first) or from a raw stream.  The      *)
(* commands run call by call over the one directory that holds dest, which *)
(* the user also works in: what a restore may touch there, and what it     *)
(* leaves when a call fails or the command is killed.                      *)
(*                                                                         *)
(* A path in that directory is a pair <<name, k>>: the name itself for     *)
(* k = 0, <name>.broken for 1 and <name>.broken.<k-1> from 2 on.  The      *)
(* snapshots elsewhere on its filesystem, the backups and the raw streams  *)
(* stay as they are: pruning is BackupCycle's and RawTarget's matter.  A   *)
(* killed command takes its pipeline with it.                              *)
(***************************************************************************)
EXTENDS Subvolumes

CONSTANTS
  Roots,       \* the names in dest's directory, those of the backups included
  Live,        \* the names the user works under: what dest may be
  Snapshots,   \* the read-only snapshots on dest's filesystem: name -> object
  Backups,     \* the backups on the other filesystem: name -> object
  Raws,        \* the raw backups: name -> what their stream is of
  Starts,      \* the contents dest's directory may have at first
  FirstTick,   \* no id and no version of the data in use at first is higher
  MaxTick,     \* bound: the last id
  MaxAside,    \* bound: moved-aside paths of one name
  MaxFails     \* bound: failures and kills in a behaviour

(* What a path holds: a subvolume or, with id NoUuid, a plain directory.   *)
(* data is the version of the user's data in it, holds the names of the    *)
(* subvolumes inside it.                                                   *)
Object == [id : Nat, parent : Nat, recv : Nat, ro : BOOLEAN,
           data : Nat, holds : SUBSET Roots]

Garbage == 0     \* the data of a stream cut short or applied to the wrong parent

(* A raw stream: the snapshot it is of, its data, and the snapshot it is a *)
(* difference to (NoUuid: none) with that one's data.                      *)
Raw == [of : Nat, data : Nat, need : Nat, base : Nat]

Edited == FirstTick + 1     \* whatever the user makes of it

Paths == Roots \X (0 .. MaxAside)

Nothing == NoSub

Directory == [Paths -> Object \cup {Nothing}]

IsSubvol(o) == o # Nothing /\ o.id # NoUuid

InDir(d) == {d[p] : p \in {q \in Paths : IsSubvol(d[q])}}

Entries(f) == {f[n] : n \in DOMAIN f}

ASSUME RestoreAssumption ==
  /\ Live \subseteq Roots /\ Live # {} /\ NoSub \notin Object \cup Paths
  /\ \A f \in {Snapshots, Backups} :
       /\ DOMAIN f \subseteq Roots
       /\ \A o \in Entries(f) : o \in Object /\ o.ro /\ o.id # NoUuid /\ o.id <= FirstTick
  /\ DOMAIN Raws \subseteq Roots /\ Entries(Raws) \subseteq Raw
  /\ Starts \subseteq Directory
  /\ FirstTick \in Nat /\ MaxTick \in Nat /\ MaxAside \in Nat /\ MaxFails \in Nat

(* The uuid a send announces: that of the original, if there is one.       *)
Origin(o) == IF o.recv # NoUuid THEN o.recv ELSE o.id

(* A stream builds on what is, or was received as, the uuid it announces.  *)
KnownAs(o, u) == Same(o.id, u) \/ Same(o.recv, u)

(* What the backups are copies and differences of: uuids with their data.  *)
Announced ==
  {<<Origin(b), b.data>> : b \in Entries(Backups)}
    \cup UNION {{<<r.of, r.data>>, <<r.need, r.base>>} : r \in Entries(Raws)}

(* At first, no uuid stands for two data, and what the user may write to   *)
(* bears no received uuid: nothing but a `property set ro false' by hand   *)
(* makes a subvolume that does.                                            *)
ASSUME DataAssumption ==
  /\ \A x, y \in Announced : x[1] <= FirstTick /\ (Same(x[1], y[1]) => x[2] = y[2])
  /\ \A d \in Starts :
       /\ \A o \in InDir(d) : ~o.ro /\ o.data # Garbage => o.recv = NoUuid
       /\ LET E == {o \in InDir(d) : o.ro} \cup Entries(Snapshots) \cup Entries(Backups)
          IN  /\ \A a, b \in E : Correlated(a, b) => a.data = b.data
              /\ \A a \in E, x \in Announced : KnownAs(a, x[1]) => a.data = x[2]
       /\ \A o \in InDir(d) \cup Entries(Snapshots) \cup Entries(Backups) : o.recv <= FirstTick

VARIABLES
  dir,      \* dest's directory
  later,    \* the snapshots of dest the user has taken since
  tick,     \* the last id issued
  fails,    \* failures and kills so far
  step,     \* the call the command makes next, "idle" without a command
  route, backup, dest, force,  \* the command: where the backup is, its name, dest
  selection,   \* the parent and clone sources of a transfer back
  moved,    \* moved_aside: the path dest is to be moved to
  result    \* how the last command ended

request == <<route, backup, dest, force>>
rvars == <<dir, later, tick, fails, step, request, selection, moved, result>>

NoSelection == [parent |-> NoSub, clones |-> {}]

Steps == {"rename", "choose", "receive", "receiving", "rawReceive", "rawReceiving",
          "writable", "clean"}

Selection == [parent : Object \cup {NoSub}, clones : SUBSET Object]

Values ==
  /\ dir \in Directory /\ later \subseteq Object
  /\ tick \in Nat /\ fails \in Nat
  /\ step \in Steps \cup {"idle"}
  /\ route \in {"local", "drive", "raw"}
  /\ backup \in Roots /\ dest \in Live /\ force \in BOOLEAN
  /\ selection \in Selection
  /\ moved \in Paths \cup {Nothing}
  /\ result \in {"none", "ok", "error", "killed"}

(* What make_writable is to copy is there.                                 *)
HasSource ==
  step \in {"receiving", "rawReceiving", "writable", "clean"} =>
    \/ route = "local" /\ backup \in DOMAIN Snapshots
    \/ route # "local" /\ IsSubvol(dir[<<backup, 0>>])

(* The types, and that no call is made without what it works on.           *)
RestoreTypeOK == Values /\ (step = "rename" => moved # Nothing) /\ HasSource

AnyName == CHOOSE n \in Roots : TRUE
AnyDest == CHOOSE n \in Live : TRUE

Init ==
  /\ dir \in Starts /\ later = {} /\ tick = FirstTick /\ fails = 0
  /\ step = "idle"
  /\ route = "local" /\ backup = AnyName /\ dest = AnyDest /\ force = FALSE
  /\ selection = NoSelection /\ moved = Nothing /\ result = "none"

Request(r, b, d, f) == route' = r /\ backup' = b /\ dest' = d /\ force' = f

Finish(r) ==
  /\ step' = "idle" /\ result' = r
  /\ Request("local", AnyName, AnyDest, FALSE)
  /\ selection' = NoSelection /\ moved' = Nothing

Goto(s) == step' = s /\ UNCHANGED <<request, selection, moved, result>>

Fault == fails < MaxFails /\ fails' = fails + 1

Issue == tick < MaxTick /\ tick' = tick + 1

-----------------------------------------------------------------------------
(* The directory and what lies around it.                                  *)

Dest == <<dest, 0>>
Staging == <<backup, 0>>

Put(p, o) == dir' = [dir EXCEPT ![p] = o]

(* move_aside_target: the first .broken path that is free.                 *)
AsideFirst(d) == {<<d, 1>>}        \* faulty variant: a taken path is not stepped over

FreeAside(d) == {<<d, k>> : k \in {j \in 1 .. MaxAside :
                   dir[<<d, j>>] = Nothing /\ \A i \in 1 .. j - 1 : dir[<<d, i>>] # Nothing}}

(* What the two listings of choose_transfer_back_parent return.            *)
SendSide == Entries(Backups)
ReceiveSide == InDir(dir) \cup Entries(Snapshots) \cup later

(* The copies on this filesystem a stream with parent uuid u applies to.   *)
BaseOf(u) == {q \in ReceiveSide : q.ro /\ KnownAs(q, u)}

NewSubvol == [id |-> tick + 1, parent |-> NoUuid, recv |-> NoUuid, ro |-> FALSE,
              data |-> Garbage, holds |-> {}]

-----------------------------------------------------------------------------
(* The user, on any writable subvolume with data of its own.               *)

Mine(n) == step # "idle" /\ (n = dest \/ n = backup)

Writable(n) ==
  LET o == dir[<<n, 0>>] IN IsSubvol(o) /\ ~o.ro /\ o.data # Garbage /\ ~Mine(n)

Work(n) ==
  /\ Writable(n)
  /\ Put(<<n, 0>>, [dir[<<n, 0>>] EXCEPT !.data = Edited])
  /\ UNCHANGED <<later, tick, fails, step, request, selection, moved, result>>

(* A read-only snapshot keeps the received uuid of its source.             *)
TakeSnapshot(n) ==
  /\ Writable(n)
  /\ Issue
  /\ later' = later \cup {[dir[<<n, 0>>] EXCEPT !.id = tick + 1, !.parent = dir[<<n, 0>>].id,
                                                !.ro = TRUE, !.holds = {}]}
  /\ UNCHANGED <<dir, fails, step, request, selection, moved, result>>

-----------------------------------------------------------------------------
(* The command begins: the metadata is read and dest looked at.            *)

Exists(d) == dir[<<d, 0>>] # Nothing

Known(r, b) == b \in DOMAIN (CASE r = "local" -> Snapshots
                               [] r = "drive" -> Backups
                               [] r = "raw" -> Raws)

(* DestinationExists, or --force with a raw stream (UsageError).           *)
Refuse(r, b, d, f) ==
  /\ step = "idle" /\ Known(r, b)
  /\ IF r = "raw" THEN f ELSE Exists(d) /\ ~f
  /\ result' = "error"
  /\ UNCHANGED <<dir, later, tick, fails, step, request, selection, moved>>

Accepted(r, b, d, f) ==
  /\ step = "idle" /\ Known(r, b)
  /\ IF r = "raw" THEN ~f ELSE Exists(d) => f /\ FreeAside(d) # {}

DryRun(r, b, d, f) ==
  /\ Accepted(r, b, d, f)
  /\ result' = "none"
  /\ UNCHANGED <<dir, later, tick, fails, step, request, selection, moved>>

AfterRenameDone(r) ==     \* faulty variant: the raw stream is not received first
  IF r = "drive" THEN "choose" ELSE "writable"

AfterRename(r) == CASE r = "local" -> "writable" [] r = "drive" -> "choose" [] r = "raw" -> "rawReceive"

BeginInPlace(r, b, d, f) ==    \* faulty variant: dest is not moved aside
  /\ Accepted(r, b, d, f)
  /\ Request(r, b, d, f)
  /\ step' = AfterRename(r)
  /\ result' = "none"
  /\ UNCHANGED <<dir, later, tick, fails, selection, moved>>

Begin(r, b, d, f) ==
  /\ Accepted(r, b, d, f)
  /\ Request(r, b, d, f)
  /\ IF r # "raw" /\ Exists(d) THEN moved' \in FreeAside(d) /\ step' = "rename"
                               ELSE step' = AfterRename(r) /\ UNCHANGED moved
  /\ result' = "none"
  /\ UNCHANGED <<dir, later, tick, fails, selection>>

-----------------------------------------------------------------------------
(* RestoreService::restore past its checks.                                *)

MoveAside ==
  /\ step = "rename"
  /\ dir' = [dir EXCEPT ![moved] = dir[Dest], ![Dest] = Nothing]
  /\ Goto(AfterRename(route))
  /\ UNCHANGED <<later, tick, fails>>

ChooseParent ==
  /\ step = "choose"
  /\ selection' = BestParent(Backups[backup], SendSide, ReceiveSide, "yes")
  /\ step' = "receive"
  /\ UNCHANGED <<dir, later, tick, fails, request, moved, result>>

ReceiveStarts ==
  /\ \/ step = "receive" /\ Goto("receiving")
     \/ step = "rawReceive" /\ Goto("rawReceiving")
        /\ (Raws[backup].need # NoUuid => BaseOf(Raws[backup].need) # {})
  /\ dir[Staging] = Nothing
  /\ Issue /\ Put(Staging, NewSubvol)
  /\ UNCHANGED <<later, fails>>

Received(parent, recv, data) ==
  Put(Staging, [dir[Staging] EXCEPT !.parent = parent, !.recv = recv, !.ro = TRUE, !.data = data])

(* The stream is complete, the copy read-only and stamped.  A difference   *)
(* gives the data only over the right base.                                *)
ReceiveEnds ==
  /\ step = "receiving"
  /\ LET b == Backups[backup]
         p == selection.parent
     IN  \/ p = NoSub /\ Received(NoUuid, Origin(b), b.data)
         \/ /\ p # NoSub
            /\ \E q \in BaseOf(Origin(p)) :
                 Received(q.id, Origin(b), IF q.data = p.data THEN b.data ELSE Garbage)
  /\ Goto("writable")
  /\ UNCHANGED <<later, tick, fails>>

(* A pipe that fails: what it received is deleted if it is garbled and the *)
(* delete succeeds; one already stamped is left.                           *)
ReceiveFails ==
  /\ step = "receiving" /\ Fault
  /\ \/ Put(Staging, Nothing)
     \/ UNCHANGED dir
     \/ Put(Staging, [dir[Staging] EXCEPT !.recv = Origin(Backups[backup])])
  /\ Finish("error")
  /\ UNCHANGED <<later, tick>>

(* The name is taken: nothing is received, and what is there is inspected  *)
(* as if it were the result.                                               *)
CleanupAnything(o) == IsSubvol(o)          \* faulty variant: deleted unless it verifies

CleanupDue(o) == IsSubvol(o) /\ Garbled(o)

ReceiveBlocked ==
  /\ step = "receive" /\ dir[Staging] # Nothing
  /\ IF CleanupDue(dir[Staging]) THEN Put(Staging, Nothing) ELSE UNCHANGED dir
  /\ Finish("error")
  /\ UNCHANGED <<later, tick, fails>>

-----------------------------------------------------------------------------
(* A raw stream: restore_raw_pipeline receives it, and cleans nothing up.  *)

RawReceiveEnds ==
  /\ step = "rawReceiving"
  /\ LET r == Raws[backup] IN
       \/ r.need = NoUuid /\ Received(NoUuid, r.of, r.data)
       \/ \E q \in BaseOf(r.need) :
            Received(q.id, r.of, IF q.data = r.base THEN r.data ELSE Garbage)
  /\ Goto("writable")
  /\ UNCHANGED <<later, tick, fails>>

RawReceiveFails ==
  /\ \/ /\ step = "rawReceiving" /\ Fault
        /\ (UNCHANGED dir \/ Put(Staging, [dir[Staging] EXCEPT !.recv = Raws[backup].of]))
     \/ /\ step = "rawReceive" /\ UNCHANGED <<dir, fails>>
        /\ \/ dir[Staging] # Nothing
           \/ Raws[backup].need # NoUuid /\ BaseOf(Raws[backup].need) = {}
  /\ Finish("error")
  /\ UNCHANGED <<later, tick>>

-----------------------------------------------------------------------------
(* make_writable: `btrfs subvolume snapshot source dest`, then a look at   *)
(* dest.  It never inherits the received uuid.                             *)

Source == IF route = "local" THEN Snapshots[backup] ELSE dir[Staging]

CopyStamped ==          \* faulty variant: property set ro false where nothing checks
  [NewSubvol EXCEPT !.parent = Source.id, !.data = Source.data,
                    !.recv = IF route = "raw" THEN Source.recv ELSE NoUuid]

Copy == [NewSubvol EXCEPT !.parent = Source.id, !.data = Source.data]

AfterCopyDone ==        \* faulty variant: the staging copy is left
  IF route # "raw" /\ Copy.recv # NoUuid THEN Finish("error") ELSE Finish("ok")

(* NotCleanWritable; a raw restore does not check.                         *)
AfterCopy ==
  IF route # "raw" /\ Copy.recv # NoUuid THEN Finish("error")
  ELSE IF route = "local" THEN Finish("ok") ELSE Goto("clean")

MakeWritable ==
  /\ step = "writable" /\ dir[Dest] = Nothing
  /\ Issue /\ Put(Dest, Copy)
  /\ AfterCopy
  /\ UNCHANGED <<later, fails>>

(* dest exists: only a raw restore gets here with somebody else's.  btrfs  *)
(* makes the snapshot inside it, and the look at dest finds what was there.*)
Nests == route = "raw" /\ dest # backup /\ dir[Dest] # Nothing
         /\ ~dir[Dest].ro /\ backup \notin dir[Dest].holds

MakeNested ==
  /\ step = "writable" /\ Nests
  /\ Put(Dest, [dir[Dest] EXCEPT !.holds = @ \cup {backup}])
  /\ IF IsSubvol(dir[Dest]) THEN Goto("clean") ELSE Finish("error")
  /\ UNCHANGED <<later, tick, fails>>

(* It cannot be made, or it is made and cannot be shown.                   *)
WritableFails ==
  /\ step = "writable"
  /\ \/ dir[Dest] # Nothing /\ ~Nests /\ UNCHANGED <<dir, tick, fails>>
     \/ dir[Dest] = Nothing /\ Fault /\ Issue /\ Put(Dest, Copy)
  /\ Finish("error")
  /\ UNCHANGED later

DeleteStaging ==
  /\ step = "clean"
  /\ Put(Staging, Nothing)
  /\ Finish("ok")
  /\ UNCHANGED <<later, tick, fails>>

(* A call that fails without effect, or a kill at any call.                *)
CallFails ==
  /\ step \in Steps \ {"receiving", "rawReceiving"} /\ Fault
  /\ Finish("error")
  /\ UNCHANGED <<dir, later, tick>>

Killed ==
  /\ step # "idle" /\ Fault
  /\ Finish("killed")
  /\ UNCHANGED <<dir, later, tick>>

-----------------------------------------------------------------------------
Start(r, b, d, f) == Begin(r, b, d, f) \/ Refuse(r, b, d, f) \/ DryRun(r, b, d, f)

Go == \/ MoveAside \/ ChooseParent
      \/ ReceiveStarts \/ ReceiveEnds \/ ReceiveFails \/ ReceiveBlocked
      \/ RawReceiveEnds \/ RawReceiveFails
      \/ MakeWritable \/ MakeNested \/ WritableFails \/ DeleteStaging
      \/ CallFails \/ Killed

User == \E n \in Live : Work(n) \/ TakeSnapshot(n)

Next ==
  \/ \E r \in {"local", "drive", "raw"}, b \in Roots, d \in Live, f \in BOOLEAN : Start(r, b, d, f)
  \/ Go
  \/ User

Spec == Init /\ [][Next]_rvars

-----------------------------------------------------------------------------
(* Properties                                                              *)

Everything == {o \in InDir(dir) : o.ro} \cup Entries(Snapshots) \cup Entries(Backups) \cup later

(* What every incremental send rests on: two subvolumes that correlate     *)
(* hold the same data.  No restore, whatever fails in it, and no work on   *)
(* or snapshot of what it made ever breaks this (invariant 7).             *)
CorrelatedHoldTheSame ==
  \A a, b \in Everything : Correlated(a, b) => a.data = b.data

(* What was moved aside stays where it is and as it is.                    *)
AsideStays ==
  [][\A p \in Paths : p[2] > 0 /\ dir[p] # Nothing => dir'[p] = dir[p]]_rvars

Survives(p) == \E q \in Paths : dir'[q] # Nothing /\ dir'[q].id = dir[p].id

(* Nothing complete ever leaves the directory but the command's own        *)
(* staging copy, once dest exists - and a writable subvolume under the     *)
(* very name of the backup that is being sent back.                        *)
OnlyStagingGoes ==
  [][\A p \in Paths : dir[p] # Nothing /\ dir[p].data # Garbage /\ ~Survives(p) =>
       /\ p = Staging
       /\ \/ step = "clean" /\ dir[Dest] # Nothing /\ dest # backup
          \/ step = "receive" /\ ~dir[p].ro]_rvars

Wanted == CASE route = "local" -> Snapshots[backup].data
            [] route = "drive" -> Backups[backup].data
            [] route = "raw" -> Raws[backup].data

Succeeds == step # "idle" /\ step' = "idle" /\ result' = "ok"

IsRestored(o) == IsSubvol(o) /\ ~o.ro /\ o.data = Wanted

StagingGone == route # "local" => dir'[Staging] = Nothing

(* What the manual page promises (an existing DEST is refused without      *)
(* --force): a restore that reports success has put a writable subvolume   *)
(* with the backup's data at dest, and has left no staging copy.           *)
ReportedIsRestored == [][Succeeds => IsRestored(dir'[Dest]) /\ StagingGone]_rvars

MadeInside(o) == route = "raw" /\ backup \in o.holds

(* What the code keeps of it: the same of every restore of a snapshot or a *)
(* backup, but of a raw stream only when its copy was made at dest and not *)
(* inside a subvolume that was there (ReportedIsRestored is without that   *)
(* exception; restore_onto_dest refutes it).                               *)
NewDestIsRestored ==
  [][Succeeds => (MadeInside(dir'[Dest]) \/ IsRestored(dir'[Dest])) /\ StagingGone]_rvars

(* When nothing fails, a restore succeeds, unless the name its staging     *)
(* copy needs is taken or is dest's own, or the parent of a raw stream is  *)
(* not on this filesystem.                                                 *)
FailsOnlyWhenBlocked ==
  [][step # "idle" /\ step' = "idle" /\ result' = "error" /\ fails' = fails =>
       \/ route # "local" /\ (dest = backup \/ (step # "writable" /\ dir[Staging] # Nothing))
       \/ route = "raw" /\ (dir[Dest] # Nothing \/ BaseOf(Raws[backup].need) = {})]_rvars
=============================================================================
