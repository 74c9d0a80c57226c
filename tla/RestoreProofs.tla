---------------------------- MODULE RestoreProofs ----------------------------
(***************************************************************************)
(* What a restore may never do to the directory it works in, whatever is   *)
(* in there, whatever the backups are and however many calls fail.         *)
(***************************************************************************)
EXTENDS Restore, SubvolumesProofs

-----------------------------------------------------------------------------
(* The inductive invariant: the types, and what a command that is under    *)
(* way may rely on.  The directory is the user's too, but nothing happens  *)
(* to the two names the command works under.                               *)
Doing ==
  /\ step # "idle" => Known(route, backup)
  /\ step = "rename" =>
       /\ route # "raw" /\ moved \in Paths /\ moved[2] > 0 /\ dir[moved] = Nothing
  /\ step \in {"choose", "receive", "receiving"} => route = "drive"
  /\ step \in {"rawReceive", "rawReceiving"} => route = "raw"
  /\ step \in {"receiving", "rawReceiving"} => dir[Staging].data = Garbage
  /\ step = "clean" => route # "local" /\ dest # backup /\ dir[Dest] # Nothing

RestoreInv == RestoreTypeOK /\ Doing

-----------------------------------------------------------------------------
(* Paths, and what is put there.                                           *)
LEMMA NamePaths ==
  ASSUME RestoreTypeOK
  PROVE  /\ Dest \in Paths /\ Staging \in Paths
         /\ \A n \in Live : <<n, 0>> \in Paths
         /\ Dest[2] = 0 /\ Staging[2] = 0
BY RestoreAssumption DEF RestoreTypeOK, Values, Dest, Staging, Paths

LEMMA AsidePaths ==
  ASSUME NEW d \in Live, NEW p \in FreeAside(d)
  PROVE  p \in Paths /\ p[2] > 0 /\ dir[p] = Nothing /\ p # Nothing
<1>1. PICK k \in 1 .. MaxAside : p = <<d, k>> /\ dir[<<d, k>>] = Nothing
  BY DEF FreeAside
<1>2. p \in Paths /\ p[2] > 0
  BY <1>1, RestoreAssumption DEF Paths
<1>3. p # Nothing
  BY <1>2, RestoreAssumption DEF Nothing
<1> QED
  BY <1>1, <1>2, <1>3

(* What the metadata read at the start is of.                              *)
LEMMA Entry ==
  ASSUME RestoreTypeOK, step # "idle" => Known(route, backup), step # "idle"
  PROVE  /\ route = "local" => backup \in DOMAIN Snapshots /\ Snapshots[backup] \in Object
         /\ route = "drive" => backup \in DOMAIN Backups /\ Backups[backup] \in Object
         /\ route = "raw" => backup \in DOMAIN Raws /\ Raws[backup] \in Raw
BY RestoreAssumption DEF Known, Entries, RestoreTypeOK, Values

LEMMA RestoreInitInv == Init => RestoreInv
<1> SUFFICES ASSUME Init PROVE RestoreInv
  OBVIOUS
<1>1. AnyDest \in Live /\ AnyName \in Roots
  BY RestoreAssumption DEF AnyDest, AnyName
<1>2. RestoreTypeOK
  BY <1>1, RestoreAssumption DEF Init, RestoreTypeOK, Values, HasSource, NoSelection, Selection
<1>3. Doing
  BY DEF Init, Doing
<1> QED
  BY <1>2, <1>3 DEF RestoreInv

-----------------------------------------------------------------------------
(* A command that ends, or one more call that changes nothing else: what   *)
(* is left to show is the directory's type.                                *)
LEMMA FinishInv ==
  ASSUME RestoreTypeOK, NEW r \in {"ok", "error", "killed"}, Finish(r),
         dir' \in Directory, later' \subseteq Object, tick' \in Nat, fails' \in Nat
  PROVE  RestoreInv'
<1>1. AnyDest \in Live /\ AnyName \in Roots
  BY RestoreAssumption DEF AnyDest, AnyName
<1>2. selection' \in Selection
  BY DEF Finish, NoSelection, Selection
<1>3. step' = "idle" /\ result' = r /\ moved' = Nothing /\ route' = "local" /\ backup' = AnyName
      /\ dest' = AnyDest /\ force' = FALSE
  BY DEF Finish, Request
<1>4. Values'
  BY <1>1, <1>2, <1>3 DEF Values
<1>5. HasSource' /\ Doing' /\ step' # "rename"
  BY <1>3 DEF HasSource, Doing
<1> QED
  BY <1>4, <1>5 DEF RestoreInv, RestoreTypeOK

LEMMA PutInv ==
  ASSUME RestoreTypeOK, NEW p \in Paths, NEW o \in Object \cup {Nothing}, Put(p, o)
  PROVE  /\ dir' \in Directory
         /\ dir'[p] = o
         /\ \A q \in Paths : q # p => dir'[q] = dir[q]
BY DEF Put, RestoreTypeOK, Values, Directory

(* A subvolume that is worked on, snapshotted, received or filled.         *)
LEMMA EditedObject ==
  ASSUME NEW o \in Object, NEW w \in Nat
  PROVE  [o EXCEPT !.data = w] \in Object /\ [o EXCEPT !.data = w].id = o.id
BY DEF Object

LEMMA FilledObject ==
  ASSUME NEW o \in Object, NEW n \in Roots
  PROVE  [o EXCEPT !.holds = @ \cup {n}] \in Object /\ [o EXCEPT !.holds = @ \cup {n}].id = o.id
BY DEF Object

LEMMA StampedObject ==
  ASSUME NEW o \in Object, NEW v \in Nat
  PROVE  [o EXCEPT !.recv = v] \in Object /\ [o EXCEPT !.recv = v].id = o.id
BY DEF Object

LEMMA SnapshotObject ==
  ASSUME NEW o \in Object, NEW t \in Nat, NEW p \in Nat
  PROVE  [o EXCEPT !.id = t, !.parent = p, !.ro = TRUE, !.holds = {}] \in Object
<1>1. [o EXCEPT !.id = t] \in Object
  BY DEF Object
<1> QED
  BY <1>1 DEF Object

LEMMA NewObject ==
  ASSUME tick \in Nat
  PROVE  NewSubvol \in Object /\ IsSubvol(NewSubvol) /\ NewSubvol.data = Garbage
<1>1. tick + 1 \in Nat /\ 0 \in Nat /\ {} \in SUBSET Roots /\ FALSE \in BOOLEAN
  OBVIOUS
<1>2. NewSubvol \in Object
  BY <1>1 DEF NewSubvol, Object, NoUuid, Garbage
<1>3. NewSubvol.id = tick + 1 /\ NewSubvol.data = Garbage
  BY DEF NewSubvol
<1> QED
  BY <1>1, <1>2, <1>3, RestoreAssumption DEF IsSubvol, Nothing, NoUuid

LEMMA CopiedObject ==
  ASSUME NEW o \in Object, NEW p \in Nat, NEW w \in Nat
  PROVE  /\ [o EXCEPT !.parent = p, !.data = w] \in Object
         /\ [o EXCEPT !.parent = p, !.data = w].id = o.id
         /\ [o EXCEPT !.parent = p, !.data = w].recv = o.recv
BY DEF Object

LEMMA CopyObject ==
  ASSUME tick \in Nat, Source \in Object
  PROVE  Copy \in Object /\ IsSubvol(Copy) /\ Copy.recv = NoUuid
<1>1. NewSubvol \in Object /\ NewSubvol.id = tick + 1 /\ NewSubvol.recv = NoUuid
  <2>1. NewSubvol.id = tick + 1 /\ NewSubvol.recv = NoUuid
    BY DEF NewSubvol
  <2> QED
    BY <2>1, NewObject
<1>2. Source.id \in Nat /\ Source.data \in Nat
  BY DEF Object
<1>3. Copy \in Object /\ Copy.id = tick + 1 /\ Copy.recv = NoUuid
  <2> DEFINE p == Source.id  w == Source.data
  <2>1. Copy = [NewSubvol EXCEPT !.parent = p, !.data = w]
    BY DEF Copy
  <2>2. p \in Nat /\ w \in Nat
    BY <1>2
  <2> HIDE DEF p, w
  <2> QED
    BY <1>1, <2>1, <2>2, CopiedObject
<1>4. tick + 1 # NoUuid
  BY DEF NoUuid
<1> QED
  BY <1>3, <1>4, RestoreAssumption DEF IsSubvol, Nothing

LEMMA NextRestoreTypes == RestoreInv /\ [Next]_rvars => RestoreInv'
<1> SUFFICES ASSUME RestoreInv, [Next]_rvars PROVE RestoreInv'
  OBVIOUS
<1> USE RestoreAssumption DEF RestoreInv
<1>0. /\ Dest \in Paths /\ Staging \in Paths
      /\ \A n \in Live : <<n, 0>> \in Paths
  BY NamePaths
<1>a. /\ tick \in Nat /\ fails \in Nat /\ later \subseteq Object /\ dest \in Live /\ backup \in Roots
      /\ dir \in Directory /\ selection \in Selection /\ step \in Steps \cup {"idle"}
      /\ moved \in Paths \cup {Nothing} /\ route \in {"local", "drive", "raw"}
  BY DEF RestoreTypeOK, Values
<1>b. step # "idle" => /\ Known(route, backup)
                       /\ route = "local" => backup \in DOMAIN Snapshots /\ Snapshots[backup] \in Object
                       /\ route = "drive" => backup \in DOMAIN Backups /\ Backups[backup] \in Object
                       /\ route = "raw" => backup \in DOMAIN Raws /\ Raws[backup] \in Raw
  BY Entry DEF Doing
<1>c. \A p \in Paths : dir[p] # Nothing => dir[p] \in Object
  BY <1>a DEF Directory
<1>d. Nothing \notin Object
  BY DEF Nothing
<1>1. ASSUME NEW n \in Live, Work(n) PROVE RestoreInv'
  <2>1. /\ IsSubvol(dir[<<n, 0>>]) /\ Put(<<n, 0>>, [dir[<<n, 0>>] EXCEPT !.data = Edited])
        /\ (step # "idle" => n # dest /\ n # backup)
        /\ UNCHANGED <<later, tick, fails, step, route, backup, dest, force, selection, moved, result>>
    BY <1>1 DEF Work, Writable, Mine, request
  <2>2. [dir[<<n, 0>>] EXCEPT !.data = Edited] \in Object
    BY <1>0, <1>c, <2>1, EditedObject DEF Edited, IsSubvol
  <2>3. /\ dir' \in Directory
        /\ \A q \in Paths : q # <<n, 0>> => dir'[q] = dir[q]
    BY <1>0, <2>1, <2>2, PutInv
  <2>4. /\ step # "idle" => dir'[Dest] = dir[Dest] /\ dir'[Staging] = dir[Staging]
        /\ step = "rename" => dir'[moved] = dir[moved]
    BY <1>0, <2>1, <2>3 DEF Dest, Staging, Doing
  <2>5. Values'
    BY <2>1, <2>3 DEF RestoreTypeOK, Values
  <2>6. HasSource'
    BY <2>1, <2>4 DEF RestoreTypeOK, HasSource, Staging
  <2>7. Doing'
    BY <2>1, <2>4 DEF Doing, Known, Dest, Staging
  <2> QED
    BY <2>1, <2>5, <2>6, <2>7 DEF RestoreTypeOK
<1>2. ASSUME NEW n \in Live, TakeSnapshot(n) PROVE RestoreInv'
  <2> DEFINE o == [dir[<<n, 0>>] EXCEPT !.id = tick + 1, !.parent = dir[<<n, 0>>].id,
                                       !.ro = TRUE, !.holds = {}]
  <2>1. /\ IsSubvol(dir[<<n, 0>>]) /\ tick' = tick + 1 /\ later' = later \cup {o}
        /\ UNCHANGED <<dir, fails, step, route, backup, dest, force, selection, moved, result>>
    BY <1>2 DEF TakeSnapshot, Writable, Issue, request
  <2>2. o \in Object
    <3>1. dir[<<n, 0>>] \in Object
      BY <1>0, <1>c, <2>1 DEF IsSubvol
    <3>2. dir[<<n, 0>>].id \in Nat /\ tick + 1 \in Nat
      BY <1>a, <3>1 DEF Object
    <3> QED
      BY <3>1, <3>2, SnapshotObject
  <2> HIDE DEF o
  <2>3. Values'
    BY <1>a, <2>1, <2>2 DEF RestoreTypeOK, Values
  <2>4. HasSource' /\ Doing'
    BY <2>1 DEF RestoreTypeOK, HasSource, Doing, Known, Dest, Staging
  <2> QED
    BY <2>1, <2>3, <2>4 DEF RestoreTypeOK
<1>3. ASSUME NEW r \in {"local", "drive", "raw"}, NEW b \in Roots, NEW d \in Live, NEW f \in BOOLEAN,
             Refuse(r, b, d, f) \/ DryRun(r, b, d, f)
      PROVE  RestoreInv'
  <2>1. /\ result' \in {"error", "none"}
        /\ UNCHANGED <<dir, later, tick, fails, step, route, backup, dest, force, selection, moved>>
    BY <1>3 DEF Refuse, DryRun, Accepted, request
  <2> QED
    BY <2>1 DEF RestoreTypeOK, Values, HasSource, Doing, Known, Dest, Staging
<1>4. ASSUME NEW r \in {"local", "drive", "raw"}, NEW b \in Roots, NEW d \in Live, NEW f \in BOOLEAN,
             Begin(r, b, d, f)
      PROVE  RestoreInv'
  <2>1. /\ route' = r /\ backup' = b /\ dest' = d /\ force' = f /\ Known(r, b) /\ result' = "none"
        /\ UNCHANGED <<dir, later, tick, fails, selection>>
    BY <1>4 DEF Begin, Accepted, Request
  <2>2. \/ r # "raw" /\ moved' \in FreeAside(d) /\ step' = "rename"
        \/ step' = AfterRename(r) /\ moved' = moved
    BY <1>4 DEF Begin
  <2>3. AfterRename(r) = IF r = "local" THEN "writable" ELSE IF r = "drive" THEN "choose" ELSE "rawReceive"
    BY DEF AfterRename
  <2>4. step' = "rename" => /\ moved' \in Paths /\ moved'[2] > 0 /\ dir[moved'] = Nothing /\ moved' # Nothing
                            /\ r # "raw"
    BY <2>2, <2>3, AsidePaths
  <2>5. Known(route, backup)'
    BY <2>1 DEF Known
  <2>6. r = "local" => b \in DOMAIN Snapshots
    BY <2>1 DEF Known
  <2>7. moved' \in Paths \cup {Nothing} /\ step' \in {"rename", "writable", "choose", "rawReceive"}
        /\ (step' = "writable" => r = "local") /\ (step' = "choose" => r = "drive")
        /\ (step' = "rawReceive" => r = "raw")
    BY <1>a, <2>2, <2>3, <2>4
  <2>8. Values'
    BY <2>1, <2>7 DEF RestoreTypeOK, Values, Steps
  <2>9. HasSource' /\ Doing'
    BY <2>1, <2>4, <2>5, <2>6, <2>7 DEF HasSource, Doing
  <2> QED
    BY <2>4, <2>8, <2>9 DEF RestoreTypeOK
<1>5. CASE MoveAside
  <2>1. /\ step = "rename" /\ step' = AfterRename(route) /\ route # "raw" /\ moved \in Paths
        /\ dir' = [dir EXCEPT ![moved] = dir[Dest], ![Dest] = Nothing]
        /\ UNCHANGED <<later, tick, fails, route, backup, dest, force, selection, moved, result>>
    BY <1>5 DEF MoveAside, Goto, request, Doing
  <2>2. step' \in {"writable", "choose"} /\ (step' = "writable" <=> route = "local")
    BY <1>a, <2>1 DEF AfterRename
  <2>3. dir' \in Directory
    BY <1>0, <1>a, <2>1 DEF Directory
  <2>4. Values'
    BY <1>a, <2>1, <2>2, <2>3 DEF RestoreTypeOK, Values, Steps
  <2>5. HasSource' /\ Doing'
    BY <1>a, <1>b, <2>1, <2>2 DEF HasSource, Doing, Known
  <2> QED
    BY <2>2, <2>4, <2>5 DEF RestoreTypeOK
<1>6. CASE ChooseParent
  <2>1. /\ step = "choose" /\ step' = "receive" /\ route = "drive"
        /\ selection' = BestParent(Backups[backup], SendSide, ReceiveSide, "yes")
        /\ UNCHANGED <<dir, later, tick, fails, route, backup, dest, force, moved, result>>
    BY <1>6 DEF ChooseParent, request, Doing
  <2>2. \A o \in SendSide : o \in Object /\ o.id \in Nat /\ o.id <= FirstTick
    BY DEF SendSide, Object
  <2>3. /\ selection'.parent \in SendSide \cup {NoSub} /\ selection'.clones \subseteq SendSide
    BY <2>1, <2>2, BestParentOfIds
  <2>4. selection' = [parent |-> selection'.parent, clones |-> selection'.clones]
    BY <2>1 DEF BestParent
  <2>5. selection' \in Selection
    BY <2>2, <2>3, <2>4 DEF Selection
  <2>6. Values'
    BY <2>1, <2>5 DEF RestoreTypeOK, Values, Steps
  <2>7. HasSource' /\ Doing'
    BY <2>1 DEF HasSource, Doing, Known
  <2> QED
    BY <2>1, <2>6, <2>7 DEF RestoreTypeOK
<1>7. CASE ReceiveStarts
  <2>1. /\ \/ step = "receive" /\ step' = "receiving"
           \/ step = "rawReceive" /\ step' = "rawReceiving"
        /\ dir[Staging] = Nothing /\ tick' = tick + 1 /\ Put(Staging, NewSubvol)
        /\ UNCHANGED <<later, fails, route, backup, dest, force, selection, moved, result>>
    BY <1>7 DEF ReceiveStarts, Goto, Issue, request
  <2>2. NewSubvol \in Object /\ IsSubvol(NewSubvol) /\ NewSubvol.data = Garbage
    BY <1>a, NewObject
  <2>3. dir' \in Directory /\ dir'[Staging] = NewSubvol
    BY <1>0, <2>1, <2>2, PutInv
  <2>4. Values'
    BY <1>a, <2>1, <2>3 DEF RestoreTypeOK, Values, Steps
  <2>5. HasSource' /\ Doing'
    BY <2>1, <2>2, <2>3 DEF HasSource, Doing, Known, Staging
  <2> QED
    BY <2>1, <2>4, <2>5 DEF RestoreTypeOK
<1>8. ASSUME step \in {"receiving", "rawReceiving"}, Goto("writable"),
             NEW p \in Nat, NEW v \in Nat, NEW w \in Nat, Received(p, v, w),
             UNCHANGED <<later, tick, fails>>
      PROVE  RestoreInv'
  <2> DEFINE o == [dir[Staging] EXCEPT !.parent = p, !.recv = v, !.ro = TRUE, !.data = w]
  <2>1. IsSubvol(dir[Staging]) /\ route # "local"
    BY <1>8 DEF RestoreTypeOK, HasSource, Doing, Staging
  <2>2. o \in Object /\ IsSubvol(o)
    <3>1. dir[Staging] \in Object /\ dir[Staging].id # NoUuid
      BY <1>0, <1>c, <2>1 DEF IsSubvol
    <3>2. o \in Object /\ o.id = dir[Staging].id
      BY <3>1 DEF Object
    <3> QED
      BY <1>d, <3>1, <3>2 DEF IsSubvol
  <2>3. Put(Staging, o)
    BY <1>8 DEF Received
  <2> HIDE DEF o
  <2>4. dir' \in Directory /\ dir'[Staging] = o
    BY <1>0, <2>2, <2>3, PutInv
  <2>5. step' = "writable" /\ UNCHANGED <<route, backup, dest, force, selection, moved, result>>
    BY <1>8 DEF Goto, request
  <2>6. Values'
    BY <1>8, <1>a, <2>4, <2>5 DEF RestoreTypeOK, Values, Steps
  <2>7. HasSource' /\ Doing'
    BY <1>8, <2>1, <2>2, <2>4, <2>5 DEF HasSource, Doing, Known, Staging
  <2> QED
    BY <2>5, <2>6, <2>7 DEF RestoreTypeOK
<1>9. CASE ReceiveEnds
  <2>1. /\ step = "receiving" /\ Goto("writable") /\ UNCHANGED <<later, tick, fails>>
        /\ Backups[backup] \in Object
    BY <1>9, <1>b DEF ReceiveEnds, Doing
  <2>2. Origin(Backups[backup]) \in Nat /\ Backups[backup].data \in Nat
    BY <2>1 DEF Origin, Object
  <2>3. CASE Received(NoUuid, Origin(Backups[backup]), Backups[backup].data)
    BY <1>8, <2>1, <2>2, <2>3 DEF NoUuid
  <2>4. ASSUME NEW q \in BaseOf(Origin(selection.parent)),
               Received(q.id, Origin(Backups[backup]),
                        IF q.data = selection.parent.data THEN Backups[backup].data ELSE Garbage)
        PROVE  RestoreInv'
    <3>1. q \in Object
      BY <1>a, <1>c DEF BaseOf, ReceiveSide, InDir, IsSubvol
    <3>2. q.id \in Nat /\ (IF q.data = selection.parent.data THEN Backups[backup].data ELSE Garbage) \in Nat
      BY <2>2, <3>1 DEF Object, Garbage
    <3> QED
      BY <1>8, <2>1, <2>2, <2>4, <3>2
  <2> QED
    BY <1>9, <2>3, <2>4 DEF ReceiveEnds
<1>10. CASE RawReceiveEnds
  <2>1. /\ step = "rawReceiving" /\ Goto("writable") /\ UNCHANGED <<later, tick, fails>>
        /\ Raws[backup] \in Raw
    BY <1>10, <1>b DEF RawReceiveEnds, Doing
  <2>2. Raws[backup].of \in Nat /\ Raws[backup].data \in Nat
    BY <2>1 DEF Raw
  <2>3. CASE Received(NoUuid, Raws[backup].of, Raws[backup].data)
    BY <1>8, <2>1, <2>2, <2>3 DEF NoUuid
  <2>4. ASSUME NEW q \in BaseOf(Raws[backup].need),
               Received(q.id, Raws[backup].of,
                        IF q.data = Raws[backup].base THEN Raws[backup].data ELSE Garbage)
        PROVE  RestoreInv'
    <3>1. q \in Object
      BY <1>a, <1>c DEF BaseOf, ReceiveSide, InDir, IsSubvol
    <3>2. q.id \in Nat /\ (IF q.data = Raws[backup].base THEN Raws[backup].data ELSE Garbage) \in Nat
      BY <2>2, <3>1 DEF Object, Garbage
    <3> QED
      BY <1>8, <2>1, <2>2, <2>4, <3>2
  <2> QED
    BY <1>10, <2>3, <2>4 DEF RawReceiveEnds
<1>11. ASSUME NEW r \in {"ok", "error", "killed"}, Finish(r), later' = later, tick' \in Nat, fails' \in Nat,
              \/ dir' = dir
              \/ \E p \in Paths, o \in Object \cup {Nothing} : Put(p, o)
       PROVE  RestoreInv'
  <2>1. dir' \in Directory
    BY <1>11, <1>a, PutInv
  <2> QED
    BY <1>11, <1>a, <2>1, FinishInv
<1>12. CASE ReceiveFails \/ RawReceiveFails
  <2>1. ASSUME NEW v \in Nat, step \in {"receiving", "rawReceiving"}
        PROVE  [dir[Staging] EXCEPT !.recv = v] \in Object
    <3>1. IsSubvol(dir[Staging])
      BY <2>1 DEF RestoreTypeOK, HasSource, Doing, Staging
    <3> QED
      BY <1>0, <1>c, <3>1, StampedObject DEF IsSubvol
  <2>2. step = "receiving" => Origin(Backups[backup]) \in Nat
    BY <1>b DEF Doing, Origin, Object
  <2>3. step = "rawReceiving" => Raws[backup].of \in Nat
    BY <1>b DEF Doing, Raw
  <2>4. /\ later' = later /\ tick' = tick /\ fails' \in Nat /\ Finish("error")
        /\ \/ dir' = dir
           \/ \E o \in Object \cup {Nothing} : Put(Staging, o)
    BY <1>12, <1>a, <2>1, <2>2, <2>3 DEF ReceiveFails, RawReceiveFails, Fault
  <2> QED
    BY <1>0, <1>11, <1>a, <2>4
<1>13. CASE ReceiveBlocked \/ CallFails \/ Killed \/ DeleteStaging
  BY <1>0, <1>11, <1>13, <1>a DEF ReceiveBlocked, CallFails, Killed, DeleteStaging, Fault
<1>14. step = "writable" => /\ Copy \in Object /\ IsSubvol(Copy) /\ Copy.recv = NoUuid
                            /\ (route # "local" => IsSubvol(dir[Staging]))
  <2> SUFFICES ASSUME step = "writable"
               PROVE  /\ Copy \in Object /\ IsSubvol(Copy) /\ Copy.recv = NoUuid
                      /\ (route # "local" => IsSubvol(dir[Staging]))
    OBVIOUS
  <2>1. route # "local" => IsSubvol(dir[Staging])
    BY DEF RestoreTypeOK, HasSource, Staging
  <2>2. Source \in Object
    BY <1>0, <1>b, <1>c, <2>1 DEF Source, IsSubvol
  <2> QED
    BY <1>a, <2>1, <2>2, CopyObject
<1>15. CASE MakeWritable
  <2>1. /\ step = "writable" /\ dir[Dest] = Nothing /\ tick' = tick + 1 /\ Put(Dest, Copy)
        /\ AfterCopy /\ UNCHANGED <<later, fails>>
    BY <1>15 DEF MakeWritable, Issue
  <2>2. CASE route = "local"
    <3>1. Finish("ok")
      BY <1>14, <2>1, <2>2 DEF AfterCopy
    <3> QED
      BY <1>0, <1>11, <1>14, <1>a, <2>1, <3>1
  <2>3. CASE route # "local"
    <3>1. step' = "clean" /\ UNCHANGED <<route, backup, dest, force, selection, moved, result>>
      BY <1>14, <2>1, <2>3 DEF AfterCopy, Goto, request
    <3>2. /\ dir' \in Directory /\ dir'[Dest] = Copy
          /\ \A q \in Paths : q # Dest => dir'[q] = dir[q]
      BY <1>0, <1>14, <2>1, PutInv
    <3>3. IsSubvol(dir[Staging])
      BY <1>14, <2>1, <2>3
    <3>4. dest # backup /\ Staging # Dest
      BY <2>1, <3>3 DEF Staging, Dest, IsSubvol
    <3>5. IsSubvol(dir'[Staging]) /\ dir'[Dest] # Nothing
      BY <1>0, <1>14, <2>1, <3>2, <3>3, <3>4 DEF IsSubvol
    <3>6. Values'
      BY <1>a, <2>1, <3>1, <3>2 DEF RestoreTypeOK, Values, Steps
    <3>7. HasSource'
      BY <2>3, <3>1, <3>5 DEF HasSource, Staging
    <3>8. Doing'
      BY <1>b, <2>1, <2>3, <3>1, <3>4, <3>5 DEF Doing, Known, Dest
    <3> QED
      BY <3>1, <3>6, <3>7, <3>8 DEF RestoreTypeOK
  <2> QED
    BY <2>2, <2>3
<1>16. CASE MakeNested
  <2> DEFINE o == [dir[Dest] EXCEPT !.holds = @ \cup {backup}]
  <2>1. /\ step = "writable" /\ route = "raw" /\ dest # backup /\ dir[Dest] # Nothing /\ Put(Dest, o)
        /\ (step' = "clean" /\ UNCHANGED <<route, backup, dest, force, selection, moved, result>>) \/ Finish("error")
        /\ UNCHANGED <<later, tick, fails>>
    BY <1>16 DEF MakeNested, Nests, Goto, request
  <2>2. o \in Object
    BY <1>0, <1>a, <1>c, <2>1, FilledObject
  <2> HIDE DEF o
  <2>3. CASE Finish("error")
    BY <1>0, <1>11, <1>a, <2>1, <2>2, <2>3
  <2>4. CASE step' = "clean" /\ UNCHANGED <<route, backup, dest, force, selection, moved, result>>
    <3>1. /\ dir' \in Directory /\ dir'[Dest] = o
          /\ \A q \in Paths : q # Dest => dir'[q] = dir[q]
      BY <1>0, <2>1, <2>2, PutInv
    <3>2. IsSubvol(dir'[Staging]) /\ dir'[Dest] # Nothing
      <4>1. Staging # Dest
        BY <2>1 DEF Staging, Dest
      <4> QED
        BY <1>0, <1>14, <1>d, <2>1, <2>2, <3>1, <4>1
    <3>3. Values'
      BY <1>a, <2>1, <2>4, <3>1 DEF RestoreTypeOK, Values, Steps
    <3>4. HasSource'
      BY <2>1, <2>4, <3>2 DEF HasSource, Staging
    <3>5. Doing'
      BY <1>b, <2>1, <2>4, <3>2 DEF Doing, Known, Dest
    <3> QED
      BY <2>4, <3>3, <3>4, <3>5 DEF RestoreTypeOK
  <2> QED
    BY <2>1, <2>3, <2>4
<1>17. CASE WritableFails
  BY <1>0, <1>11, <1>14, <1>17, <1>a DEF WritableFails, Fault, Issue
<1>18. CASE UNCHANGED rvars
  BY <1>18 DEF rvars, request, RestoreTypeOK, Values, HasSource, Doing, Known, Dest, Staging
<1> QED
  BY <1>1, <1>2, <1>3, <1>4, <1>5, <1>6, <1>7, <1>9, <1>10, <1>12, <1>13, <1>15, <1>16, <1>17, <1>18
     DEF Next, Start, Go, User

(* The type correctness of Restore.                                        *)
THEOREM RestoreTypeCorrect == Spec => []RestoreTypeOK
<1>1. RestoreInv => RestoreTypeOK
  BY DEF RestoreInv
<1> QED
  BY <1>1, RestoreInitInv, NextRestoreTypes, PTL DEF Spec

-----------------------------------------------------------------------------
(* What a step does to the directory: nothing, one name of it, or the move *)
(* to a .broken path.                                                      *)
LEMMA OneName ==
  ASSUME RestoreInv, [Next]_rvars
  PROVE  \/ dir' = dir
         \/ MoveAside
         \/ \E p \in Paths : p[2] = 0 /\ \A q \in Paths : q # p => dir'[q] = dir[q]
<1>1. /\ Dest \in Paths /\ Dest[2] = 0 /\ Staging \in Paths /\ Staging[2] = 0
      /\ \A n \in Live : <<n, 0>> \in Paths /\ <<n, 0>>[2] = 0
  BY NamePaths DEF RestoreInv
<1>2. ASSUME NEW p \in Paths, NEW o, Put(p, o)
      PROVE  \A q \in Paths : q # p => dir'[q] = dir[q]
  BY <1>2 DEF Put, RestoreInv, RestoreTypeOK, Values, Directory
<1>3. ASSUME NEW n \in Live, Work(n) PROVE \E o : Put(<<n, 0>>, o)
  BY <1>3 DEF Work
<1>4. ASSUME NEW n \in Live, TakeSnapshot(n) PROVE dir' = dir
  BY <1>4 DEF TakeSnapshot
<1>5. ASSUME NEW r, NEW b, NEW d, NEW f, Start(r, b, d, f) PROVE dir' = dir
  BY <1>5 DEF Start, Begin, Refuse, DryRun
<1>6. CASE ChooseParent \/ CallFails \/ Killed \/ UNCHANGED rvars
  BY <1>6 DEF ChooseParent, CallFails, Killed, rvars
<1>7. CASE ReceiveStarts \/ ReceiveEnds \/ RawReceiveEnds \/ DeleteStaging
  <2>1. \E o : Put(Staging, o)
    BY <1>7 DEF ReceiveStarts, ReceiveEnds, RawReceiveEnds, Received, DeleteStaging
  <2> QED
    BY <1>1, <1>2, <2>1
<1>8. CASE ReceiveFails \/ ReceiveBlocked \/ RawReceiveFails
  <2>1. dir' = dir \/ \E o : Put(Staging, o)
    BY <1>8 DEF ReceiveFails, ReceiveBlocked, RawReceiveFails
  <2> QED
    BY <1>1, <1>2, <2>1
<1>9. CASE MakeWritable \/ MakeNested \/ WritableFails
  <2>1. dir' = dir \/ \E o : Put(Dest, o)
    BY <1>9 DEF MakeWritable, MakeNested, WritableFails
  <2> QED
    BY <1>1, <1>2, <2>1
<1> QED
  BY <1>1, <1>2, <1>3, <1>4, <1>5, <1>6, <1>7, <1>8, <1>9 DEF Next, Go, User

LEMMA MoveAsideMoves ==
  ASSUME RestoreInv, MoveAside
  PROVE  /\ moved \in Paths /\ moved[2] > 0 /\ dir[moved] = Nothing
         /\ dir'[moved] = dir[Dest] /\ dir'[Dest] = Nothing /\ moved # Dest
         /\ \A q \in Paths : q # moved /\ q # Dest => dir'[q] = dir[q]
<1>1. /\ moved \in Paths /\ moved[2] > 0 /\ dir[moved] = Nothing
      /\ dir' = [dir EXCEPT ![moved] = dir[Dest], ![Dest] = Nothing]
  BY DEF MoveAside, RestoreInv, Doing
<1>2. Dest \in Paths /\ Dest[2] = 0
  BY NamePaths DEF RestoreInv
<1>3. moved # Dest
  BY <1>1, <1>2
<1> QED
  BY <1>1, <1>2, <1>3 DEF RestoreInv, RestoreTypeOK, Values, Directory

(* A target moved aside is never touched again: not by a second restore    *)
(* with --force, which looks for a free path, and not by any failure.      *)
THEOREM MovedAsideStays == Spec => AsideStays
<1>1. RestoreInv /\ [Next]_rvars
        => [\A p \in Paths : p[2] > 0 /\ dir[p] # Nothing => dir'[p] = dir[p]]_rvars
  <2> SUFFICES ASSUME RestoreInv, [Next]_rvars,
                      NEW p \in Paths, p[2] > 0, dir[p] # Nothing
               PROVE  dir'[p] = dir[p]
    OBVIOUS
  <2>1. CASE MoveAside
    <3>1. p # moved /\ p # Dest
      BY <2>1, MoveAsideMoves, NamePaths DEF RestoreInv
    <3> QED
      BY <2>1, <3>1, MoveAsideMoves
  <2> QED
    BY <2>1, OneName
<1> QED
  BY <1>1, RestoreInitInv, NextRestoreTypes, PTL DEF Spec, AsideStays

(* Nothing complete leaves the directory but the command's staging copy,   *)
(* after dest exists, and a writable subvolume of the very name the backup *)
(* needs.                                                                  *)
THEOREM RestoreDestroysNothing == Spec => OnlyStagingGoes
<1> DEFINE Allowed(p) ==
      /\ p = Staging
      /\ \/ step = "clean" /\ dir[Dest] # Nothing /\ dest # backup
         \/ step = "receive" /\ ~dir[p].ro
<1>1. ASSUME RestoreInv, [Next]_rvars,
             NEW p \in Paths, dir[p] # Nothing, dir[p].data # Garbage, ~Survives(p)
      PROVE  Allowed(p)
  <2>1. dir'[p] # dir[p]
    BY <1>1 DEF Survives
  <2>2. dir'[p] = Nothing \/ dir'[p].id # dir[p].id
    BY <1>1 DEF Survives
  <2>3. dir[p] \in Object
    BY <1>1 DEF RestoreInv, RestoreTypeOK, Values, Directory
  <2>a. dir \in Directory /\ Dest \in Paths /\ Staging \in Paths
    BY <1>1, NamePaths DEF RestoreInv, RestoreTypeOK, Values
  <2>4. ASSUME NEW q \in Paths, NEW o, Put(q, o) PROVE p = q /\ dir' = [dir EXCEPT ![p] = o] /\ dir'[p] = o
    BY <2>1, <2>4, <2>a DEF Put, Directory
  <2>5. ~MoveAside
    <3> SUFFICES ASSUME MoveAside PROVE FALSE
      OBVIOUS
    <3>1. p # moved
      BY <1>1, MoveAsideMoves
    <3>2. p = Dest /\ dir'[moved] = dir[p] /\ moved \in Paths
      BY <1>1, <2>1, <3>1, MoveAsideMoves
    <3> QED
      BY <1>1, <3>2 DEF Survives
  <2>6. ASSUME NEW n \in Live, Work(n) PROVE FALSE
    <3>1. <<n, 0>> \in Paths
      BY <1>1, NamePaths DEF RestoreInv
    <3>2. p = <<n, 0>> /\ dir'[p] = [dir[p] EXCEPT !.data = Edited]
      BY <2>4, <2>6, <3>1 DEF Work
    <3>3. dir'[p] \in Object /\ dir'[p].id = dir[p].id
      <4>1. Edited \in Nat
        BY RestoreAssumption DEF Edited
      <4> QED
        BY <2>3, <3>2, <4>1, EditedObject
    <3> QED
      BY <2>2, <3>3, RestoreAssumption DEF Nothing
  <2>7. ~(MakeWritable \/ WritableFails)
    BY <1>1, <2>1, <2>4, <2>a DEF MakeWritable, WritableFails
  <2>8. ~MakeNested
    <3> SUFFICES ASSUME MakeNested PROVE FALSE
      OBVIOUS
    <3>1. p = Dest /\ dir'[p] = [dir[p] EXCEPT !.holds = @ \cup {backup}]
      BY <2>4, <2>a DEF MakeNested
    <3>2. dir'[p] \in Object /\ dir'[p].id = dir[p].id
      <4>1. backup \in Roots
        BY <1>1 DEF RestoreInv, RestoreTypeOK, Values
      <4> QED
        BY <2>3, <3>1, <4>1, FilledObject
    <3> QED
      BY <2>2, <3>2, RestoreAssumption DEF Nothing
  <2>9. ~(ReceiveStarts \/ ReceiveEnds \/ ReceiveFails \/ RawReceiveEnds \/ RawReceiveFails)
    <3> SUFFICES ASSUME ReceiveStarts \/ ReceiveEnds \/ ReceiveFails \/ RawReceiveEnds \/ RawReceiveFails
                 PROVE  FALSE
      OBVIOUS
    <3>1. (\E o : Put(Staging, o)) /\ (dir[Staging] = Nothing \/ step \in {"receiving", "rawReceiving"})
      BY <2>1 DEF ReceiveStarts, ReceiveEnds, ReceiveFails, RawReceiveEnds, RawReceiveFails, Received
    <3>2. p = Staging
      BY <2>4, <2>a, <3>1
    <3> QED
      BY <1>1, <3>1, <3>2 DEF RestoreInv, Doing
  <2>10. CASE ReceiveBlocked
    <3>1. step = "receive" /\ Put(Staging, Nothing) /\ Garbled(dir[Staging])
      BY <2>1, <2>10 DEF ReceiveBlocked, CleanupDue
    <3>2. p = Staging
      BY <2>4, <2>a, <3>1
    <3> QED
      BY <3>1, <3>2 DEF Garbled
  <2>11. CASE DeleteStaging
    <3>1. step = "clean" /\ p = Staging
      BY <2>4, <2>11, <2>a DEF DeleteStaging
    <3> QED
      BY <1>1, <3>1 DEF RestoreInv, Doing
  <2>12. dir' # dir
    BY <2>1
  <2>13. ASSUME NEW n \in Live, TakeSnapshot(n) PROVE FALSE
    BY <2>12, <2>13 DEF TakeSnapshot
  <2>14. ASSUME NEW r, NEW b, NEW d, NEW f, Start(r, b, d, f) PROVE FALSE
    BY <2>12, <2>14 DEF Start, Begin, Refuse, DryRun
  <2>15. ~(ChooseParent \/ CallFails \/ Killed \/ UNCHANGED rvars)
    BY <2>12 DEF ChooseParent, CallFails, Killed, rvars
  <2> QED
    BY <1>1, <2>5, <2>6, <2>7, <2>8, <2>9, <2>10, <2>11, <2>13, <2>14, <2>15 DEF Next, Go, User
<1>2. RestoreInv /\ [Next]_rvars
        => [\A p \in Paths : dir[p] # Nothing /\ dir[p].data # Garbage /\ ~Survives(p) => Allowed(p)]_rvars
  BY <1>1
<1> QED
  BY <1>2, RestoreInitInv, NextRestoreTypes, PTL DEF Spec, OnlyStagingGoes

-----------------------------------------------------------------------------
(* Past the rename dest is free until the command makes it, unless dest is *)
(* the staging copy itself.                                                *)
Cleared ==
  /\ step \in {"choose", "receive", "receiving", "writable"} =>
       route = "raw" \/ dir[Dest] = Nothing \/ (route = "drive" /\ dest = backup)
  /\ step = "rename" => route # "raw"

LEMMA NextCleared == RestoreInv /\ Cleared /\ [Next]_rvars => Cleared'
<1> SUFFICES ASSUME RestoreInv, Cleared, [Next]_rvars PROVE Cleared'
  OBVIOUS
<1>0. /\ Dest \in Paths /\ Staging \in Paths /\ Dest[2] = 0
      /\ \A n \in Live : <<n, 0>> \in Paths
  BY NamePaths DEF RestoreInv
<1>a. dir \in Directory /\ route \in {"local", "drive", "raw"}
  BY DEF RestoreInv, RestoreTypeOK, Values
<1>b. ASSUME NEW q \in Paths, NEW o, Put(q, o), q # Dest PROVE dir'[Dest] = dir[Dest]
  BY <1>0, <1>a, <1>b DEF Put, Directory
<1>1. ASSUME step' = "idle" \/ step' = "clean" PROVE Cleared'
  BY <1>1 DEF Cleared
<1>2. ASSUME step' = step, UNCHANGED request, dir' = dir \/ dir'[Dest] = dir[Dest] \/ step = "idle" PROVE Cleared'
  BY <1>2 DEF Cleared, request, Dest
<1>3. ASSUME NEW n \in Live, Work(n) PROVE Cleared'
  <2>1. step' = step /\ UNCHANGED request /\ (step # "idle" => n # dest)
    BY <1>3 DEF Work, Writable, Mine
  <2>2. step # "idle" => dir'[Dest] = dir[Dest]
    BY <1>0, <1>3, <1>b, <2>1 DEF Work, Dest
  <2> QED
    BY <1>2, <2>1, <2>2
<1>4. ASSUME NEW n \in Live, TakeSnapshot(n) PROVE Cleared'
  BY <1>2, <1>4 DEF TakeSnapshot
<1>5. ASSUME NEW r, NEW b, NEW d, NEW f, Refuse(r, b, d, f) \/ DryRun(r, b, d, f) PROVE Cleared'
  BY <1>2, <1>5 DEF Refuse, DryRun
<1>6. ASSUME NEW r \in {"local", "drive", "raw"}, NEW b, NEW d, NEW f, Begin(r, b, d, f) PROVE Cleared'
  <2>1. route' = r /\ dest' = d /\ dir' = dir
    BY <1>6 DEF Begin, Request
  <2>2. \/ r # "raw" /\ step' = "rename"
        \/ (r = "raw" \/ dir[<<d, 0>>] = Nothing) /\ step' = AfterRename(r)
    BY <1>6 DEF Begin, Exists
  <2>3. AfterRename(r) # "rename"
    BY DEF AfterRename
  <2> QED
    BY <2>1, <2>2, <2>3 DEF Cleared, Dest
<1>7. CASE MoveAside
  <2>1. dir'[Dest] = Nothing /\ UNCHANGED request /\ step' = AfterRename(route)
    BY <1>7, MoveAsideMoves DEF MoveAside, Goto
  <2>2. step' # "rename"
    BY <1>a, <2>1 DEF AfterRename
  <2> QED
    BY <2>1, <2>2 DEF Cleared, request, Dest
<1>8. CASE ChooseParent
  BY <1>8 DEF ChooseParent, Cleared, request, Dest
<1>9. CASE ReceiveStarts \/ ReceiveEnds \/ RawReceiveEnds
  <2>1. /\ \E o : Put(Staging, o)
        /\ UNCHANGED request /\ step' \in {"receiving", "rawReceiving", "writable"}
        /\ step \in {"receive", "receiving"} \/ step \in {"rawReceive", "rawReceiving"}
    BY <1>9 DEF ReceiveStarts, ReceiveEnds, RawReceiveEnds, Received, Goto
  <2>2. step \in {"rawReceive", "rawReceiving"} => route = "raw"
    BY DEF RestoreInv, Doing
  <2>3. step \in {"receive", "receiving"} => route = "drive"
    BY DEF RestoreInv, Doing
  <2>4. CASE dest # backup
    <3>1. Staging # Dest
      BY <2>4 DEF Staging, Dest
    <3> QED
      BY <1>0, <1>b, <2>1, <2>2, <3>1 DEF Cleared, request, Dest
  <2>5. CASE dest = backup
    BY <2>1, <2>2, <2>3, <2>5 DEF Cleared, request
  <2> QED
    BY <2>4, <2>5
<1>10. CASE ReceiveFails \/ ReceiveBlocked \/ RawReceiveFails \/ WritableFails \/ DeleteStaging
            \/ CallFails \/ Killed
  BY <1>1, <1>10 DEF ReceiveFails, ReceiveBlocked, RawReceiveFails, WritableFails, DeleteStaging,
     CallFails, Killed, Finish
<1>11. CASE MakeWritable \/ MakeNested
  BY <1>1, <1>11 DEF MakeWritable, MakeNested, AfterCopy, Finish, Goto
<1>12. CASE UNCHANGED rvars
  BY <1>2, <1>12 DEF rvars
<1> QED
  BY <1>3, <1>4, <1>5, <1>6, <1>7, <1>8, <1>9, <1>10, <1>11, <1>12 DEF Next, Start, Go, User

(* When no call fails and nobody kills it, a restore ends in an error only *)
(* over a taken name: that of its staging copy, dest itself for a stream,  *)
(* or for want of the stream's parent.                                     *)
THEOREM RestoreFailsOnlyWhenBlocked == Spec => FailsOnlyWhenBlocked
<1> DEFINE Blocked ==
      \/ route # "local" /\ (dest = backup \/ (step # "writable" /\ dir[Staging] # Nothing))
      \/ route = "raw" /\ (dir[Dest] # Nothing \/ BaseOf(Raws[backup].need) = {})
<1>1. ASSUME RestoreInv, Cleared, [Next]_rvars,
             step # "idle", step' = "idle", result' = "error", fails' = fails
      PROVE  Blocked
  <2>1. fails \in Nat /\ route \in {"local", "drive", "raw"} /\ (step = "writable" => Copy.recv = NoUuid)
    <3>1. step = "writable" => Source \in Object
      <4> SUFFICES ASSUME step = "writable" PROVE Source \in Object
        OBVIOUS
      <4>1. route # "local" => IsSubvol(dir[Staging])
        BY <1>1 DEF RestoreInv, RestoreTypeOK, HasSource, Staging
      <4>2. route # "local" => dir[Staging] \in Object
        BY <1>1, <4>1, NamePaths DEF RestoreInv, RestoreTypeOK, Values, Directory, IsSubvol
      <4>3. route = "local" => Snapshots[backup] \in Object
        BY <1>1, Entry DEF RestoreInv, Doing
      <4> QED
        BY <4>2, <4>3 DEF Source
    <3> QED
      BY <1>1, <3>1, CopyObject DEF RestoreInv, RestoreTypeOK, Values
  <2>2. ~Fault
    BY <1>1, <2>1 DEF Fault
  <2>3. step = "receive" => route = "drive"
    BY <1>1 DEF RestoreInv, Doing
  <2>4. step \in {"rawReceive", "rawReceiving"} => route = "raw"
    BY <1>1 DEF RestoreInv, Doing
  <2>5. CASE ReceiveBlocked
    BY <2>3, <2>5 DEF ReceiveBlocked
  <2>6. CASE RawReceiveFails
    BY <2>2, <2>4, <2>6 DEF RawReceiveFails
  <2>7. CASE MakeNested
    BY <2>7 DEF MakeNested, Nests
  <2>8. CASE WritableFails
    BY <1>1, <2>1, <2>2, <2>8 DEF WritableFails, Cleared
  <2>9. ~MakeWritable
    BY <1>1, <2>1 DEF MakeWritable, AfterCopy, Finish, Goto
  <2>10. ~(ReceiveFails \/ CallFails \/ Killed)
    BY <2>2 DEF ReceiveFails, CallFails, Killed
  <2>11. ~(MoveAside \/ ChooseParent \/ ReceiveStarts \/ ReceiveEnds \/ RawReceiveEnds \/ DeleteStaging)
    BY <1>1, <2>1 DEF MoveAside, AfterRename, ChooseParent, ReceiveStarts, ReceiveEnds, RawReceiveEnds,
       DeleteStaging, Goto, Finish
  <2>12. ASSUME NEW n \in Live, Work(n) \/ TakeSnapshot(n) PROVE FALSE
    BY <1>1, <2>12 DEF Work, TakeSnapshot
  <2>13. ASSUME NEW r, NEW b, NEW d, NEW f, Start(r, b, d, f) PROVE FALSE
    BY <1>1, <2>13 DEF Start, Begin, Refuse, DryRun, Accepted
  <2>14. ~UNCHANGED rvars
    BY <1>1 DEF rvars
  <2> QED
    BY <1>1, <2>5, <2>6, <2>7, <2>8, <2>9, <2>10, <2>11, <2>12, <2>13, <2>14 DEF Next, Go, User
<1>2. RestoreInv /\ Cleared /\ [Next]_rvars
        => [step # "idle" /\ step' = "idle" /\ result' = "error" /\ fails' = fails => Blocked]_rvars
  BY <1>1
<1>3. Init => Cleared
  BY DEF Init, Cleared
<1> QED
  BY <1>2, <1>3, RestoreInitInv, NextRestoreTypes, NextCleared, PTL DEF Spec, FailsOnlyWhenBlocked

-----------------------------------------------------------------------------
(* What correlates holds the same data.  A uuid the command stamps is one a   *)
(* backup announces, what the user may write to has none, and ids issued   *)
(* since the start are nobody's received uuid.                             *)
Alike ==
  /\ FirstTick <= tick
  /\ \A p \in Paths : IsSubvol(dir[p]) =>
       /\ dir[p].recv <= FirstTick
       /\ ~dir[p].ro /\ dir[p].data # Garbage => dir[p].recv = NoUuid
  /\ \A a \in Everything : a.recv <= FirstTick /\ \A x \in Announced : KnownAs(a, x[1]) => a.data = x[2]
  /\ CorrelatedHoldTheSame
  /\ step \in {"receiving", "rawReceiving"} => dir[Staging].id > FirstTick /\ ~dir[Staging].ro
  /\ step \in {"receive", "receiving"} => selection.parent \in SendSide \cup {NoSub}

(* A transfer back ends with the backup's data, and a copy of it at dest.  *)
Promised ==
  /\ step = "writable" /\ route # "local" => dir[Staging].data = Wanted
  /\ step = "clean" =>
       /\ IsSubvol(dir[Dest]) /\ ~dir[Dest].ro
       /\ dir[Dest].data = Wanted \/ (route = "raw" /\ backup \in dir[Dest].holds)

LEMMA BackupsAnnounce ==
  ASSUME NEW b \in Entries(Backups)
  PROVE  /\ <<Origin(b), b.data>> \in Announced
         /\ b \in Object /\ b.ro /\ Origin(b) \in Nat
BY RestoreAssumption DEF Announced, Origin, Object

LEMMA RawsAnnounce ==
  ASSUME NEW r \in Entries(Raws)
  PROVE  /\ <<r.of, r.data>> \in Announced /\ <<r.need, r.base>> \in Announced
         /\ r.of \in Nat /\ r.need \in Nat
BY RestoreAssumption DEF Announced, Raw

LEMMA EverythingObjects ==
  ASSUME RestoreTypeOK
  PROVE  /\ \A a \in Everything : a \in Object
         /\ BaseOf(0) \subseteq Everything
         /\ \A u : BaseOf(u) \subseteq Everything
BY RestoreAssumption DEF RestoreTypeOK, Values, Everything, InDir, IsSubvol, Directory, BaseOf,
   ReceiveSide, Entries

(* The copy a stream is applied to holds what the stream builds on.        *)
LEMMA BaseHolds ==
  ASSUME RestoreTypeOK, Alike, NEW x \in Announced, NEW q \in BaseOf(x[1])
  PROVE  q.data = x[2]
<1>1. q \in Everything /\ KnownAs(q, x[1])
  BY EverythingObjects DEF BaseOf
<1> QED
  BY <1>1 DEF Alike

LEMMA SentBase ==
  ASSUME RestoreTypeOK, Alike, NEW p \in Entries(Backups), NEW q \in BaseOf(Origin(p))
  PROVE  q.data = p.data
<1> DEFINE x == <<Origin(p), p.data>>
<1>1. x \in Announced /\ q \in BaseOf(x[1]) /\ x[2] = p.data
  BY BackupsAnnounce
<1> HIDE DEF x
<1> QED
  BY <1>1, BaseHolds

LEMMA RawBase ==
  ASSUME RestoreTypeOK, Alike, NEW r \in Entries(Raws), NEW q \in BaseOf(r.need)
  PROVE  q.data = r.base
<1> DEFINE x == <<r.need, r.base>>
<1>1. x \in Announced /\ q \in BaseOf(x[1]) /\ x[2] = r.base
  BY RawsAnnounce
<1> HIDE DEF x
<1> QED
  BY <1>1, BaseHolds

(* One more subvolume, with an id issued since the start and with no       *)
(* received uuid or an announced one, with its data.                       *)
Stamped(c) == c.recv = NoUuid \/ <<c.recv, c.data>> \in Announced

LEMMA OneMore ==
  ASSUME RestoreTypeOK, Alike, NEW C, Everything' \subseteq Everything \cup C,
         NEW c, C \subseteq {c}, C # {} => c \in Object /\ c.id > FirstTick /\ Stamped(c)
  PROVE  /\ \A a \in Everything' : a.recv <= FirstTick /\ \A x \in Announced : KnownAs(a, x[1]) => a.data = x[2]
         /\ CorrelatedHoldTheSame'
<1> USE RestoreAssumption, DataAssumption
<1>0. /\ \A a \in Everything : /\ a.id \in Nat /\ a.recv \in Nat /\ a.recv <= FirstTick
                              /\ \A x \in Announced : KnownAs(a, x[1]) => a.data = x[2]
      /\ FirstTick \in Nat
  BY EverythingObjects DEF Object, Alike
<1>1. ASSUME C # {}
      PROVE  /\ c.recv <= FirstTick /\ c.recv \in Nat /\ c.id \in Nat
             /\ \A x \in Announced : KnownAs(c, x[1]) => c.data = x[2]
  <2>1. c.recv \in Nat /\ c.id \in Nat /\ c.id > FirstTick
    BY <1>1 DEF Object
  <2>2. c.recv = NoUuid \/ (<<c.recv, c.data>> \in Announced /\ c.recv <= FirstTick)
    BY <1>1 DEF Stamped
  <2>3. c.recv <= FirstTick
    BY <1>0, <2>2 DEF NoUuid
  <2>4. ASSUME NEW x \in Announced, KnownAs(c, x[1]) PROVE c.data = x[2]
    <3>1. x[1] <= FirstTick
      OBVIOUS
    <3>2. Same(c.recv, x[1])
      BY <1>0, <2>1, <2>4, <3>1 DEF KnownAs, Same
    <3>3. <<c.recv, c.data>> \in Announced
      BY <2>2, <3>2 DEF Same
    <3> QED
      BY <3>2, <3>3
  <2> QED
    BY <2>1, <2>3, <2>4
<1>2. \A a \in Everything' : a.recv <= FirstTick /\ \A x \in Announced : KnownAs(a, x[1]) => a.data = x[2]
  BY <1>0, <1>1
<1>3. ASSUME C # {}, NEW a \in Everything, Correlated(a, c) \/ Correlated(c, a) PROVE a.data = c.data
  <2>1. c.id > FirstTick /\ c.id \in Nat
    BY <1>1, <1>3
  <2>2. ~Same(c.id, a.recv) /\ ~Same(a.recv, c.id)
    BY <1>0, <2>1 DEF Same
  <2>3. KnownAs(a, c.recv) /\ c.recv # NoUuid
    BY <1>3, <2>2 DEF Correlated, KnownAs, Same
  <2>4. <<c.recv, c.data>> \in Announced
    BY <1>3, <2>3 DEF Stamped
  <2> QED
    BY <1>0, <2>3, <2>4
<1>4. CorrelatedHoldTheSame'
  <2>1. CorrelatedHoldTheSame
    BY DEF Alike
  <2>2. \A a, b \in Everything \cup C : Correlated(a, b) => a.data = b.data
    BY <1>3, <2>1 DEF CorrelatedHoldTheSame
  <2> QED
    BY <2>2 DEF CorrelatedHoldTheSame
<1> QED
  BY <1>2, <1>4

(* ... or none.                                                            *)
LEMMA NoMore ==
  ASSUME RestoreTypeOK, Alike, Everything' \subseteq Everything
  PROVE  /\ \A a \in Everything' : a.recv <= FirstTick /\ \A x \in Announced : KnownAs(a, x[1]) => a.data = x[2]
         /\ CorrelatedHoldTheSame'
BY DEF Alike, CorrelatedHoldTheSame

LEMMA InitAlike == Init => Alike /\ Promised
<1> SUFFICES ASSUME Init PROVE Alike /\ Promised
  OBVIOUS
<1> USE RestoreAssumption, DataAssumption
<1>1. dir \in Starts /\ later = {} /\ tick = FirstTick /\ step = "idle"
  BY DEF Init
<1>2. Everything = {o \in InDir(dir) : o.ro} \cup Entries(Snapshots) \cup Entries(Backups)
  BY <1>1 DEF Everything
<1>3. \A p \in Paths : IsSubvol(dir[p]) => dir[p] \in InDir(dir)
  BY DEF InDir
<1>4. /\ \A o \in InDir(dir) : ~o.ro /\ o.data # Garbage => o.recv = NoUuid
      /\ \A o \in InDir(dir) \cup Entries(Snapshots) \cup Entries(Backups) : o.recv <= FirstTick
  BY <1>1
<1>5. CorrelatedHoldTheSame /\ \A a \in Everything, x \in Announced : KnownAs(a, x[1]) => a.data = x[2]
  BY <1>1, <1>2 DEF CorrelatedHoldTheSame
<1>6. Alike
  BY <1>1, <1>2, <1>3, <1>4, <1>5 DEF Alike
<1> QED
  BY <1>1, <1>6 DEF Promised

(* What Everything gains from a step of the directory.                     *)
LEMMA PutAdds ==
  ASSUME RestoreTypeOK, NEW p \in Paths, NEW o \in Object \cup {Nothing}, Put(p, o), later' = later
  PROVE  Everything' \subseteq Everything \cup (IF IsSubvol(o) /\ o.ro THEN {o} ELSE {})
<1>1. /\ dir'[p] = o
      /\ \A q \in Paths : q # p => dir'[q] = dir[q]
  BY PutInv
<1>2. ASSUME NEW a \in InDir(dir'), a \notin InDir(dir) PROVE a = o /\ IsSubvol(o)
  BY <1>1, <1>2 DEF InDir, IsSubvol
<1>3. Everything' = {a \in InDir(dir') : a.ro} \cup Entries(Snapshots) \cup Entries(Backups) \cup later'
  BY DEF Everything
<1> QED
  BY <1>2, <1>3 DEF Everything

(* A step that puts nothing, or something the user may not snapshot under  *)
(* a received uuid.                                                        *)
LEMMA PutAlike ==
  ASSUME RestoreTypeOK, Alike, NEW p \in Paths, NEW o \in Object \cup {Nothing}, Put(p, o),
         later' = later, tick' \in Nat, tick <= tick',
         IsSubvol(o) => /\ o.recv <= FirstTick /\ (~o.ro /\ o.data # Garbage => o.recv = NoUuid)
                        /\ (o.ro => o.id > FirstTick /\ Stamped(o)),
         step' \in {"receiving", "rawReceiving"} =>
           /\ Staging' \in Paths
           /\ (Staging' = p /\ o # Nothing /\ o.id > FirstTick /\ ~o.ro)
                \/ (Staging' # p /\ dir[Staging'].id > FirstTick /\ ~dir[Staging'].ro),
         step' \in {"receive", "receiving"} => selection'.parent \in SendSide \cup {NoSub}
  PROVE  Alike'
<1> DEFINE C == IF IsSubvol(o) /\ o.ro THEN {o} ELSE {}
<1> USE RestoreAssumption
<1>1. /\ dir'[p] = o
      /\ \A q \in Paths : q # p => dir'[q] = dir[q]
  BY PutInv
<1>2. /\ \A a \in Everything' : a.recv <= FirstTick /\ \A x \in Announced : KnownAs(a, x[1]) => a.data = x[2]
      /\ CorrelatedHoldTheSame'
  <2>1. Everything' \subseteq Everything \cup C
    BY PutAdds
  <2>2. C \subseteq {o} /\ (C # {} => o \in Object /\ o.id > FirstTick /\ Stamped(o))
    BY DEF IsSubvol
  <2> HIDE DEF C
  <2> QED
    BY <2>1, <2>2, OneMore
<1>3. FirstTick <= tick'
  BY DEF Alike, RestoreTypeOK, Values
<1>4. ASSUME NEW q \in Paths, IsSubvol(dir'[q])
      PROVE  /\ dir'[q].recv <= FirstTick
             /\ ~dir'[q].ro /\ dir'[q].data # Garbage => dir'[q].recv = NoUuid
  BY <1>1, <1>4 DEF Alike, IsSubvol
<1>5. step' \in {"receiving", "rawReceiving"} => dir'[Staging'].id > FirstTick /\ ~dir'[Staging'].ro
  BY <1>1
<1>6. SendSide' = SendSide
  BY DEF SendSide
<1> QED
  BY <1>2, <1>3, <1>4, <1>5, <1>6 DEF Alike

LEMMA QuietAlike ==
  ASSUME Alike, dir' = dir, later' = later, tick' = tick,
         step' \in {"receiving", "rawReceiving"} => step' = step /\ Staging' = Staging,
         step' \in {"receive", "receiving"} => selection'.parent \in SendSide \cup {NoSub}
  PROVE  Alike'
<1>1. Everything' = Everything /\ SendSide' = SendSide
  BY DEF Everything, SendSide
<1>2. CorrelatedHoldTheSame'
  BY <1>1 DEF Alike, CorrelatedHoldTheSame
<1> QED
  BY <1>1, <1>2 DEF Alike

LEMMA NextAlike == RestoreInv /\ Alike /\ [Next]_rvars => Alike'
<1> SUFFICES ASSUME RestoreInv, Alike, [Next]_rvars PROVE Alike'
  OBVIOUS
<1> USE RestoreAssumption
<1>0. /\ Dest \in Paths /\ Staging \in Paths
      /\ \A n \in Live : <<n, 0>> \in Paths
  BY NamePaths DEF RestoreInv
<1>a. /\ RestoreTypeOK /\ tick \in Nat /\ FirstTick <= tick /\ dir \in Directory /\ route \in {"local", "drive", "raw"}
      /\ step \in Steps \cup {"idle"} /\ selection \in Selection
  BY DEF RestoreInv, RestoreTypeOK, Values, Alike
<1>b. step # "idle" => /\ Known(route, backup)
                       /\ route = "local" => backup \in DOMAIN Snapshots /\ Snapshots[backup] \in Object
                       /\ route = "drive" => backup \in DOMAIN Backups /\ Backups[backup] \in Entries(Backups)
                       /\ route = "raw" => backup \in DOMAIN Raws /\ Raws[backup] \in Entries(Raws)
  BY Entry DEF RestoreInv, Doing, Known, Entries
<1>c. \A p \in Paths : dir[p] # Nothing => dir[p] \in Object
  BY <1>a DEF Directory
<1>d. Nothing \notin Object
  BY DEF Nothing
<1>e. step \in {"receive", "receiving"} => selection.parent \in SendSide \cup {NoSub}
  BY DEF Alike
<1>f. step \in {"receiving", "rawReceiving"} => /\ dir[Staging].id > FirstTick /\ ~dir[Staging].ro
                                              /\ IsSubvol(dir[Staging]) /\ dir[Staging] \in Object
                                              /\ dir[Staging].data = Garbage
  <2>1. step \in {"receiving", "rawReceiving"} => IsSubvol(dir[Staging])
    BY DEF RestoreInv, RestoreTypeOK, HasSource, Doing, Staging
  <2> QED
    BY <1>0, <1>c, <2>1 DEF Alike, RestoreInv, Doing, IsSubvol
<1>1. ASSUME NEW n \in Live, Work(n) PROVE Alike'
  <2> DEFINE o == [dir[<<n, 0>>] EXCEPT !.data = Edited]
  <2>1. /\ IsSubvol(dir[<<n, 0>>]) /\ Put(<<n, 0>>, o) /\ ~dir[<<n, 0>>].ro /\ dir[<<n, 0>>].data # Garbage
        /\ (step # "idle" => n # dest /\ n # backup)
        /\ UNCHANGED <<later, tick, fails, step, route, backup, dest, force, selection, moved, result>>
    BY <1>1 DEF Work, Writable, Mine, request
  <2>2. o \in Object /\ o.recv = dir[<<n, 0>>].recv /\ o.ro = dir[<<n, 0>>].ro
    <3>1. dir[<<n, 0>>] \in Object
      BY <1>0, <1>c, <2>1 DEF IsSubvol
    <3>2. Edited \in Nat
      BY DEF Edited
    <3> QED
      BY <3>1, <3>2 DEF Object
  <2>3. o.recv = NoUuid /\ o.recv <= FirstTick
    BY <1>0, <2>1, <2>2 DEF Alike
  <2> HIDE DEF o
  <2>4. step \in {"receiving", "rawReceiving"} => Staging # <<n, 0>> /\ Staging' = Staging
    BY <2>1 DEF Staging
  <2> QED
    BY <1>0, <1>a, <1>e, <1>f, <2>1, <2>2, <2>3, <2>4, PutAlike
<1>2. ASSUME NEW n \in Live, TakeSnapshot(n) PROVE Alike'
  <2> DEFINE o == [dir[<<n, 0>>] EXCEPT !.id = tick + 1, !.parent = dir[<<n, 0>>].id,
                                       !.ro = TRUE, !.holds = {}]
  <2>1. /\ IsSubvol(dir[<<n, 0>>]) /\ ~dir[<<n, 0>>].ro /\ dir[<<n, 0>>].data # Garbage
        /\ tick' = tick + 1 /\ later' = later \cup {o}
        /\ UNCHANGED <<dir, fails, step, route, backup, dest, force, selection, moved, result>>
    BY <1>2 DEF TakeSnapshot, Writable, Issue, request
  <2>2. o \in Object /\ o.id = tick + 1 /\ o.recv = dir[<<n, 0>>].recv
    <3>1. dir[<<n, 0>>] \in Object
      BY <1>0, <1>c, <2>1 DEF IsSubvol
    <3>2. dir[<<n, 0>>].id \in Nat /\ tick + 1 \in Nat
      BY <1>a, <3>1 DEF Object
    <3>3. o \in Object
      BY <3>1, <3>2, SnapshotObject
    <3>4. o.id = tick + 1 /\ o.recv = dir[<<n, 0>>].recv
      BY <3>1 DEF Object
    <3> QED
      BY <3>3, <3>4
  <2>3. o.recv = NoUuid
    BY <1>0, <2>1, <2>2 DEF Alike
  <2> HIDE DEF o
  <2>4. Everything' \subseteq Everything \cup {o}
    BY <2>1 DEF Everything
  <2>5. o.id > FirstTick /\ Stamped(o)
    BY <1>a, <2>2, <2>3 DEF Stamped
  <2>6. /\ \A a \in Everything' : a.recv <= FirstTick /\ \A x \in Announced : KnownAs(a, x[1]) => a.data = x[2]
        /\ CorrelatedHoldTheSame'
    <3> DEFINE C == {o}
    <3>1. Everything' \subseteq Everything \cup C /\ C \subseteq {o}
      BY <2>4
    <3> HIDE DEF C
    <3> QED
      BY <1>a, <2>2, <2>5, <3>1, OneMore
  <2>7. FirstTick <= tick' /\ SendSide' = SendSide /\ Staging' = Staging
    BY <1>a, <2>1 DEF SendSide, Staging
  <2> QED
    BY <2>1, <2>6, <2>7 DEF Alike
<1>3. ASSUME NEW r, NEW b, NEW d, NEW f, Refuse(r, b, d, f) \/ DryRun(r, b, d, f) PROVE Alike'
  <2>1. UNCHANGED <<dir, later, tick, step, request, selection>>
    BY <1>3 DEF Refuse, DryRun
  <2> QED
    BY <1>e, <2>1, QuietAlike DEF request, Staging
<1>4. ASSUME NEW r \in {"local", "drive", "raw"}, NEW b, NEW d, NEW f, Begin(r, b, d, f) PROVE Alike'
  <2>1. UNCHANGED <<dir, later, tick>> /\ step' \in {"rename", "choose", "writable", "rawReceive"}
    BY <1>4 DEF Begin, AfterRename
  <2> QED
    BY <2>1, QuietAlike
<1>5. CASE MoveAside
  <2>1. /\ step' \in {"choose", "writable", "rawReceive"} /\ UNCHANGED <<later, tick>>
    BY <1>5, <1>a DEF MoveAside, AfterRename, Goto
  <2>2. \A q \in Paths : dir'[q] = Nothing \/ \E s \in Paths : dir'[q] = dir[s]
    BY <1>5, <1>0, MoveAsideMoves
  <2>3. \A q \in Paths : IsSubvol(dir'[q]) => \E s \in Paths : dir'[q] = dir[s] /\ IsSubvol(dir[s])
    BY <2>2 DEF IsSubvol
  <2>4. Everything' \subseteq Everything
    <3>1. InDir(dir') \subseteq InDir(dir)
      BY <2>3 DEF InDir
    <3>2. Everything' = {o \in InDir(dir') : o.ro} \cup Entries(Snapshots) \cup Entries(Backups) \cup later
      BY <2>1 DEF Everything
    <3> QED
      BY <3>1, <3>2 DEF Everything
  <2>5. /\ \A a \in Everything' : a.recv <= FirstTick /\ \A x \in Announced : KnownAs(a, x[1]) => a.data = x[2]
        /\ CorrelatedHoldTheSame'
    BY <1>a, <2>4, NoMore
  <2>6. \A p \in Paths : IsSubvol(dir'[p]) =>
          /\ dir'[p].recv <= FirstTick
          /\ ~dir'[p].ro /\ dir'[p].data # Garbage => dir'[p].recv = NoUuid
    BY <2>3 DEF Alike
  <2>7. FirstTick <= tick'
    BY <1>a, <2>1
  <2>8. step' \notin {"receiving", "rawReceiving", "receive"}
    BY <2>1
  <2> QED
    BY <2>5, <2>6, <2>7, <2>8 DEF Alike
<1>6. CASE ChooseParent
  <2>1. /\ step' = "receive" /\ UNCHANGED <<dir, later, tick>>
        /\ selection' = BestParent(Backups[backup], SendSide, ReceiveSide, "yes")
    BY <1>6 DEF ChooseParent
  <2>2. \A o \in SendSide : o.id \in Nat /\ o.id <= FirstTick
    BY DEF SendSide, Object
  <2>3. selection'.parent \in SendSide \cup {NoSub}
    BY <2>1, <2>2, BestParentOfIds
  <2> QED
    BY <2>1, <2>3, QuietAlike
<1>7. CASE ReceiveStarts
  <2>1. /\ tick' = tick + 1 /\ Put(Staging, NewSubvol) /\ later' = later
        /\ step' \in {"receiving", "rawReceiving"} /\ Staging' = Staging /\ selection' = selection
        /\ (step' = "receiving" => step = "receive")
    BY <1>7 DEF ReceiveStarts, Goto, Issue, request, Staging
  <2>2. NewSubvol \in Object /\ NewSubvol # Nothing
    BY <1>a, <1>d, NewObject
  <2>3. NewSubvol.id = tick + 1 /\ NewSubvol.recv = NoUuid /\ ~NewSubvol.ro
    BY DEF NewSubvol
  <2>4. NewSubvol.recv <= FirstTick /\ NewSubvol.id > FirstTick
    BY <1>a, <2>3 DEF NoUuid
  <2>5. step' \in {"receive", "receiving"} => selection'.parent \in SendSide \cup {NoSub}
    BY <1>e, <2>1
  <2>6. tick' \in Nat /\ tick <= tick'
    BY <1>a, <2>1
  <2> QED
    BY <1>0, <1>a, <2>1, <2>2, <2>3, <2>4, <2>5, <2>6, PutAlike
<1>8. ASSUME step \in {"receiving", "rawReceiving"}, Goto("writable"),
             NEW p \in Nat, NEW v \in Nat, NEW w \in Nat, Received(p, v, w),
             <<v, w>> \in Announced, UNCHANGED <<later, tick>>
      PROVE  Alike'
  <2> DEFINE o == [dir[Staging] EXCEPT !.parent = p, !.recv = v, !.ro = TRUE, !.data = w]
  <2>1. o \in Object /\ o.id = dir[Staging].id /\ o.recv = v /\ o.data = w /\ o.ro
    BY <1>8, <1>f DEF Object
  <2>2. Put(Staging, o)
    BY <1>8 DEF Received
  <2> HIDE DEF o
  <2>3. Stamped(o) /\ o.id > FirstTick /\ o.recv <= FirstTick
    <3>1. v <= FirstTick
      BY <1>8, DataAssumption
    <3> QED
      BY <1>8, <1>f, <2>1, <3>1 DEF Stamped
  <2>4. step' = "writable"
    BY <1>8 DEF Goto
  <2> QED
    BY <1>0, <1>8, <1>a, <2>1, <2>2, <2>3, <2>4, PutAlike
<1>9. CASE ReceiveEnds
  <2> DEFINE b == Backups[backup]  p == selection.parent
  <2>1. /\ step = "receiving" /\ Goto("writable") /\ UNCHANGED <<later, tick>>
        /\ b \in Entries(Backups)
    BY <1>9, <1>b DEF ReceiveEnds, RestoreInv, Doing
  <2>2. /\ <<Origin(b), b.data>> \in Announced /\ Origin(b) \in Nat /\ b.data \in Nat
    BY <2>1, BackupsAnnounce DEF Object
  <2>3. CASE Received(NoUuid, Origin(b), b.data)
    BY <1>8, <2>1, <2>2, <2>3 DEF NoUuid
  <2>4. ASSUME NEW q \in BaseOf(Origin(p)), p # NoSub,
               Received(q.id, Origin(b), IF q.data = p.data THEN b.data ELSE Garbage)
        PROVE  Alike'
    <3>1. p \in Entries(Backups)
      BY <1>e, <2>1, <2>4 DEF SendSide
    <3>2. q.data = p.data
      BY <1>a, <2>4, <3>1, SentBase
    <3>3. q.id \in Nat
      BY <1>a, EverythingObjects DEF Object
    <3> QED
      BY <1>8, <2>1, <2>2, <2>4, <3>2, <3>3
  <2> QED
    BY <1>9, <2>3, <2>4 DEF ReceiveEnds
<1>10. CASE RawReceiveEnds
  <2> DEFINE r == Raws[backup]
  <2>1. /\ step = "rawReceiving" /\ Goto("writable") /\ UNCHANGED <<later, tick>>
        /\ r \in Entries(Raws)
    BY <1>10, <1>b DEF RawReceiveEnds, RestoreInv, Doing
  <2>2. /\ <<r.of, r.data>> \in Announced /\ r.of \in Nat /\ r.data \in Nat
    BY <2>1, RawsAnnounce DEF Raw
  <2>3. CASE Received(NoUuid, r.of, r.data)
    BY <1>8, <2>1, <2>2, <2>3 DEF NoUuid
  <2>4. ASSUME NEW q \in BaseOf(r.need), Received(q.id, r.of, IF q.data = r.base THEN r.data ELSE Garbage)
        PROVE  Alike'
    <3>1. q.data = r.base
      BY <1>a, <2>1, <2>4, RawBase
    <3>2. q.id \in Nat
      BY <1>a, EverythingObjects DEF Object
    <3> QED
      BY <1>8, <2>1, <2>2, <2>4, <3>1, <3>2
  <2> QED
    BY <1>10, <2>3, <2>4 DEF RawReceiveEnds
<1>11. CASE ReceiveFails \/ RawReceiveFails
  <2>1. /\ later' = later /\ tick' = tick /\ step' = "idle"
        /\ \/ dir' = dir
           \/ Put(Staging, Nothing)
           \/ /\ step \in {"receiving", "rawReceiving"}
              /\ \E x \in Announced : x[1] \in Nat /\ Put(Staging, [dir[Staging] EXCEPT !.recv = x[1]])
    <3>1. step = "receiving" => /\ <<Origin(Backups[backup]), Backups[backup].data>> \in Announced
                                /\ Origin(Backups[backup]) \in Nat
      BY <1>b, BackupsAnnounce DEF RestoreInv, Doing
    <3>2. step = "rawReceiving" => <<Raws[backup].of, Raws[backup].data>> \in Announced /\ Raws[backup].of \in Nat
      BY <1>b, RawsAnnounce DEF RestoreInv, Doing
    <3>3. CASE ReceiveFails
      BY <3>1, <3>3 DEF ReceiveFails, Finish
    <3>4. CASE RawReceiveFails
      BY <3>2, <3>4 DEF RawReceiveFails, Finish
    <3> QED
      BY <1>11, <3>3, <3>4
  <2>2. CASE dir' = dir
    BY <2>1, <2>2, QuietAlike
  <2>3. CASE Put(Staging, Nothing)
    BY <1>0, <1>a, <2>1, <2>3, PutAlike DEF IsSubvol
  <2>4. ASSUME step \in {"receiving", "rawReceiving"}, NEW x \in Announced, x[1] \in Nat,
               Put(Staging, [dir[Staging] EXCEPT !.recv = x[1]])
        PROVE  Alike'
    <3> DEFINE o == [dir[Staging] EXCEPT !.recv = x[1]]
    <3>1. o \in Object /\ o.recv = x[1] /\ ~o.ro /\ o.data = Garbage
      BY <1>f, <2>4 DEF Object
    <3>2. Put(Staging, o)
      BY <2>4
    <3> HIDE DEF o
    <3>3. o.recv <= FirstTick
      BY <3>1, DataAssumption
    <3> QED
      BY <1>0, <1>a, <2>1, <3>1, <3>2, <3>3, PutAlike
  <2> QED
    BY <2>1, <2>2, <2>3, <2>4
<1>12. CASE ReceiveBlocked \/ CallFails \/ Killed \/ DeleteStaging
  <2>1. /\ later' = later /\ tick' = tick /\ step' = "idle" /\ (dir' = dir \/ Put(Staging, Nothing))
    BY <1>12 DEF ReceiveBlocked, CallFails, Killed, DeleteStaging, Finish
  <2> QED
    BY <1>0, <1>a, <2>1, QuietAlike, PutAlike DEF IsSubvol
<1>13. step = "writable" => /\ Copy \in Object /\ Copy.recv = NoUuid /\ ~Copy.ro
  <2> SUFFICES ASSUME step = "writable" PROVE /\ Copy \in Object /\ Copy.recv = NoUuid /\ ~Copy.ro
    OBVIOUS
  <2>1. Source \in Object
    BY <1>0, <1>b, <1>c DEF Source, IsSubvol, RestoreInv, RestoreTypeOK, HasSource, Staging
  <2>2. ~Copy.ro
    BY DEF Copy, NewSubvol
  <2> QED
    BY <1>a, <2>1, <2>2, CopyObject
<1>14. CASE MakeWritable \/ WritableFails
  <2>1. /\ step = "writable" /\ later' = later /\ step' \in {"idle", "clean"}
        /\ \/ tick' = tick /\ dir' = dir
           \/ tick' = tick + 1 /\ Put(Dest, Copy)
    BY <1>14 DEF MakeWritable, WritableFails, AfterCopy, Goto, Finish, Issue
  <2>2. CASE tick' = tick /\ dir' = dir
    BY <2>1, <2>2, QuietAlike
  <2>3. CASE tick' = tick + 1 /\ Put(Dest, Copy)
    <3>1. tick' \in Nat /\ tick <= tick'
      BY <1>a, <2>3
    <3>2. Copy.recv <= FirstTick
      BY <1>13, <2>1 DEF NoUuid
    <3> QED
      BY <1>0, <1>a, <1>13, <2>1, <2>3, <3>1, <3>2, PutAlike
  <2> QED
    BY <2>1, <2>2, <2>3
<1>15. CASE MakeNested
  <2> DEFINE o == [dir[Dest] EXCEPT !.holds = @ \cup {backup}]
  <2>1. /\ later' = later /\ tick' = tick /\ step' \in {"idle", "clean"} /\ Put(Dest, o)
        /\ dir[Dest] # Nothing /\ ~dir[Dest].ro
    BY <1>15 DEF MakeNested, Nests, Goto, Finish
  <2>2. /\ o \in Object /\ o.id = dir[Dest].id
        /\ o.recv = dir[Dest].recv /\ o.ro = dir[Dest].ro /\ o.data = dir[Dest].data
    <3>1. dir[Dest] \in Object /\ backup \in Roots
      BY <1>0, <1>c, <2>1 DEF RestoreInv, RestoreTypeOK, Values
    <3> QED
      BY <3>1 DEF Object
  <2> HIDE DEF o
  <2>3. IsSubvol(o) => o.recv <= FirstTick /\ (~o.ro /\ o.data # Garbage => o.recv = NoUuid)
    BY <1>0, <2>1, <2>2 DEF Alike, IsSubvol
  <2> QED
    BY <1>0, <1>a, <2>1, <2>2, <2>3, PutAlike
<1>16. CASE UNCHANGED rvars
  BY <1>16, <1>e, QuietAlike DEF rvars, request, Staging
<1> QED
  BY <1>1, <1>2, <1>3, <1>4, <1>5, <1>6, <1>7, <1>9, <1>10, <1>11, <1>12, <1>14, <1>15, <1>16
     DEF Next, Start, Go, User

(* Two read-only subvolumes that correlate hold the same data, whatever    *)
(* restores ran and failed, and whatever the user does with what they made:*)
(* what a later incremental send rests on.                                 *)
THEOREM RestoresKeepTheChain == Spec => []CorrelatedHoldTheSame
<1>1. Init => Alike
  BY InitAlike
<1>2. Alike => CorrelatedHoldTheSame
  BY DEF Alike
<1> QED
  BY <1>1, <1>2, RestoreInitInv, NextRestoreTypes, NextAlike, PTL DEF Spec

-----------------------------------------------------------------------------
LEMMA NextPromised == RestoreInv /\ Alike /\ Promised /\ [Next]_rvars => Promised'
<1> SUFFICES ASSUME RestoreInv, Alike, Promised, [Next]_rvars PROVE Promised'
  OBVIOUS
<1>0. /\ Dest \in Paths /\ Staging \in Paths
      /\ \A n \in Live : <<n, 0>> \in Paths
  BY NamePaths DEF RestoreInv
<1>a. /\ RestoreTypeOK /\ tick \in Nat /\ dir \in Directory /\ route \in {"local", "drive", "raw"}
  BY DEF RestoreInv, RestoreTypeOK, Values
<1>b. step # "idle" => /\ route = "local" => backup \in DOMAIN Snapshots /\ Snapshots[backup] \in Object
                       /\ route = "drive" => backup \in DOMAIN Backups /\ Backups[backup] \in Entries(Backups)
                       /\ route = "raw" => backup \in DOMAIN Raws /\ Raws[backup] \in Entries(Raws)
  BY Entry DEF RestoreInv, Doing, Known, Entries
<1>c. \A p \in Paths : dir[p] # Nothing => dir[p] \in Object
  BY <1>a DEF Directory
<1>1. ASSUME step' \notin {"writable", "clean"} PROVE Promised'
  BY <1>1 DEF Promised
<1>2. ASSUME step' = step, UNCHANGED request,
             step # "idle" => dir'[Dest] = dir[Dest] /\ dir'[Staging] = dir[Staging]
      PROVE  Promised'
  <2>1. Wanted' = Wanted /\ Dest' = Dest /\ Staging' = Staging
    BY <1>2 DEF Wanted, Dest, Staging, request
  <2> QED
    BY <1>2, <2>1 DEF Promised, request
<1>3. ASSUME NEW n \in Live, Work(n) PROVE Promised'
  <2>1. /\ step' = step /\ UNCHANGED request /\ (step # "idle" => n # dest /\ n # backup)
        /\ \E o : Put(<<n, 0>>, o)
    BY <1>3 DEF Work, Writable, Mine
  <2>2. step # "idle" => dir'[Dest] = dir[Dest] /\ dir'[Staging] = dir[Staging]
    BY <1>0, <1>a, <2>1 DEF Put, Directory, Dest, Staging
  <2> QED
    BY <1>2, <2>1, <2>2
<1>4. ASSUME NEW n \in Live, TakeSnapshot(n) PROVE Promised'
  BY <1>2, <1>4 DEF TakeSnapshot
<1>5. ASSUME NEW r, NEW b, NEW d, NEW f, Refuse(r, b, d, f) \/ DryRun(r, b, d, f) PROVE Promised'
  BY <1>2, <1>5 DEF Refuse, DryRun
<1>6. ASSUME NEW r \in {"local", "drive", "raw"}, NEW b, NEW d, NEW f, Begin(r, b, d, f) PROVE Promised'
  <2>1. route' = r /\ (step' = "writable" => r = "local") /\ step' # "clean"
    BY <1>6 DEF Begin, Request, AfterRename
  <2> QED
    BY <2>1 DEF Promised
<1>7. CASE MoveAside
  <2>1. step' = AfterRename(route) /\ route' = route /\ route # "raw"
    BY <1>7 DEF MoveAside, Goto, request, RestoreInv, Doing
  <2>2. step' # "clean" /\ (step' = "writable" => route' = "local")
    BY <1>a, <2>1 DEF AfterRename
  <2> QED
    BY <2>2 DEF Promised
<1>8. CASE ChooseParent \/ ReceiveStarts
  BY <1>1, <1>8 DEF ChooseParent, ReceiveStarts, Goto
<1>9. ASSUME NEW p, NEW v, Received(p, v, Wanted), Goto("writable"), step \in {"receiving", "rawReceiving"}
      PROVE  Promised'
  <2>1. dir'[Staging].data = Wanted
    <3> DEFINE w == Wanted
               o == [dir[Staging] EXCEPT !.parent = p, !.recv = v, !.ro = TRUE, !.data = w]
    <3>1. dir'[Staging] = o
      BY <1>0, <1>9, <1>a DEF Received, Put, Directory
    <3>2. dir[Staging] \in Object
      BY <1>0, <1>9, <1>c DEF RestoreInv, RestoreTypeOK, HasSource, Doing, Staging, IsSubvol
    <3> HIDE DEF w
    <3>3. o.data = w
      BY <3>2 DEF Object
    <3> QED
      BY <3>1, <3>3 DEF w
  <2>2. step' = "writable" /\ Wanted' = Wanted /\ Staging' = Staging
    BY <1>9 DEF Goto, Wanted, Staging, request
  <2> QED
    BY <2>1, <2>2 DEF Promised
<1>10. CASE ReceiveEnds
  <2> DEFINE b == Backups[backup]  p == selection.parent
  <2>1. /\ step = "receiving" /\ Goto("writable") /\ Wanted = b.data
        /\ p \in Entries(Backups) \cup {NoSub}
    BY <1>10 DEF ReceiveEnds, RestoreInv, Doing, Wanted, Alike, SendSide
  <2>2. CASE Received(NoUuid, Origin(b), b.data)
    BY <1>9, <2>1, <2>2
  <2>3. ASSUME NEW q \in BaseOf(Origin(p)), p # NoSub,
               Received(q.id, Origin(b), IF q.data = p.data THEN b.data ELSE Garbage)
        PROVE  Promised'
    <3>1. q.data = p.data
      BY <1>a, <2>1, <2>3, SentBase
    <3> QED
      BY <1>9, <2>1, <2>3, <3>1
  <2> QED
    BY <1>10, <2>2, <2>3 DEF ReceiveEnds
<1>11. CASE RawReceiveEnds
  <2> DEFINE r == Raws[backup]
  <2>1. /\ step = "rawReceiving" /\ Goto("writable") /\ Wanted = r.data /\ r \in Entries(Raws)
    BY <1>11, <1>b DEF RawReceiveEnds, RestoreInv, Doing, Wanted
  <2>2. CASE Received(NoUuid, r.of, r.data)
    BY <1>9, <2>1, <2>2
  <2>3. ASSUME NEW q \in BaseOf(r.need), Received(q.id, r.of, IF q.data = r.base THEN r.data ELSE Garbage)
        PROVE  Promised'
    <3>1. q.data = r.base
      BY <1>a, <2>1, <2>3, RawBase
    <3> QED
      BY <1>9, <2>1, <2>3, <3>1
  <2> QED
    BY <1>11, <2>2, <2>3 DEF RawReceiveEnds
<1>12. CASE ReceiveFails \/ ReceiveBlocked \/ RawReceiveFails \/ WritableFails \/ DeleteStaging
            \/ CallFails \/ Killed
  BY <1>1, <1>12 DEF ReceiveFails, ReceiveBlocked, RawReceiveFails, WritableFails, DeleteStaging,
     CallFails, Killed, Finish
<1>13. CASE MakeWritable
  <2>1. step = "writable" /\ Put(Dest, Copy) /\ AfterCopy
    BY <1>13 DEF MakeWritable
  <2>2. SUFFICES ASSUME step' \in {"writable", "clean"} PROVE Promised'
    BY <1>1
  <2>3. step' = "clean" /\ route # "local" /\ UNCHANGED request
    BY <2>1, <2>2 DEF AfterCopy, Goto, Finish
  <2>4. Wanted' = Wanted /\ Dest' = Dest
    BY <2>3 DEF Wanted, Dest, request
  <2>5. Source \in Object /\ Source.data = Wanted
    <3>1. Source = dir[Staging] /\ IsSubvol(dir[Staging])
      BY <2>1, <2>3 DEF Source, RestoreInv, RestoreTypeOK, HasSource, Staging
    <3> QED
      BY <1>0, <1>c, <2>1, <2>3, <3>1 DEF Promised, IsSubvol
  <2>6. IsSubvol(Copy) /\ ~Copy.ro /\ Copy.data = Wanted
    <3>1. Copy.data = Source.data /\ ~Copy.ro
      BY DEF Copy, NewSubvol
    <3> QED
      BY <1>a, <2>5, <3>1, CopyObject
  <2>7. dir'[Dest] = Copy
    BY <1>0, <1>a, <2>1 DEF Put, Directory
  <2> QED
    BY <2>3, <2>4, <2>6, <2>7 DEF Promised
<1>14. CASE MakeNested
  <2> DEFINE o == [dir[Dest] EXCEPT !.holds = @ \cup {backup}]
  <2>1. /\ route = "raw" /\ Put(Dest, o) /\ dir[Dest] # Nothing /\ ~dir[Dest].ro
        /\ \/ IsSubvol(dir[Dest]) /\ step' = "clean" /\ UNCHANGED request
           \/ step' = "idle"
    BY <1>14 DEF MakeNested, Nests, Goto, Finish
  <2>2. SUFFICES ASSUME IsSubvol(dir[Dest]), step' = "clean", UNCHANGED request PROVE Promised'
    BY <1>1, <2>1
  <2>3. o \in Object /\ o.id = dir[Dest].id /\ o.ro = dir[Dest].ro /\ backup \in o.holds
    <3>1. dir[Dest] \in Object /\ backup \in Roots
      BY <1>0, <1>c, <2>1 DEF RestoreInv, RestoreTypeOK, Values
    <3> QED
      BY <3>1 DEF Object
  <2>4. dir'[Dest] = o /\ Dest' = Dest /\ route' = "raw" /\ backup' = backup
    BY <1>0, <1>a, <2>1, <2>2 DEF Put, Directory, Dest, request
  <2> HIDE DEF o
  <2>5. IsSubvol(o) /\ ~o.ro
    BY <2>1, <2>2, <2>3, RestoreAssumption DEF IsSubvol, Nothing
  <2> QED
    BY <2>2, <2>3, <2>4, <2>5 DEF Promised
<1>15. CASE UNCHANGED rvars
  BY <1>2, <1>15 DEF rvars
<1> QED
  BY <1>3, <1>4, <1>5, <1>6, <1>7, <1>8, <1>10, <1>11, <1>12, <1>13, <1>14, <1>15
     DEF Next, Start, Go, User

(* A restore of a snapshot or a backup reports success only with a         *)
(* writable subvolume at dest that holds what the backup holds, and with   *)
(* no staging copy left; a restore of a raw stream too, unless dest was    *)
(* there and took the copy inside it.                                      *)
THEOREM SuccessIsARestore == Spec => NewDestIsRestored
<1> DEFINE Good == (MadeInside(dir'[Dest]) \/ IsRestored(dir'[Dest])) /\ StagingGone
<1>1. ASSUME RestoreInv, Promised, [Next]_rvars, Succeeds
      PROVE  Good
  <2>a. step # "idle" /\ step' = "idle" /\ result' = "ok"
    BY <1>1 DEF Succeeds
  <2>0. /\ Dest \in Paths /\ Staging \in Paths /\ dir \in Directory /\ tick \in Nat
    BY <1>1, <2>a, NamePaths DEF RestoreInv, RestoreTypeOK, Values
  <2>1. CASE MakeWritable
    <3>1. step = "writable" /\ Put(Dest, Copy) /\ route = "local"
      BY <1>1, <2>a, <2>1 DEF MakeWritable, AfterCopy, Finish, Goto
    <3>2. Source \in Object /\ Source.data = Wanted
      BY <1>1, <2>a, <3>1, Entry DEF Source, Wanted, RestoreInv, Doing
    <3>3. Copy.data = Source.data /\ ~Copy.ro
      BY DEF Copy, NewSubvol
    <3>4. dir'[Dest] = Copy
      BY <2>0, <3>1 DEF Put, Directory
    <3> QED
      BY <2>0, <3>1, <3>2, <3>3, <3>4, CopyObject DEF IsRestored, StagingGone
  <2>2. CASE DeleteStaging
    <3>1. step = "clean" /\ Put(Staging, Nothing) /\ dest # backup
      BY <2>2, <1>1, <2>a DEF DeleteStaging, RestoreInv, Doing
    <3>2. dir'[Dest] = dir[Dest] /\ dir'[Staging] = Nothing
      BY <2>0, <3>1 DEF Put, Directory, Dest, Staging
    <3> QED
      BY <1>1, <2>a, <3>1, <3>2 DEF Promised, MadeInside, IsRestored, StagingGone
  <2>3. ~(ReceiveFails \/ ReceiveBlocked \/ RawReceiveFails \/ WritableFails \/ CallFails \/ Killed \/ MakeNested)
    BY <1>1, <2>a DEF ReceiveFails, ReceiveBlocked, RawReceiveFails, WritableFails, CallFails, Killed,
       MakeNested, Finish, Goto
  <2>4. ~(MoveAside \/ ChooseParent \/ ReceiveStarts \/ ReceiveEnds \/ RawReceiveEnds)
    BY <1>1, <2>a, <2>0 DEF MoveAside, AfterRename, ChooseParent, ReceiveStarts, ReceiveEnds, RawReceiveEnds,
       Goto, RestoreInv, RestoreTypeOK, Values
  <2>5. ASSUME NEW n \in Live, Work(n) \/ TakeSnapshot(n) PROVE FALSE
    BY <1>1, <2>a, <2>5 DEF Work, TakeSnapshot
  <2>6. ASSUME NEW r, NEW b, NEW d, NEW f, Start(r, b, d, f) PROVE FALSE
    BY <1>1, <2>a, <2>6 DEF Start, Begin, Refuse, DryRun, Accepted
  <2>7. ~UNCHANGED rvars
    BY <1>1, <2>a DEF rvars
  <2> QED
    BY <1>1, <2>a, <2>1, <2>2, <2>3, <2>4, <2>5, <2>6, <2>7 DEF Next, Go, User
<1>2. RestoreInv /\ Promised /\ [Next]_rvars
        => [Succeeds => Good]_rvars
  BY <1>1
<1>3. Init => Alike /\ Promised
  BY InitAlike
<1> QED
  BY <1>2, <1>3, RestoreInitInv, NextRestoreTypes, NextAlike, NextPromised, PTL DEF Spec, NewDestIsRestored
=============================================================================
