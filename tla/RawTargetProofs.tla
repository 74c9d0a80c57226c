--------------------------- MODULE RawTargetProofs ---------------------------
(***************************************************************************)
(* A backup on a raw target is listed only with its stream, and loses it   *)
(* only to a prune: for any number of snapshots, timestamps, writers and   *)
(* failures, and whatever retention drops.                                 *)
(*                                                                         *)
(* Files are told apart by name alone, so the proof is about names: those  *)
(* of the snapshots and of the listed backups rise with the snapshots' ids *)
(* (InOrder), because the newest listed backup keeps its snapshot on the   *)
(* source (Anchored), where next_free_name sees it.                        *)
(***************************************************************************)
EXTENDS RawTarget, SubvolumesProofs

Less(a, b) == a.time < b.time \/ (a.time = b.time /\ a.nn < b.nn)

(* The snapshots that are there or have a backup, with their names.        *)
Known == {<<s.id, s.leaf>> : s \in src} \cup {<<i.recv, i.leaf>> : i \in infos}

InOrder ==
  \A x, y \in Known : /\ x[1] < y[1] => Less(x[2], y[2])
                      /\ x[1] = y[1] => x[2] = y[2]

Numbered ==
  /\ 1 <= tick
  /\ \A s \in src : /\ 2 <= s.id /\ s.id <= tick /\ s.ro /\ s.recv = NoUuid
                    /\ s.leaf.base = Series /\ s.leaf.nn <= tick
  /\ \A i \in infos : i.id = MaxId + i.recv /\ 2 <= i.recv /\ i.recv <= tick
  /\ \A s, t \in src : s.id = t.id => s = t
  /\ \A i, j \in infos : i.recv = j.recv => i = j

(* A backup the command will not delete.                                   *)
Kept(i) == i \in infos /\ Whole(i) /\ i.id \notin Ids(delB)

Anchored ==
  infos # {} =>
    \E i \in infos, s \in src :
      /\ Kept(i) /\ s.id = i.recv /\ s.id \notin Ids(delS)
      /\ \A j \in infos : j.recv <= i.recv

(* What is about to be sent is on the source and has no backup; what was   *)
(* listed is still so.                                                     *)
Unsent == mine \in src /\ \A i \in infos : i.recv # mine.id

Sending ==
  /\ pc = "list" /\ cmd = "run" => Unsent
  /\ pc \in {"idle", "list", "bootstrap", "uuid", "pipe", "verify", "sidecar"} => own = {}
  /\ pc \in {"bootstrap", "uuid", "pipe", "verify", "sidecar"} =>
       Unsent /\ snaps = src /\ baks = Listing
  /\ pc = "sidecar" => \E f \in FileOf(mine.leaf, codec) : f.whole /\ f.of = mine.id

Pruning ==
  /\ pc = "plan" => snaps = src /\ baks = Listing
  /\ pc \notin {"pruneB", "unlink", "pruneS"} => delB = {} /\ delS = {}
  /\ pc = "unlink" => victim \in delB
  /\ pc \in {"plan", "pruneB", "unlink", "pruneS"} =>
       /\ own # {} => \E i \in infos : i.recv = mine.id /\ Kept(i) /\ i.id \in own
       /\ cmd = "run" => mine \in src /\ mine.id \notin Ids(delS)

RawInv ==
  /\ TypeOK /\ Numbered /\ InOrder /\ ListedNeverPartial
  /\ Anchored /\ Sending /\ Pruning

-----------------------------------------------------------------------------
(* Names and files.                                                        *)
LEMMA LessIsStrict ==
  ASSUME NEW a \in Leaf, NEW b \in Leaf, NEW c \in Leaf
  PROVE  /\ Less(a, b) => a # b
         /\ Less(a, b) /\ Less(b, c) => Less(a, c)
BY DEF Less, Leaf

LEMMA KnownPairs ==
  ASSUME RawInv
  PROVE  /\ \A s \in src : <<s.id, s.leaf>> \in Known /\ s.id \in Nat /\ s.leaf \in Leaf
         /\ \A i \in infos : <<i.recv, i.leaf>> \in Known /\ i.recv \in Nat /\ i.leaf \in Leaf
                             /\ i.id \in Nat
         /\ \A x \in Known : x[1] \in Nat /\ x[2] \in Leaf /\ x[1] <= tick
<1>1. /\ \A s \in src : s.id \in Nat /\ s.leaf \in Leaf /\ s.id <= tick
      /\ \A i \in infos : i.recv \in Nat /\ i.leaf \in Leaf /\ i.recv <= tick /\ i.id \in Nat
  BY DEF RawInv, TypeOK, FilesTypeOK, Subvol, Info, Numbered
<1> QED
  BY <1>1 DEF Known

LEMMA NamesDiffer ==
  ASSUME RawInv, NEW x \in Known, NEW y \in Known, x[1] # y[1]
  PROVE  x[2] # y[2]
<1>1. x[1] \in Nat /\ y[1] \in Nat /\ x[2] \in Leaf /\ y[2] \in Leaf
  BY KnownPairs
<1>2. Less(x[2], y[2]) \/ Less(y[2], x[2])
  BY <1>1 DEF RawInv, InOrder
<1> QED
  BY <1>1, <1>2, LessIsStrict

(* Two backups whose streams share a file name are one.                    *)
LEMMA OneNameOneInfo ==
  ASSUME RawInv, NEW i \in infos, NEW j \in infos, i.leaf = j.leaf
  PROVE  i = j
<1>1. i.recv = j.recv
  <2> DEFINE x == <<i.recv, i.leaf>>  y == <<j.recv, j.leaf>>
  <2>1. x \in Known /\ y \in Known /\ x[2] = y[2]
    BY KnownPairs
  <2>2. x[1] = y[1]
    BY <2>1, NamesDiffer
  <2> QED
    BY <2>2
<1> QED
  BY <1>1 DEF RawInv, Numbered

LEMMA MineHasNoInfo ==
  ASSUME RawInv, Unsent
  PROVE  \A i \in infos : i.leaf # mine.leaf
<1> SUFFICES ASSUME NEW i \in infos PROVE i.leaf # mine.leaf
  OBVIOUS
<1> DEFINE x == <<i.recv, i.leaf>>  y == <<mine.id, mine.leaf>>
<1>1. x \in Known /\ y \in Known /\ x[1] # y[1]
  BY KnownPairs DEF Unsent
<1>2. x[2] # y[2]
  BY <1>1, NamesDiffer
<1> QED
  BY <1>2

(* What is written under the name of what is sent touches no other's file. *)
LEMMA OtherFilesStay ==
  ASSUME RawInv, Unsent,
         \A f : f.leaf # mine.leaf => (f \in streams <=> f \in streams')
  PROVE  \A i \in infos : FileNamed(i)' = FileNamed(i) /\ Whole(i)' = Whole(i)
<1> SUFFICES ASSUME NEW i \in infos
             PROVE  FileNamed(i)' = FileNamed(i) /\ Whole(i)' = Whole(i)
  OBVIOUS
<1>1. i.leaf # mine.leaf
  BY MineHasNoInfo
<1>2. FileNamed(i)' = FileNamed(i)
  BY <1>1 DEF FileNamed, FileOf
<1> QED
  BY <1>2 DEF Whole

(* A copy correlates with its snapshot and nothing else.                   *)
LEMMA CorrelatedIsRecorded ==
  ASSUME RawInv, NEW s \in src, NEW i \in infos
  PROVE  Correlated(s, AsSubvol(i)) <=> s.id = i.recv
BY DEF RawInv, Numbered, Correlated, Same, AsSubvol, NoUuid

-----------------------------------------------------------------------------
(* Steps that leave the files of the target and the snapshots alone.       *)
LEMMA NamesStay ==
  ASSUME RawInv, UNCHANGED <<src, infos, tick>>
  PROVE  Numbered' /\ InOrder'
BY DEF RawInv, Numbered, InOrder, Known

LEMMA FilesStay ==
  ASSUME RawInv, UNCHANGED <<streams, infos>>
  PROVE  /\ ListedNeverPartial'
         /\ \A i \in infos : Whole(i)' = Whole(i)
<1>1. \A i \in infos : FileNamed(i)' = FileNamed(i) /\ Whole(i)' = Whole(i)
  BY DEF FileNamed, FileOf, Whole
<1> QED
  BY <1>1 DEF RawInv, ListedNeverPartial

(* A command that ends: nothing is left to delete.                         *)
LEMMA FinishKeeps ==
  ASSUME RawInv, NEW r \in {"ok", "error", "killed"}, Finish(r), FilesTypeOK',
         UNCHANGED <<src, infos, tick>>,
         \A i \in infos : FileNamed(i)' = FileNamed(i) /\ Whole(i)' = Whole(i)
  PROVE  RawInv'
<1>1. CommandTypeOK'
  BY DEF Finish, RawInv, TypeOK, CommandTypeOK, NoSel, Modes
<1>2. ListedNeverPartial'
  BY DEF RawInv, ListedNeverPartial
<1>3. delB' = {} /\ delS' = {}
  BY DEF Finish
<1>4. Anchored'
  <2> SUFFICES ASSUME infos # {} PROVE Anchored'
    BY DEF Anchored
  <2>1. PICK i \in infos, s \in src : Whole(i) /\ s.id = i.recv /\ \A j \in infos : j.recv <= i.recv
    BY DEF RawInv, Anchored, Kept
  <2> QED
    BY <1>3, <2>1 DEF Anchored, Kept, Ids
<1>5. Sending' /\ Pruning'
  BY <1>3 DEF Finish, Sending, Pruning
<1> QED
  BY <1>1, <1>2, <1>4, <1>5, NamesStay DEF RawInv, TypeOK

LEMMA QuietKeeps ==
  ASSUME RawInv, UNCHANGED <<src, infos, tick, delB, delS>>,
         \A i \in infos : FileNamed(i)' = FileNamed(i) /\ Whole(i)' = Whole(i)
  PROVE  /\ Numbered' /\ InOrder' /\ ListedNeverPartial' /\ Anchored'
         /\ \A i \in infos : Kept(i) => Kept(i)'
<1>1. \A i \in infos : Kept(i) => Kept(i)'
  BY DEF Kept
<1>2. ListedNeverPartial'
  BY DEF RawInv, ListedNeverPartial
<1>3. Anchored'
  BY <1>1 DEF RawInv, Anchored
<1> QED
  BY <1>1, <1>2, <1>3, NamesStay

-----------------------------------------------------------------------------
(* The commands begin: the new snapshot's name is after every known one.   *)
LEMMA NewNameIsLast ==
  ASSUME RawInv, NEW t \in Times, ClockAt(t)
  PROVE  LET l == NextFreeLeaf(Series, t, LeavesOf(src)) IN
           /\ l \in Leaf /\ l.base = Series /\ l.nn <= tick + 1
           /\ \A x \in Known : Less(x[2], l)
<1> DEFINE l == NextFreeLeaf(Series, t, LeavesOf(src))
<1>0. Series \in Bases /\ t \in Nat /\ tick \in Nat
  BY RawAssumption DEF RawInv, TypeOK, FilesTypeOK
<1>1. LeavesOf(src) \subseteq Leaf /\ \A k \in LeavesOf(src) : k.nn <= tick /\ k.base = Series /\ k.time <= t
  <2>1. \A s \in src : s.leaf \in Leaf
    BY KnownPairs
  <2>2. \A s \in src : s.leaf.nn <= tick /\ s.leaf.base = Series /\ s.leaf.time <= t
    BY DEF RawInv, Numbered, ClockAt
  <2> QED
    BY <2>1, <2>2 DEF LeavesOf
<1>2. /\ l \in Leaf /\ l.base = Series /\ l.nn <= tick + 1 /\ l.time = t
      /\ \A k \in LeavesOf(src) : k.base = Series /\ k.time = t => k.nn < l.nn
  <2> DEFINE L == LeavesOf(src)
  <2>1. L \subseteq Leaf /\ \A k \in L : k.base = Series => k.nn <= tick
    BY <1>1
  <2> HIDE DEF L
  <2>2. LET f == NextFreeLeaf(Series, t, L) IN
          /\ f \in Leaf /\ f.base = Series /\ f.nn <= tick + 1 /\ f.time = t
          /\ \A k \in L : k.base = Series /\ k.time = t => k.nn < f.nn
    BY <1>0, <2>1, NextFreeLeafIsFree
  <2> QED
    BY <2>2 DEF L
<1> HIDE DEF l
<1>3. \A s \in src : Less(s.leaf, l)
  <2> SUFFICES ASSUME NEW s \in src PROVE Less(s.leaf, l)
    OBVIOUS
  <2>1. s.leaf \in LeavesOf(src)
    BY DEF LeavesOf
  <2>2. s.leaf.time \in Nat /\ s.leaf.time <= t /\ (s.leaf.time = t => s.leaf.nn < l.nn)
    BY <1>1, <1>2, <2>1 DEF Leaf
  <2> QED
    BY <1>0, <1>2, <2>2 DEF Less
<1>4. \A i \in infos : Less(i.leaf, l)
  <2> SUFFICES ASSUME NEW i \in infos PROVE Less(i.leaf, l)
    OBVIOUS
  <2>1. PICK s \in src : i.recv <= s.id
    BY DEF RawInv, Anchored
  <2> DEFINE x == <<i.recv, i.leaf>>  y == <<s.id, s.leaf>>
  <2>2. x \in Known /\ y \in Known /\ x[1] \in Nat /\ y[1] \in Nat /\ x[2] \in Leaf /\ y[2] \in Leaf
    BY KnownPairs
  <2>3. x[2] = y[2] \/ Less(x[2], y[2])
    BY <2>1, <2>2 DEF RawInv, InOrder
  <2>4. Less(y[2], l)
    BY <1>3
  <2> HIDE DEF x, y
  <2>5. Less(x[2], l)
    BY <1>2, <2>2, <2>3, <2>4, LessIsStrict
  <2> QED
    BY <2>5 DEF x
<1>5. \A x \in Known : Less(x[2], l)
  BY <1>3, <1>4 DEF Known
<1> QED
  BY <1>2, <1>5 DEF l

LEMMA TakingKeeps ==
  ASSUME RawInv, NEW t \in Times, TakeSnapshot(t)
  PROVE  /\ FilesTypeOK' /\ Numbered' /\ InOrder' /\ ListedNeverPartial' /\ Anchored'
         /\ \E s \in Subvol : /\ s.id = tick + 1 /\ s \notin src /\ src' = src \cup {s}
<1> DEFINE l == NextFreeLeaf(Series, t, LeavesOf(src))
           n == [id |-> tick + 1, parent |-> 1, recv |-> NoUuid, ro |-> TRUE, leaf |-> l]
<1>1. l \in Leaf /\ l.base = Series /\ l.nn <= tick + 1 /\ \A x \in Known : Less(x[2], l)
  BY NewNameIsLast DEF TakeSnapshot
<1>2. src' = src \cup {n} /\ tick' = tick + 1 /\ tick \in Nat /\ faults' = faults
  BY DEF TakeSnapshot, RawInv, TypeOK, FilesTypeOK
<1>3. UNCHANGED <<dirVars, delB, delS>>
  BY DEF TakeSnapshot, planVars
<1> HIDE DEF l
<1>4. n \in Subvol /\ n.id = tick + 1 /\ n.leaf = l /\ n.ro /\ n.recv = NoUuid
  BY <1>1, <1>2 DEF Subvol, NoUuid
<1> HIDE DEF n
<1>5. FilesTypeOK'
  BY <1>2, <1>3, <1>4 DEF RawInv, TypeOK, FilesTypeOK, dirVars
<1>6. Numbered'
  <2>1. \A s \in src' : /\ 2 <= s.id /\ s.id <= tick' /\ s.ro /\ s.recv = NoUuid
                         /\ s.leaf.base = Series /\ s.leaf.nn <= tick'
    <3>1. \A s \in src : /\ s.id \in Nat /\ s.leaf \in Leaf
                         /\ 2 <= s.id /\ s.id <= tick /\ s.ro /\ s.recv = NoUuid
                         /\ s.leaf.base = Series /\ s.leaf.nn <= tick
      BY KnownPairs DEF RawInv, Numbered
    <3>2. \A k \in Leaf : k.nn \in Nat
      BY DEF Leaf
    <3>3. 1 <= tick
      BY DEF RawInv, Numbered
    <3>4. \A s \in src : s.id <= tick + 1 /\ s.leaf.nn <= tick + 1
      BY <1>2, <3>1, <3>2
    <3>5. 2 <= tick + 1 /\ tick + 1 <= tick + 1
      BY <1>2, <3>3
    <3> QED
      BY <1>1, <1>2, <1>4, <3>1, <3>4, <3>5
  <2>2. \A i \in infos' : i.id = MaxId + i.recv /\ 2 <= i.recv /\ i.recv <= tick'
    <3>1. \A i \in infos : i.recv \in Nat /\ i.id = MaxId + i.recv /\ 2 <= i.recv /\ i.recv <= tick
      BY KnownPairs DEF RawInv, Numbered
    <3> QED
      BY <1>2, <1>3, <3>1 DEF dirVars
  <2>3. \A s, u \in src' : s.id = u.id => s = u
    BY <1>2, <1>4, KnownPairs DEF RawInv, Numbered
  <2> QED
    <3>1. 1 <= tick'
      BY <1>2
    <3> QED
      BY <1>3, <2>1, <2>2, <2>3, <3>1 DEF RawInv, Numbered, dirVars
<1>7. InOrder'
  <2>1. Known' = Known \cup {<<tick + 1, l>>}
    BY <1>2, <1>3, <1>4 DEF Known, dirVars
  <2>2. \A x \in Known : x[1] < tick + 1 /\ Less(x[2], l)
    BY <1>1, <1>2, KnownPairs
  <2> QED
    BY <1>2, <2>1, <2>2, KnownPairs DEF RawInv, InOrder
<1>8. ListedNeverPartial' /\ \A i \in infos : Whole(i)' = Whole(i)
  BY <1>3, FilesStay DEF dirVars
<1>9. Anchored'
  BY <1>2, <1>3, <1>8 DEF RawInv, Anchored, Kept, dirVars
<1>10. n \notin src
  <2>1. \A s \in src : s.id \in Nat /\ s.id <= tick
    BY KnownPairs DEF RawInv, Numbered
  <2> QED
    BY <1>2, <1>4, <2>1
<1> QED
  BY <1>2, <1>4, <1>5, <1>6, <1>7, <1>8, <1>9, <1>10

LEMMA BeginKeeps ==
  ASSUME RawInv,
         \/ \E t \in Times : Snapshot(t) \/ \E k \in Codecs, m \in UsedModes : Run(t, k, m)
         \/ \E k \in Codecs, m \in UsedModes : Resume(k, m)
  PROVE  RawInv'
<1>0. UsedModes \subseteq Modes
  BY RawAssumption
<1>1. ASSUME NEW t \in Times, Snapshot(t) PROVE RawInv'
  <2>1. TakeSnapshot(t) /\ pc = "idle" /\ cmd = "none" /\ UNCHANGED <<optVars, pc, mine, sel, snaps, baks, own, planVars>>
    BY <1>1 DEF Snapshot, TakeSnapshot, RawInv, TypeOK, CommandTypeOK
  <2>2. CommandTypeOK'
    BY <1>1, <2>1 DEF Snapshot, RawInv, TypeOK, CommandTypeOK, optVars, planVars
  <2>3. Sending' /\ Pruning'
    BY <2>1 DEF RawInv, Sending, Pruning, optVars, planVars
  <2> QED
    BY <2>1, <2>2, <2>3, TakingKeeps DEF RawInv, TypeOK
<1>2. ASSUME NEW t \in Times, NEW k \in Codecs, NEW m \in UsedModes, Run(t, k, m) PROVE RawInv'
  <2>1. TakeSnapshot(t) /\ pc = "idle" /\ UNCHANGED <<sel, snaps, baks, own, planVars>>
    BY <1>2 DEF Run, TakeSnapshot
  <2>2. PICK s \in Subvol : s.id = tick + 1 /\ s \notin src /\ src' = src \cup {s}
    BY <2>1, TakingKeeps
  <2>3. mine' = s
    BY <1>2, <2>2 DEF Run
  <2>4. CommandTypeOK'
    BY <1>0, <1>2, <2>1, <2>3 DEF Run, RawInv, TypeOK, CommandTypeOK, planVars, Calls
  <2>5. infos' = infos /\ tick \in Nat
    BY <2>1 DEF TakeSnapshot, dirVars, RawInv, TypeOK, FilesTypeOK
  <2>6. Unsent'
    BY <2>2, <2>3, <2>5, KnownPairs DEF Unsent, RawInv, Numbered
  <2>7. pc' = "list" /\ own' = {} /\ delB' = {} /\ delS' = {}
    BY <1>2, <2>1 DEF Run, RawInv, Sending, Pruning, planVars
  <2>8. Sending' /\ Pruning'
    BY <2>6, <2>7 DEF Sending, Pruning
  <2> QED
    BY <2>1, <2>4, <2>8, TakingKeeps DEF RawInv, TypeOK
<1>3. ASSUME NEW k \in Codecs, NEW m \in UsedModes, Resume(k, m) PROVE RawInv'
  <2>1. /\ pc = "idle" /\ pc' = "list" /\ cmd' = "resume"
        /\ UNCHANGED <<src, dirVars, tick, faults, sendVars, planVars, res>>
    BY <1>3 DEF Resume
  <2>2. TypeOK'
    BY <1>0, <1>3, <2>1 DEF Resume, RawInv, TypeOK, FilesTypeOK, CommandTypeOK, dirVars, sendVars, planVars, Calls
  <2>3. Numbered' /\ InOrder' /\ ListedNeverPartial' /\ Anchored'
    BY <2>1, FilesStay, QuietKeeps DEF dirVars, planVars, FileNamed, FileOf
  <2>4. own' = {} /\ delB' = {} /\ delS' = {}
    BY <2>1 DEF RawInv, Sending, Pruning, sendVars, planVars
  <2>5. Sending' /\ Pruning'
    BY <2>1, <2>4 DEF Sending, Pruning
  <2> QED
    BY <2>2, <2>3, <2>5 DEF RawInv
<1> QED
  BY <1>1, <1>2, <1>3

-----------------------------------------------------------------------------
(* Commands that end without touching a file.                              *)
LEMMA QuitKeeps ==
  ASSUME RawInv, ListFails \/ BootstrapFails \/ Killed \/ DeleteFails \/ SnapshotsPruned
  PROVE  RawInv'
<1>1. /\ UNCHANGED <<src, dirVars, tick>> /\ (faults' = faults \/ faults' = faults + 1)
      /\ \E r \in {"ok", "error", "killed"} : Finish(r)
  BY DEF ListFails, BootstrapFails, Killed, DeleteFails, SnapshotsPruned, Fault
<1>2. FilesTypeOK'
  BY <1>1 DEF RawInv, TypeOK, FilesTypeOK, dirVars
<1>3. \A i \in infos : FileNamed(i)' = FileNamed(i) /\ Whole(i)' = Whole(i)
  BY <1>1 DEF FileNamed, FileOf, Whole, dirVars
<1> QED
  BY <1>1, <1>2, <1>3, FinishKeeps DEF dirVars

(* What is chosen to be sent has no backup, and its parents are snapshots. *)
LEMMA ToSendIsUnsent ==
  ASSUME RawInv, pc = "list", ToSend # NoSub
  PROVE  ToSend \in src /\ \A i \in infos : i.recv # ToSend.id
<1>1. CASE cmd = "run"
  BY <1>1 DEF ToSend, RawInv, Sending, Unsent
<1>2. CASE cmd # "run"
  <2>1. src \subseteq Subvol /\ tick \in Nat /\ \A s \in src : s.id <= tick
    BY DEF RawInv, TypeOK, FilesTypeOK, Numbered
  <2>2. ToSend = Due(src, Listing, Series)
    BY <1>2 DEF ToSend
  <2>3. ToSend \in src /\ TargetCorrelates(ToSend, Listing) = {}
    BY <2>1, <2>2, DueIsOwed
  <2>4. \A i \in infos : AsSubvol(i) \in Listing
    BY DEF Listing
  <2> QED
    BY <2>3, <2>4, CorrelatedIsRecorded DEF TargetCorrelates
<1> QED
  BY <1>1, <1>2

LEMMA ListingIsSubvols ==
  ASSUME RawInv
  PROVE  Listing \subseteq Subvol
<1> SUFFICES ASSUME NEW i \in infos PROVE AsSubvol(i) \in Subvol
  BY DEF Listing
<1>1. i.id \in Nat /\ i.recv \in Nat /\ i.leaf \in Leaf
  BY KnownPairs
<1> QED
  BY <1>1 DEF AsSubvol, Subvol, NoUuid

LEMMA ListKeeps ==
  ASSUME RawInv, List
  PROVE  RawInv'
<1>1. /\ pc = "list" /\ cmd # "none" /\ UNCHANGED <<src, dirVars, tick, faults, own, planVars, optVars, res>>
      /\ snaps' = src /\ baks' = Listing
  BY DEF List, Goto, RawInv, TypeOK, CommandTypeOK
<1>2. Numbered' /\ InOrder' /\ ListedNeverPartial' /\ Anchored'
  BY <1>1, FilesStay, QuietKeeps DEF dirVars, planVars, FileNamed, FileOf
<1>3. own' = {} /\ delB' = {} /\ delS' = {} /\ src' = src /\ infos' = infos /\ Listing' = Listing
  BY <1>1 DEF RawInv, Sending, Pruning, planVars, dirVars, Listing
<1>4. FilesTypeOK' /\ Listing \subseteq Subvol /\ src \subseteq Subvol
  BY <1>1, ListingIsSubvols DEF RawInv, TypeOK, FilesTypeOK, dirVars
<1>5. CASE ToSend # NoSub /\ mine' = ToSend /\ sel' = BestParent(ToSend, src, Listing, mode) /\ pc' = "bootstrap"
  <2>1. ToSend \in src /\ \A i \in infos : i.recv # ToSend.id
    BY <1>1, <1>5, ToSendIsUnsent
  <2>2. sel' \in [parent : Subvol \cup {NoSub}, clones : SUBSET Subvol]
    <3> DEFINE C == Candidates(ToSend, src, Listing, mode)
    <3>1. \A s \in src : s.id <= tick
      BY DEF RawInv, Numbered
    <3>2. tick \in Nat
      BY DEF RawInv, TypeOK, FilesTypeOK
    <3>3. sel'.parent \in C \cup {NoSub} /\ sel'.clones \subseteq C /\ C \subseteq src
      BY <1>4, <1>5, <3>1, <3>2, BestParentIsCandidate
    <3>4. sel' = [parent |-> sel'.parent, clones |-> sel'.clones]
      BY <1>5 DEF BestParent
    <3> HIDE DEF C
    <3>5. sel'.parent \in Subvol \cup {NoSub} /\ sel'.clones \subseteq Subvol
      BY <1>4, <3>3
    <3> QED
      BY <3>4, <3>5
  <2>3. CommandTypeOK'
    BY <1>1, <1>4, <1>5, <2>1, <2>2 DEF RawInv, TypeOK, CommandTypeOK, Calls, optVars, planVars
  <2>4. Unsent'
    BY <1>3, <1>5, <2>1 DEF Unsent
  <2>5. Sending' /\ Pruning'
    BY <1>1, <1>3, <1>5, <2>4 DEF Sending, Pruning
  <2> QED
    BY <1>2, <1>4, <2>3, <2>5 DEF RawInv, TypeOK
<1>6. CASE ToSend = NoSub /\ pc' = "plan" /\ UNCHANGED <<mine, sel>>
  <2>1. cmd # "run"
    BY <1>1, <1>4, <1>6, NoSubIsNone DEF ToSend, RawInv, Sending, Unsent
  <2>2. CommandTypeOK'
    BY <1>1, <1>4, <1>6 DEF RawInv, TypeOK, CommandTypeOK, Calls, optVars, planVars
  <2>3. Sending' /\ Pruning'
    BY <1>1, <1>3, <1>6, <2>1 DEF Sending, Pruning, optVars
  <2> QED
    BY <1>2, <1>4, <2>2, <2>3 DEF RawInv, TypeOK
<1> QED
  BY <1>5, <1>6 DEF List, Goto

-----------------------------------------------------------------------------
(* A transfer: only files under the new backup's own name change.          *)
LEMMA BootstrapKeeps ==
  ASSUME RawInv, Bootstrap \/ WriteUuid
  PROVE  RawInv'
<1>1. /\ pc \in {"bootstrap", "uuid"} /\ pc' \in {"pipe", "uuid"} /\ uuidFile' \in {"absent", "torn", "good"}
      /\ UNCHANGED <<src, streams, infos, tmp, tick, faults, sendVars, planVars, optVars, res>>
  BY DEF Bootstrap, WriteUuid, Goto, RawInv, TypeOK, FilesTypeOK
<1>2. FilesTypeOK'
  BY <1>1 DEF RawInv, TypeOK, FilesTypeOK
<1>3. CommandTypeOK'
  BY <1>1 DEF RawInv, TypeOK, CommandTypeOK, Calls, optVars, sendVars, planVars
<1>4. Numbered' /\ InOrder' /\ ListedNeverPartial' /\ Anchored'
  BY <1>1, FilesStay, QuietKeeps DEF planVars, FileNamed, FileOf
<1>5. Sending' /\ Pruning'
  BY <1>1 DEF RawInv, Sending, Pruning, Unsent, Listing, sendVars, planVars
<1> QED
  BY <1>2, <1>3, <1>4, <1>5 DEF RawInv, TypeOK

LEMMA PipeKeeps ==
  ASSUME RawInv, NEW w \in BOOLEAN,
         \/ PipeBegins /\ w = FALSE
         \/ PipeEnds /\ w = TRUE
  PROVE  RawInv'
<1>1. /\ pc \in {"pipe", "verify"} /\ pc' = (IF w THEN "sidecar" ELSE "verify")
      /\ streams' = (streams \ FileOf(mine.leaf, codec)) \cup {NewStream(w)}
      /\ tmp' = (IF w THEN tmp \cup {mine.leaf} ELSE tmp)
      /\ UNCHANGED <<src, uuidFile, infos, tick, faults, sendVars, planVars, optVars, res>>
  BY DEF PipeBegins, PipeEnds, Goto
<1>2. Unsent /\ mine \in Subvol
  BY <1>1 DEF RawInv, Sending, Unsent, TypeOK, FilesTypeOK
<1>3. mine.leaf \in Leaf /\ mine.id \in Nat
  BY <1>2 DEF Subvol
<1>4. Needs \subseteq Nat
  <2>1. sel.parent \in Subvol \cup {NoSub} /\ sel.clones \subseteq Subvol
    BY DEF RawInv, TypeOK, CommandTypeOK
  <2>2. (sel.clones \cup ({sel.parent} \ {NoSub})) \subseteq Subvol
    BY <2>1
  <2> QED
    BY <2>2 DEF Needs, Ids, Subvol
<1>5. NewStream(w) \in Stream
  BY <1>3, <1>4 DEF NewStream, Stream, RawInv, TypeOK, CommandTypeOK
<1>6. /\ NewStream(w).leaf = mine.leaf /\ NewStream(w).codec = codec
      /\ NewStream(w).of = mine.id /\ NewStream(w).whole = w
  BY DEF NewStream
<1>7. FilesTypeOK'
  BY <1>1, <1>3, <1>5 DEF RawInv, TypeOK, FilesTypeOK
<1>8. CommandTypeOK'
  BY <1>1 DEF RawInv, TypeOK, CommandTypeOK, Calls, optVars, sendVars, planVars
<1>9. \A f : f.leaf # mine.leaf => (f \in streams <=> f \in streams')
  BY <1>1, <1>6 DEF FileOf
<1>10. Numbered' /\ InOrder' /\ ListedNeverPartial' /\ Anchored'
  BY <1>1, <1>2, <1>9, OtherFilesStay, QuietKeeps DEF planVars
<1>11. w => \E f \in FileOf(mine.leaf, codec)' : f.whole /\ f.of = mine.id
  <2>1. NewStream(w) \in FileOf(mine.leaf, codec)'
    BY <1>1, <1>6 DEF FileOf, optVars, sendVars
  <2> QED
    BY <1>6, <2>1
<1>12. Sending'
  <2>1. Unsent' /\ snaps' = src' /\ baks' = Listing' /\ own' = {}
    BY <1>1, <1>2 DEF RawInv, Sending, Unsent, Listing, sendVars
  <2>2. mine' = mine /\ (pc' = "sidecar" => w)
    BY <1>1 DEF sendVars
  <2> QED
    BY <1>1, <1>11, <2>1, <2>2 DEF Sending
<1>13. Pruning'
  BY <1>1 DEF RawInv, Pruning, planVars
<1> QED
  BY <1>7, <1>8, <1>10, <1>12, <1>13 DEF RawInv, TypeOK

LEMMA TransferFailsKeeps ==
  ASSUME RawInv, TransferFails
  PROVE  RawInv'
<1>1. /\ pc \in {"pipe", "verify", "sidecar"} /\ Cleanup /\ Finish("error")
      /\ UNCHANGED <<src, uuidFile, tick>> /\ (faults' = faults \/ faults' = faults + 1)
  BY DEF TransferFails, Fault
<1>2. Unsent
  BY <1>1 DEF RawInv, Sending
<1>3. infos' = infos
  BY <1>1, <1>2, MineHasNoInfo DEF Cleanup
<1>4. \A f : f.leaf # mine.leaf => (f \in streams <=> f \in streams')
  BY <1>1 DEF Cleanup, FileOf
<1>5. FilesTypeOK'
  BY <1>1, <1>3 DEF RawInv, TypeOK, FilesTypeOK, Cleanup
<1> QED
  BY <1>1, <1>2, <1>3, <1>4, <1>5, OtherFilesStay, FinishKeeps

(* The sidecar appears: what was sent is now the newest backup, or not.    *)
LEMMA RenameSidecarKeeps ==
  ASSUME RawInv, RenameSidecar
  PROVE  RawInv'
<1>1. /\ pc = "sidecar" /\ pc' = "plan" /\ tmp' = tmp \ {mine.leaf}
      /\ UNCHANGED <<src, uuidFile, streams, tick, faults, mine, sel, snaps, planVars, optVars, res>>
      /\ baks' = baks \cup {AsSubvol(NewInfo)} /\ own' = {NewInfo.id}
  BY DEF RenameSidecar, Goto
<1>2. Unsent /\ mine \in Subvol /\ snaps = src /\ baks = Listing /\ delB = {} /\ delS = {}
  BY <1>1 DEF RawInv, Sending, Pruning, Unsent, TypeOK, FilesTypeOK
<1>3. infos' = infos \cup {NewInfo}
  BY <1>2, MineHasNoInfo DEF RenameSidecar
<1>4. /\ mine.leaf \in Leaf /\ mine.id \in Nat /\ 2 <= mine.id /\ mine.id <= tick
      /\ MaxId \in Nat /\ codec \in Codecs
  BY <1>2, RawAssumption DEF Unsent, Subvol, RawInv, Numbered, TypeOK, CommandTypeOK
<1>5. /\ NewInfo \in Info /\ NewInfo.id = MaxId + mine.id /\ NewInfo.recv = mine.id
      /\ NewInfo.leaf = mine.leaf /\ NewInfo.codec = codec
  BY <1>4 DEF NewInfo, Info
<1>6. FilesTypeOK'
  BY <1>1, <1>3, <1>5 DEF RawInv, TypeOK, FilesTypeOK
<1>7. Listing' = Listing \cup {AsSubvol(NewInfo)}
  BY <1>3 DEF Listing, AsSubvol
<1>8. AsSubvol(NewInfo) \in Subvol /\ Listing \subseteq Subvol
  BY <1>4, <1>5, ListingIsSubvols DEF AsSubvol, Subvol, NoUuid, Info
<1>9. CommandTypeOK'
  <2>1. own' \subseteq Nat
    BY <1>1, <1>4, <1>5
  <2> QED
    BY <1>1, <1>2, <1>8, <2>1 DEF RawInv, TypeOK, CommandTypeOK, Calls, optVars, planVars
<1>10. Numbered'
  <2>1. \A i, j \in infos' : i.recv = j.recv => i = j
    BY <1>2, <1>3, <1>5 DEF RawInv, Numbered, Unsent
  <2>2. \A i \in infos' : i.id = MaxId + i.recv /\ 2 <= i.recv /\ i.recv <= tick
    BY <1>3, <1>4, <1>5 DEF RawInv, Numbered
  <2> QED
    BY <1>1, <2>1, <2>2 DEF RawInv, Numbered
<1>11. InOrder'
  <2>1. Known' = Known
    BY <1>1, <1>2, <1>3, <1>5 DEF Known, Unsent
  <2> QED
    BY <2>1 DEF RawInv, InOrder
<1>12. \A i \in infos : Whole(i)' = Whole(i) /\ FileNamed(i)' = FileNamed(i)
  BY <1>1 DEF Whole, FileNamed, FileOf
<1>13. Whole(NewInfo)'
  <2>1. PICK f \in FileOf(mine.leaf, codec) : f.whole /\ f.of = mine.id
    BY <1>1 DEF RawInv, Sending
  <2>2. NewInfo' = NewInfo
    BY <1>1 DEF NewInfo, optVars
  <2>3. f \in FileNamed(NewInfo)'
    BY <1>1, <1>5, <2>1, <2>2 DEF FileNamed, FileOf
  <2> QED
    BY <1>5, <2>1, <2>2, <2>3 DEF Whole
<1>14. ListedNeverPartial'
  <2>1. NewInfo' = NewInfo
    BY <1>1 DEF NewInfo, optVars
  <2>2. \A i \in infos' : FileNamed(i)' = {} \/ Whole(i)'
    BY <1>3, <1>12, <1>13, <2>1 DEF RawInv, ListedNeverPartial
  <2> QED
    BY <2>2 DEF ListedNeverPartial
<1>15. delB' = {} /\ delS' = {} /\ src' = src /\ mine' = mine
  BY <1>1, <1>2 DEF planVars
<1>16. \A i \in infos' : Whole(i)' => Kept(i)'
  BY <1>15 DEF Kept, Ids
<1>17. NewInfo' = NewInfo
  BY <1>1 DEF NewInfo, optVars
<1> HIDE DEF NewInfo
<1>18. PICK n \in infos' : /\ Kept(n)' /\ n.recv = mine.id /\ n.id \in own'
                            /\ infos' = infos \cup {n}
  <2>1. \A n : n = NewInfo /\ n = NewInfo' => Whole(n)'
    BY <1>13 DEF Whole, FileNamed, FileOf
  <2>2. \E n : n = NewInfo /\ n = NewInfo'
    BY <1>17
  <2> QED
    BY <1>1, <1>3, <1>5, <1>16, <2>1, <2>2
<1>19. Anchored'
  <2> SUFFICES \E i \in infos', s \in src : /\ Kept(i)' /\ s.id = i.recv /\ \A j \in infos' : j.recv <= i.recv
    BY <1>15 DEF Anchored, Ids
  <2>1. CASE \A j \in infos : j.recv <= mine.id
    <3>1. \A j \in infos' : j.recv <= n.recv
      BY <1>4, <1>18, <2>1
    <3> QED
      BY <1>2, <1>18, <3>1 DEF Unsent
  <2>2. CASE ~ \A j \in infos : j.recv <= mine.id
    <3>1. PICK i \in infos, s \in src : Kept(i) /\ s.id = i.recv /\ \A j \in infos : j.recv <= i.recv
      BY <2>2 DEF RawInv, Anchored
    <3>2. mine.id <= i.recv
      <4>1. PICK j \in infos : ~(j.recv <= mine.id)
        BY <2>2
      <4>2. j.recv \in Nat /\ i.recv \in Nat /\ j.recv <= i.recv
        BY <3>1, KnownPairs
      <4> QED
        BY <1>4, <4>1, <4>2
    <3>3. Kept(i)'
      BY <1>3, <1>12, <1>16, <3>1 DEF Kept
    <3> QED
      BY <1>18, <3>1, <3>2, <3>3
  <2> QED
    BY <2>1, <2>2
<1>20. Sending'
  BY <1>1 DEF Sending
<1>21. Pruning'
  <2>1. snaps' = src' /\ baks' = Listing'
    BY <1>1, <1>2, <1>7
  <2>2. \E i \in infos' : i.recv = mine' .id /\ Kept(i)' /\ i.id \in own'
    BY <1>15, <1>18
  <2>3. mine' \in src' /\ mine' .id \notin Ids(delS)'
    BY <1>2, <1>15 DEF Unsent, Ids
  <2> QED
    BY <1>1, <1>15, <2>1, <2>2, <2>3 DEF Pruning
<1> QED
  BY <1>6, <1>9, <1>10, <1>11, <1>14, <1>19, <1>20, <1>21 DEF RawInv, TypeOK

-----------------------------------------------------------------------------
(* Pruning.  The newest listed backup and its snapshot are the last common *)
(* pair, so both are anchors.                                              *)
LEMMA AnchorIsThePair ==
  ASSUME RawInv, NEW i \in infos, NEW s \in src, s.id = i.recv,
         \A j \in infos : j.recv <= i.recv
  PROVE  /\ BackedUp(src, Listing) # {} /\ Newest(BackedUp(src, Listing)) = s
         /\ LatestCommonPair(src, Listing).snapshot = {s.id}
         /\ i.id \in LatestCommonPair(src, Listing).backups
<1> DEFINE B == BackedUp(src, Listing)
<1>1. AsSubvol(i) \in TargetCorrelates(s, Listing) /\ AsSubvol(i).id = i.id
  BY CorrelatedIsRecorded DEF TargetCorrelates, Listing, AsSubvol
<1>2. s \in B /\ B \subseteq src
  BY <1>1 DEF BackedUp
<1>3. src \subseteq Subvol /\ tick \in Nat /\ \A x \in src : x.id <= tick /\ x.id \in Nat
  BY KnownPairs DEF RawInv, TypeOK, FilesTypeOK, Numbered
<1>4. Newest(B) \in B /\ \A x \in B : x.id <= Newest(B).id
  <2>1. B \subseteq Subvol /\ B # {} /\ \A x \in B : x.id <= tick
    BY <1>2, <1>3
  <2> HIDE DEF B
  <2> QED
    BY <1>3, <2>1, NewestIsMember
<1>5. Newest(B).id <= s.id
  <2>1. PICK c \in Listing : Correlated(Newest(B), c)
    BY <1>4 DEF BackedUp, TargetCorrelates
  <2>2. PICK j \in infos : c = AsSubvol(j)
    BY <2>1 DEF Listing
  <2>3. Newest(B).id = j.recv
    BY <1>2, <1>4, <2>1, <2>2, CorrelatedIsRecorded
  <2> QED
    BY <2>3
<1>6. Newest(B) = s
  <2>1. Newest(B).id = s.id /\ Newest(B) \in src
    BY <1>2, <1>3, <1>4, <1>5
  <2> QED
    BY <2>1 DEF RawInv, Numbered
<1> QED
  BY <1>1, <1>2, <1>6 DEF LatestCommonPair, Ids

LEMMA PlanKeeps ==
  ASSUME RawInv, Plan
  PROVE  RawInv'
<1>1. /\ pc = "plan" /\ pc' = "pruneB" /\ sel' = NoSel /\ snaps' = {} /\ baks' = {}
      /\ UNCHANGED <<src, dirVars, tick, faults, mine, own, victim, optVars, res>>
  BY DEF Plan, Goto
<1>2. snaps = src /\ baks = Listing /\ delB = {} /\ delS = {} /\ Listing \subseteq Subvol /\ src \subseteq Subvol
  BY <1>1, ListingIsSubvols DEF RawInv, Pruning, TypeOK, FilesTypeOK
<1>3. PICK dropB \in Schedules(baks), dropS \in Schedules(snaps) :
        /\ delB' = Enforce(dropB, BackupIdsToKeep, FALSE)
        /\ delS' = Enforce(dropS, SnapshotIdsToKeep, snaps # {} /\ baks = {})
  BY DEF Plan
<1>4. dropB \subseteq Listing /\ dropS \subseteq src
  BY <1>2, <1>3 DEF Schedules, Named
<1>5. /\ delB' \subseteq Listing /\ delS' \subseteq src
      /\ \A d \in delB' : d.id \notin BackupIdsToKeep
      /\ \A d \in delS' : d.id \notin SnapshotIdsToKeep
  BY <1>3, <1>4, EnforceSpares
<1>6. FilesTypeOK' /\ Numbered' /\ InOrder' /\ ListedNeverPartial' /\ \A i \in infos : Whole(i)' = Whole(i)
  BY <1>1, NamesStay, FilesStay DEF dirVars, RawInv, TypeOK, FilesTypeOK
<1>7. CommandTypeOK'
  <2>1. sel' \in [parent : Subvol \cup {NoSub}, clones : SUBSET Subvol]
    BY <1>1 DEF NoSel
  <2>2. delB' \subseteq Subvol /\ delS' \subseteq Subvol
    BY <1>2, <1>5
  <2> QED
    BY <1>1, <2>1, <2>2 DEF RawInv, TypeOK, CommandTypeOK, Calls, optVars
<1>8. Anchored'
  <2> SUFFICES ASSUME infos # {}
               PROVE  \E i \in infos, s \in src :
                        /\ Kept(i)' /\ s.id = i.recv /\ s.id \notin Ids(delS)'
                        /\ \A j \in infos : j.recv <= i.recv
    BY <1>1 DEF Anchored, dirVars
  <2>1. PICK i \in infos, s \in src : Kept(i) /\ s.id = i.recv /\ \A j \in infos : j.recv <= i.recv
    BY DEF RawInv, Anchored
  <2>2. i.id \in BackupIdsToKeep /\ s.id \in SnapshotIdsToKeep
    <3>1. /\ i.id \in LatestCommonPair(src, Listing).backups
          /\ s.id \in LatestCommonPair(src, Listing).snapshot
      BY <2>1, AnchorIsThePair
    <3> QED
      BY <1>2, <3>1 DEF BackupIdsToKeep, SnapshotIdsToKeep
  <2>3. i.id \notin Ids(delB)' /\ s.id \notin Ids(delS)'
    BY <1>5, <2>2 DEF Ids
  <2>4. Kept(i)'
    BY <1>1, <1>6, <2>1, <2>3 DEF Kept, dirVars
  <2> QED
    BY <2>1, <2>3, <2>4
<1>9. Sending'
  BY <1>1 DEF Sending
<1>10. Pruning'
  <2>1. own' # {} => \E i \in infos' : i.recv = mine' .id /\ Kept(i)' /\ i.id \in own'
    <3> SUFFICES ASSUME own # {}
                 PROVE  \E i \in infos : i.recv = mine.id /\ Kept(i)' /\ i.id \in own
      BY <1>1 DEF dirVars
    <3>1. PICK i \in infos : i.recv = mine.id /\ Kept(i) /\ i.id \in own
      BY <1>1 DEF RawInv, Pruning
    <3>2. i.id \notin Ids(delB)'
      BY <1>5, <3>1 DEF Ids, BackupIdsToKeep
    <3>3. Kept(i)'
      BY <1>1, <1>6, <3>1, <3>2 DEF Kept, dirVars
    <3> QED
      BY <3>1, <3>3
  <2>2. cmd' = "run" => mine' \in src' /\ mine' .id \notin Ids(delS)'
    <3>1. cmd = "run" => mine \in src /\ mine.id \in SnapshotIdsToKeep
      BY <1>1 DEF RawInv, Pruning, SnapshotIdsToKeep, JustCreated
    <3> QED
      BY <1>1, <1>5, <3>1 DEF optVars, Ids
  <2> QED
    BY <1>1, <2>1, <2>2 DEF Pruning
<1> QED
  BY <1>6, <1>7, <1>8, <1>9, <1>10 DEF RawInv, TypeOK

(* Removing the files of one backup leaves those of the others.            *)
LEMMA StreamRemoved ==
  ASSUME RawInv, RemoveStream
  PROVE  /\ Oldest(delB) \in delB
         /\ \A i \in infos : i.id # Oldest(delB).id => FileNamed(i)' = FileNamed(i) /\ Whole(i)' = Whole(i)
         /\ \A i \in infos : i.id = Oldest(delB).id => FileNamed(i)' = {}
<1> DEFINE b == Oldest(delB)
<1>1. delB # {} /\ streams' = streams \ FilesOf(b)
  BY DEF RemoveStream
<1>2. b \in delB
  BY <1>1, OldestIsMember DEF RawInv, TypeOK, CommandTypeOK
<1> HIDE DEF b
<1>3. ASSUME NEW i \in infos, i.id # b.id PROVE FileNamed(i)' = FileNamed(i) /\ Whole(i)' = Whole(i)
  <2>1. \A f \in FileNamed(i) : f \notin FilesOf(b)
    <3> SUFFICES ASSUME NEW f \in FileNamed(i), NEW j \in infos, j.id = b.id, f \in FileNamed(j) PROVE FALSE
      BY DEF FilesOf, InfosOf
    <3>1. i.leaf = j.leaf
      BY DEF FileNamed, FileOf
    <3> QED
      BY <1>3, <3>1, OneNameOneInfo
  <2>2. FileNamed(i)' = FileNamed(i)
    BY <1>1, <2>1 DEF FileNamed, FileOf
  <2> QED
    BY <2>2 DEF Whole
<1>4. ASSUME NEW i \in infos, i.id = b.id PROVE FileNamed(i)' = {}
  <2>1. FileNamed(i) \subseteq FilesOf(b)
    BY <1>4 DEF FilesOf, InfosOf
  <2> QED
    BY <1>1, <2>1 DEF FileNamed, FileOf
<1> QED
  BY <1>2, <1>3, <1>4 DEF b

LEMMA RemoveStreamKeeps ==
  ASSUME RawInv, RemoveStream
  PROVE  RawInv'
<1>1. /\ pc = "pruneB" /\ pc' = "unlink" /\ streams' \subseteq streams /\ victim' = Oldest(delB)
      /\ UNCHANGED <<src, uuidFile, infos, tmp, tick, faults, sendVars, delB, delS, optVars, res>>
  BY DEF RemoveStream, Goto
<1>2. victim' \in delB
  BY <1>1, StreamRemoved
<1>3. FilesTypeOK' /\ CommandTypeOK'
  BY <1>1, <1>2 DEF RawInv, TypeOK, FilesTypeOK, CommandTypeOK, Calls, optVars, sendVars
<1>4. Numbered' /\ InOrder'
  BY <1>1, NamesStay
<1>5. ListedNeverPartial'
  <2>1. \A i \in infos : FileNamed(i)' = {} \/ Whole(i)'
    BY StreamRemoved DEF RawInv, ListedNeverPartial
  <2> QED
    BY <1>1, <2>1 DEF ListedNeverPartial
<1>6. \A i \in infos : Kept(i) => Kept(i)'
  <2> SUFFICES ASSUME NEW i \in infos, Kept(i) PROVE Kept(i)'
    OBVIOUS
  <2>1. i.id # Oldest(delB).id
    BY <1>1, <1>2 DEF Kept, Ids
  <2>2. Whole(i)' = Whole(i)
    BY <2>1, StreamRemoved
  <2> QED
    BY <1>1, <2>2 DEF Kept
<1>7. Anchored'
  BY <1>1, <1>6 DEF RawInv, Anchored
<1>8. Sending'
  BY <1>1 DEF Sending
<1>9. Pruning'
  BY <1>1, <1>2, <1>6 DEF RawInv, Pruning, sendVars, optVars
<1> QED
  BY <1>3, <1>4, <1>5, <1>7, <1>8, <1>9 DEF RawInv, TypeOK

LEMMA KnownShrinks ==
  ASSUME RawInv, src' \subseteq src, infos' \subseteq infos, tick' = tick
  PROVE  Numbered' /\ InOrder'
BY DEF RawInv, Numbered, InOrder, Known

LEMMA RemoveSidecarKeeps ==
  ASSUME RawInv, RemoveSidecar
  PROVE  RawInv'
<1>1. /\ pc = "unlink" /\ pc' = "pruneB" /\ infos' = infos \ InfosOf(victim)
      /\ delB' = delB \ {victim} /\ victim' = NoSub
      /\ UNCHANGED <<src, uuidFile, streams, tmp, tick, faults, sendVars, delS, optVars, res>>
  BY DEF RemoveSidecar, Goto
<1>2. victim \in delB
  BY <1>1 DEF RawInv, Pruning
<1>3. FilesTypeOK' /\ CommandTypeOK'
  BY <1>1 DEF RawInv, TypeOK, FilesTypeOK, CommandTypeOK, Calls, optVars, sendVars
<1>4. Numbered' /\ InOrder'
  BY <1>1, KnownShrinks
<1>5. \A i \in infos : Whole(i)' = Whole(i) /\ FileNamed(i)' = FileNamed(i)
  BY <1>1 DEF Whole, FileNamed, FileOf
<1>6. ListedNeverPartial'
  BY <1>1, <1>5 DEF RawInv, ListedNeverPartial
<1>7. \A i \in infos : Kept(i) => i \in infos' /\ Kept(i)'
  <2> SUFFICES ASSUME NEW i \in infos, Kept(i) PROVE i \in infos' /\ Kept(i)'
    OBVIOUS
  <2>1. i.id \notin Ids(delB) /\ i.id # victim.id
    BY <1>2 DEF Kept, Ids
  <2>2. i \in infos' /\ i.id \notin Ids(delB)'
    BY <1>1, <2>1 DEF InfosOf, Ids
  <2> QED
    BY <1>5, <2>2 DEF Kept
<1>8. Anchored'
  BY <1>1, <1>7 DEF RawInv, Anchored
<1>9. Sending'
  BY <1>1 DEF Sending
<1>10. Pruning'
  BY <1>1, <1>7 DEF RawInv, Pruning, sendVars, optVars
<1> QED
  BY <1>3, <1>4, <1>6, <1>8, <1>9, <1>10 DEF RawInv, TypeOK

LEMMA BackupsPrunedKeeps ==
  ASSUME RawInv, BackupsPruned
  PROVE  RawInv'
<1>1. /\ pc = "pruneB" /\ pc' = "pruneS"
      /\ UNCHANGED <<src, dirVars, tick, faults, sendVars, planVars, optVars, res>>
  BY DEF BackupsPruned, Goto
<1>2. FilesTypeOK' /\ CommandTypeOK'
  BY <1>1 DEF RawInv, TypeOK, FilesTypeOK, CommandTypeOK, Calls, dirVars, optVars, sendVars, planVars
<1>3. \A i \in infos : FileNamed(i)' = FileNamed(i) /\ Whole(i)' = Whole(i)
  BY <1>1 DEF Whole, FileNamed, FileOf, dirVars
<1>4. /\ Numbered' /\ InOrder' /\ ListedNeverPartial' /\ Anchored'
      /\ \A i \in infos : Kept(i) => Kept(i)'
  BY <1>1, <1>3, QuietKeeps DEF dirVars, planVars
<1>5. Sending'
  BY <1>1 DEF Sending
<1>6. Pruning'
  BY <1>1, <1>4 DEF RawInv, Pruning, sendVars, optVars, planVars, dirVars
<1> QED
  BY <1>2, <1>4, <1>5, <1>6 DEF RawInv, TypeOK

LEMMA DeleteSnapshotKeeps ==
  ASSUME RawInv, DeleteSnapshot
  PROVE  RawInv'
<1> DEFINE d == Oldest(delS)
<1>1. /\ pc = "pruneS" /\ delS # {} /\ src' = src \ {d} /\ delS' = delS \ {d}
      /\ UNCHANGED <<dirVars, tick, faults, optVars, pc, sendVars, victim, delB, res>>
  BY DEF DeleteSnapshot
<1>2. d \in delS
  BY <1>1, OldestIsMember DEF RawInv, TypeOK, CommandTypeOK
<1> HIDE DEF d
<1>3. FilesTypeOK' /\ CommandTypeOK'
  BY <1>1 DEF RawInv, TypeOK, FilesTypeOK, CommandTypeOK, dirVars, optVars, sendVars
<1>4. Numbered' /\ InOrder'
  BY <1>1, KnownShrinks DEF dirVars
<1>5. ListedNeverPartial' /\ \A i \in infos : Whole(i)' = Whole(i)
  BY <1>1, FilesStay DEF dirVars
<1>6. \A i \in infos : Kept(i) => Kept(i)'
  BY <1>1, <1>5 DEF Kept, dirVars
<1>7. \A s \in src : s.id \notin Ids(delS) => s \in src' /\ s.id \notin Ids(delS)'
  BY <1>1, <1>2 DEF Ids
<1>8. Anchored'
  BY <1>1, <1>6, <1>7 DEF RawInv, Anchored, dirVars
<1>9. Sending'
  BY <1>1 DEF Sending
<1>10. Pruning'
  BY <1>1, <1>6, <1>7 DEF RawInv, Pruning, sendVars, optVars, dirVars
<1> QED
  BY <1>3, <1>4, <1>5, <1>8, <1>9, <1>10 DEF RawInv, TypeOK

-----------------------------------------------------------------------------
LEMMA InitRawInv == Init => RawInv
<1> SUFFICES ASSUME Init PROVE RawInv
  OBVIOUS
<1>1. FilesTypeOK /\ CommandTypeOK
  BY DEF Init, FilesTypeOK, CommandTypeOK, NoSel, Modes
<1>2. Numbered /\ InOrder /\ ListedNeverPartial /\ Anchored
  BY DEF Init, Numbered, InOrder, Known, ListedNeverPartial, Anchored
<1>3. Sending /\ Pruning
  BY DEF Init, Sending, Pruning
<1> QED
  BY <1>1, <1>2, <1>3 DEF RawInv, TypeOK

(* The actions by what they do to files and snapshots.                     *)
Begins ==
  \/ \E t \in Times : Snapshot(t) \/ \E k \in Codecs, m \in UsedModes : Run(t, k, m)
  \/ \E k \in Codecs, m \in UsedModes : Resume(k, m)

Quits == ListFails \/ BootstrapFails \/ Killed \/ DeleteFails \/ SnapshotsPruned

Writes == PipeBegins \/ PipeEnds \/ TransferFails

Drops == RemoveStream \/ RemoveSidecar \/ DeleteSnapshot

Thinks == List \/ Bootstrap \/ WriteUuid \/ Plan \/ BackupsPruned

LEMMA NextByKind ==
  ASSUME Next
  PROVE  Begins \/ Quits \/ Writes \/ Drops \/ Thinks \/ RenameSidecar
BY DEF Next, Send, Prune, Begins, Quits, Writes, Drops, Thinks

LEMMA NextRawInv ==
  ASSUME RawInv, [Next]_vars
  PROVE  RawInv'
<1>1. CASE UNCHANGED vars
  <2>1. FilesTypeOK' /\ CommandTypeOK'
    BY <1>1 DEF vars, dirVars, optVars, sendVars, planVars, RawInv, TypeOK, FilesTypeOK, CommandTypeOK
  <2>2. Numbered' /\ InOrder' /\ ListedNeverPartial' /\ Anchored' /\ \A i \in infos : Kept(i) => Kept(i)'
    BY <1>1, FilesStay, QuietKeeps DEF vars, dirVars, planVars, FileNamed, FileOf
  <2>3. Sending'
    BY <1>1 DEF vars, dirVars, optVars, sendVars, RawInv, Sending, Unsent, Listing, FileOf
  <2>4. Pruning'
    BY <1>1, <2>2 DEF vars, dirVars, optVars, sendVars, planVars, RawInv, Pruning, Listing
  <2> QED
    BY <2>1, <2>2, <2>3, <2>4 DEF RawInv, TypeOK
<1>2. CASE Begins
  BY <1>2, BeginKeeps DEF Begins
<1>3. CASE Quits
  BY <1>3, QuitKeeps DEF Quits
<1>4. CASE Writes
  BY <1>4, PipeKeeps, TransferFailsKeeps DEF Writes
<1>5. CASE Drops
  BY <1>5, RemoveStreamKeeps, RemoveSidecarKeeps, DeleteSnapshotKeeps DEF Drops
<1>6. CASE Thinks
  BY <1>6, ListKeeps, BootstrapKeeps, PlanKeeps, BackupsPrunedKeeps DEF Thinks
<1>7. CASE RenameSidecar
  BY <1>7, RenameSidecarKeeps
<1> QED
  BY <1>1, <1>2, <1>3, <1>4, <1>5, <1>6, <1>7, NextByKind

LEMMA RawInvariant == Spec => []RawInv
<1>1. RawInv /\ [Next]_vars => RawInv'
  BY NextRawInv
<1> QED
  BY <1>1, InitRawInv, PTL DEF Spec

(* Every variable over the directory and the command keeps to its type.    *)
THEOREM RawTypeCorrect == Spec => []TypeOK
<1>1. RawInv => TypeOK
  BY DEF RawInv
<1> QED
  BY <1>1, RawInvariant, PTL

(* A sidecar is never listed over a stream that is partly written or of    *)
(* another snapshot (send_receive renames it last; list reads what is      *)
(* there), however the commands were cut.                                  *)
THEOREM ListedIsWholeOrGone == Spec => []ListedNeverPartial
<1>1. RawInv => ListedNeverPartial
  BY DEF RawInv
<1> QED
  BY <1>1, RawInvariant, PTL

(* The snapshot the next incremental will take as its parent has a backup  *)
(* whose stream is there: a prune that was cut did not half-delete it.     *)
THEOREM TheAnchorIsWhole == Spec => []AnchorIsWhole
<1>1. RawInv => AnchorIsWhole
  <2> SUFFICES ASSUME RawInv, BackedUp(src, Listing) # {}
               PROVE  Newest(BackedUp(src, Listing)).id \in Copied
    BY DEF AnchorIsWhole
  <2>1. infos # {}
    BY DEF BackedUp, TargetCorrelates, Listing
  <2>2. PICK i \in infos, s \in src : Kept(i) /\ s.id = i.recv /\ \A j \in infos : j.recv <= i.recv
    BY <2>1 DEF RawInv, Anchored
  <2>3. Newest(BackedUp(src, Listing)) = s
    BY <2>2, AnchorIsThePair
  <2> QED
    BY <2>2, <2>3 DEF Copied, Kept
<1> QED
  BY <1>1, RawInvariant, PTL

-----------------------------------------------------------------------------
(* Which steps touch the stream of a listed backup.                        *)
LEMMA OnlyRemovalTouches ==
  ASSUME RawInv, [Next]_vars, NEW i \in infos
  PROVE  Whole(i)' = Whole(i) \/ (RemoveStream /\ i.id = Oldest(delB).id)
<1>1. CASE RemoveStream
  BY <1>1, StreamRemoved
<1>2. CASE Writes
  <2>1. pc \in {"pipe", "verify", "sidecar"} /\ \A f : f.leaf # mine.leaf => (f \in streams <=> f \in streams')
    BY <1>2 DEF Writes, PipeBegins, PipeEnds, TransferFails, Cleanup, FileOf, NewStream
  <2>2. Unsent
    BY <2>1 DEF RawInv, Sending
  <2> QED
    BY <2>1, <2>2, OtherFilesStay
<1>3. CASE streams' = streams
  BY <1>3 DEF Whole, FileNamed, FileOf
<1>4. RemoveStream \/ Writes \/ streams' = streams
  <2>1. CASE Begins
    BY <2>1 DEF Begins, Snapshot, Run, Resume, TakeSnapshot, dirVars
  <2>2. CASE Quits \/ Thinks
    BY <2>2 DEF Quits, Thinks, ListFails, BootstrapFails, Killed, DeleteFails, SnapshotsPruned,
       List, Bootstrap, WriteUuid, Plan, BackupsPruned, dirVars
  <2>3. CASE Drops \/ RenameSidecar \/ UNCHANGED vars
    BY <2>3 DEF Drops, RemoveSidecar, DeleteSnapshot, RenameSidecar, vars, dirVars
  <2> QED
    BY <2>1, <2>2, <2>3, NextByKind
<1> QED
  BY <1>1, <1>2, <1>3, <1>4

(* A listed backup loses its data only to the prune that chose it: not to  *)
(* a transfer, nor to the clean-up after one (send_receive, cleanup_raw).  *)
THEOREM TransfersSpareListed == Spec => OnlyPruneTakesData
<1>1. RawInv /\ [Next]_vars => [\A i \in infos : Whole(i) => Whole(i)' \/ i.id \in Ids(delB)]_vars
  <2> SUFFICES ASSUME RawInv, [Next]_vars, NEW i \in infos, Whole(i)
               PROVE  Whole(i)' \/ i.id \in Ids(delB)
    OBVIOUS
  <2>1. CASE Whole(i)' = Whole(i)
    BY <2>1
  <2>2. CASE RemoveStream /\ i.id = Oldest(delB).id
    BY <2>2, StreamRemoved DEF Ids
  <2> QED
    BY <2>1, <2>2, OnlyRemovalTouches
<1> QED
  BY <1>1, RawInvariant, PTL DEF Spec, OnlyPruneTakesData

(* A run or resume that made a backup reports success only with that       *)
(* backup listed and whole, and the snapshot it took still there.          *)
THEOREM RawReportsAreTrue == Spec => RawReportIsTrue
<1>1. RawInv /\ [Next]_vars =>
        [pc = "pruneS" /\ pc' = "idle" /\ res' = "ok" /\ own # {} =>
           mine.id \in Copied' /\ (cmd = "run" => mine \in src')]_vars
  <2> SUFFICES ASSUME RawInv, [Next]_vars, pc = "pruneS", pc' = "idle", res' = "ok", own # {}
               PROVE  mine.id \in Copied' /\ (cmd = "run" => mine \in src')
    OBVIOUS
  <2>1. SnapshotsPruned
    <3>1. CASE Begins \/ UNCHANGED vars
      BY <3>1 DEF Begins, Snapshot, Run, Resume, TakeSnapshot, vars
    <3>2. CASE Thinks \/ Drops \/ RenameSidecar \/ Writes
      BY <3>2 DEF Thinks, Drops, Writes, List, Bootstrap, WriteUuid, Plan, BackupsPruned, RemoveStream,
         RemoveSidecar, DeleteSnapshot, RenameSidecar, PipeBegins, PipeEnds, TransferFails, Goto
    <3>3. CASE Quits
      BY <3>3 DEF Quits, ListFails, BootstrapFails, Killed, DeleteFails, Finish
    <3> QED
      BY <3>1, <3>2, <3>3, NextByKind
  <2>2. UNCHANGED <<src, dirVars>>
    BY <2>1 DEF SnapshotsPruned
  <2>3. PICK i \in infos : i.recv = mine.id /\ Whole(i)
    BY DEF RawInv, Pruning, Kept
  <2>4. Whole(i)'
    BY <2>2, <2>3, FilesStay DEF dirVars
  <2>5. mine.id \in Copied'
    BY <2>2, <2>3, <2>4 DEF Copied, dirVars
  <2>6. cmd = "run" => mine \in src'
    BY <2>2 DEF RawInv, Pruning
  <2> QED
    BY <2>5, <2>6
<1> QED
  BY <1>1, RawInvariant, PTL DEF Spec, RawReportIsTrue

-----------------------------------------------------------------------------
(* The refinement of Archive.                                              *)
LEMMA TakingTakes ==
  ASSUME RawInv, NEW t \in Times, TakeSnapshot(t)
  PROVE  RawChain!Take
<1>1. PICK s \in Subvol : s.id = tick + 1 /\ src' = src \cup {s}
  BY TakingKeeps
<1>2. tick \in Nat /\ \A x \in Ids(src) \cup Copied : x \in Nat /\ x <= tick
  <2>1. tick \in Nat
    BY DEF RawInv, TypeOK, FilesTypeOK
  <2>2. \A x \in src : x.id \in Nat /\ x.id <= tick
    BY KnownPairs DEF RawInv, Numbered
  <2>3. \A i \in infos : i.recv \in Nat /\ i.recv <= tick
    BY KnownPairs DEF RawInv, Numbered
  <2> QED
    BY <2>1, <2>2, <2>3 DEF Ids, Copied
<1>3. Ids(src)' = Ids(src) \cup {s.id}
  BY <1>1 DEF Ids
<1>4. Copied' = Copied
  BY FilesStay DEF TakeSnapshot, dirVars, Copied
<1>5. s.id \notin Ids(src) \cup Copied
  BY <1>1, <1>2
<1> QED
  BY <1>3, <1>4, <1>5 DEF RawChain!Take

LEMMA RenamingCopies ==
  ASSUME RawInv, RenameSidecar
  PROVE  RawChain!Copy
<1>1. /\ pc = "sidecar" /\ UNCHANGED <<src, streams, mine, codec>>
  BY DEF RenameSidecar, Goto, optVars
<1>2. Unsent
  BY <1>1 DEF RawInv, Sending
<1>3. infos' = infos \cup {NewInfo}
  BY <1>2, MineHasNoInfo DEF RenameSidecar
<1>4. mine.id \in Ids(src) /\ mine.id \notin Copied
  BY <1>2 DEF Unsent, Ids, Copied
<1>5. PICK f \in FileOf(mine.leaf, codec) : f.whole /\ f.of = mine.id
  BY <1>1 DEF RawInv, Sending
<1>6. /\ NewInfo.recv = mine.id /\ NewInfo.leaf = mine.leaf /\ NewInfo.codec = codec
  BY DEF NewInfo
<1>7. \A i : Whole(i)' = Whole(i)
  BY <1>1 DEF Whole, FileNamed, FileOf
<1>8. Whole(NewInfo)
  BY <1>5, <1>6 DEF Whole, FileNamed
<1> HIDE DEF NewInfo
<1>9. \A x : x \in Copied' <=> \E i \in infos' : Whole(i) /\ x = i.recv
  BY <1>7 DEF Copied
<1>10. \A x : x \in Copied <=> \E i \in infos : Whole(i) /\ x = i.recv
  BY DEF Copied
<1>11. Copied' = Copied \cup {mine.id}
  BY <1>3, <1>6, <1>8, <1>9, <1>10
<1>12. Ids(src)' = Ids(src)
  BY <1>1 DEF Ids
<1> QED
  BY <1>4, <1>11, <1>12 DEF RawChain!Copy

LEMMA DroppingPurgesRaw ==
  ASSUME RawInv, Drops
  PROVE  RawChain!Purge
<1>1. RawInv'
  BY RemoveStreamKeeps, RemoveSidecarKeeps, DeleteSnapshotKeeps DEF Drops
<1>2. src' \subseteq src /\ infos' \subseteq infos /\ streams' \subseteq streams
  BY DEF Drops, RemoveStream, RemoveSidecar, DeleteSnapshot, dirVars
<1>3. \A i \in infos : Whole(i)' => Whole(i)
  BY <1>2 DEF Whole, FileNamed, FileOf
<1>4. Copied' \subseteq Copied /\ Ids(src)' \subseteq Ids(src)
  BY <1>2, <1>3 DEF Copied, Ids
<1>5. infos # {} => infos' # {}
  <2>1. CASE RemoveSidecar
    <3> SUFFICES ASSUME infos # {} PROVE infos' # {}
      OBVIOUS
    <3>1. PICK i \in infos : i.id \notin Ids(delB)
      BY DEF RawInv, Anchored, Kept
    <3>2. victim \in delB
      BY <2>1 DEF RemoveSidecar, RawInv, Pruning
    <3>3. i \in infos'
      BY <2>1, <3>1, <3>2 DEF RemoveSidecar, InfosOf, Ids
    <3> QED
      BY <3>3
  <2>2. CASE RemoveStream \/ DeleteSnapshot
    BY <2>2 DEF RemoveStream, DeleteSnapshot, dirVars
  <2> QED
    BY <2>1, <2>2 DEF Drops
<1>6. infos' # {} => Ids(src)' \cap Copied' # {}
  <2> SUFFICES ASSUME infos' # {} PROVE Ids(src)' \cap Copied' # {}
    OBVIOUS
  <2>1. PICK i \in infos', s \in src' : Whole(i)' /\ s.id = i.recv
    BY <1>1 DEF RawInv, Anchored, Kept
  <2>2. s.id \in Ids(src)' /\ s.id \in Copied'
    BY <2>1 DEF Ids, Copied
  <2> QED
    BY <2>2
<1>7. Ids(src) \cap Copied # {} => infos # {}
  BY DEF Copied
<1> QED
  BY <1>4, <1>5, <1>6, <1>7 DEF RawChain!Purge, RawChain!Linked

LEMMA NextRefinesRaw ==
  ASSUME RawInv, [Next]_vars
  PROVE  [RawChain!Next]_(RawChain!vars)
<1>1. CASE Begins
  <2>1. CASE \E t \in Times : TakeSnapshot(t)
    BY <2>1, TakingTakes DEF RawChain!Next
  <2>2. CASE UNCHANGED <<src, dirVars>>
    BY <2>2, FilesStay DEF RawChain!vars, Ids, Copied, dirVars
  <2> QED
    BY <1>1, <2>1, <2>2 DEF Begins, Snapshot, Run, Resume
<1>2. CASE RenameSidecar
  BY <1>2, RenamingCopies DEF RawChain!Next
<1>3. CASE Drops
  BY <1>3, DroppingPurgesRaw DEF RawChain!Next
<1>4. ASSUME UNCHANGED <<src, infos>>, ~RemoveStream PROVE UNCHANGED RawChain!vars
  <2>1. \A i \in infos : Whole(i)' = Whole(i)
    BY <1>4, OnlyRemovalTouches
  <2> QED
    BY <1>4, <2>1 DEF RawChain!vars, Ids, Copied
<1>5. CASE Writes
  <2>1. pc \in {"pipe", "verify", "sidecar"} /\ src' = src /\ pc' # "unlink"
        /\ (infos' = infos \/ infos' = {i \in infos : i.leaf # mine.leaf})
    BY <1>5 DEF Writes, PipeBegins, PipeEnds, TransferFails, Cleanup, Goto, Finish
  <2>2. infos' = infos
    BY <2>1, MineHasNoInfo DEF RawInv, Sending
  <2>3. ~RemoveStream
    BY <2>1 DEF RemoveStream
  <2> QED
    BY <1>4, <2>1, <2>2, <2>3
<1>6. CASE Quits \/ Thinks \/ UNCHANGED vars
  <2>1. UNCHANGED <<src, streams, infos>>
    BY <1>6 DEF Quits, Thinks, ListFails, BootstrapFails, Killed, DeleteFails, SnapshotsPruned,
       List, Bootstrap, WriteUuid, Plan, BackupsPruned, vars, dirVars
  <2> QED
    BY <2>1, FilesStay DEF RawChain!vars, Ids, Copied
<1> QED
  BY <1>1, <1>2, <1>3, <1>5, <1>6, NextByKind

(* Raw streams keep the promise of Archive: a snapshot is copied once,     *)
(* while it is on the source, at the moment its sidecar is renamed, and no *)
(* delete of a stream, a sidecar or a snapshot breaks the chain.           *)
THEOREM RawImplementsArchive == Spec => RawRefinesArchive
<1>1. Init => RawChain!Init
  BY DEF Init, RawChain!Init, Ids, Copied
<1>2. RawInv /\ [Next]_vars => [RawChain!Next]_(RawChain!vars)
  BY NextRefinesRaw
<1> QED
  BY <1>1, <1>2, RawInvariant, PTL DEF Spec, RawRefinesArchive, RawChain!Spec
=============================================================================
