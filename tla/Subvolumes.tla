----------------------------- MODULE Subvolumes -----------------------------
(***************************************************************************)
(* The pure decision logic of the domain crate over btrfs subvolumes: what *)
(* correlates with what, which snapshot may serve as the parent of an      *)
(* incremental send, which snapshot a resume still owes, which pair must   *)
(* outlive a prune, and the name a new snapshot gets.                      *)
(*                                                                         *)
(* A subvolume is a record.  Its field id stands for three attributes of   *)
(* the program's Subvolume that rise together: the btrfs id, the uuid and, *)
(* for a read-only subvolume, the creation generation that                 *)
(* reference_generation() returns.  Every id is issued once, over both     *)
(* filesystems.  A leaf name is its parsed form: base name, timestamp and  *)
(* collision counter.                                                      *)
(***************************************************************************)
EXTENDS Naturals, FiniteSets

CONSTANTS
  Bases,     \* the base names mybtrfs snapshots under
  Foreign,   \* stands for a leaf name parse_name() rejects
  NoSub      \* "no subvolume" (Option::None)

ASSUME ForeignIsNoBase == Foreign \notin Bases

NoUuid == 0

Modes == {"yes", "strict", "no"}

Leaf == [base : Bases \cup {Foreign}, time : Nat, nn : Nat]

Subvol == [id : Nat, parent : Nat, recv : Nat, ro : BOOLEAN, leaf : Leaf]

ASSUME NoSubIsNone == NoSub \notin Subvol

Ids(S) == {s.id : s \in S}

LeavesOf(S) == {s.leaf : s \in S}

-----------------------------------------------------------------------------
(* Newest and oldest by (reference generation, id).                        *)

Newest(S) == CHOOSE s \in S : \A t \in S : t.id <= s.id
Oldest(S) == CHOOSE s \in S : \A t \in S : s.id <= t.id

-----------------------------------------------------------------------------
(* Correlation: two read-only subvolumes with the same content.            *)

Same(x, y) == x = y /\ x # NoUuid

Correlated(a, b) ==
  /\ a.ro /\ b.ro
  /\ Same(a.id, b.recv) \/ Same(b.id, a.recv) \/ Same(a.recv, b.recv)

TargetCorrelates(s, T) == {t \in T : Correlated(s, t)}

(* Writable and never stamped with the uuid of what it is a copy of: what  *)
(* an interrupted receive leaves behind.                                   *)
GarbledUnlessReadonly(t) == ~t.ro     \* faulty variant: received_uuid ignored

Garbled(t) == ~t.ro /\ t.recv = NoUuid

(* The plausibility test on a received subvolume.                          *)
VerifyReceived(t, full) ==
  /\ t.ro
  /\ t.recv # NoUuid
  /\ full <=> t.parent = NoUuid

-----------------------------------------------------------------------------
(* Lineage: what is connected to s through parent_uuid.                    *)

(* The climb from s to the top of its chain inside S.  A chain of more     *)
(* than Cardinality(S) links is a cycle, which the code leaves at its      *)
(* depth limit.                                                            *)
ChainTop(s, S) ==
  LET up(x) == LET P == {p \in S : p.id = x.parent /\ x.parent # NoUuid}
               IN  IF P = {} THEN x ELSE CHOOSE p \in P : TRUE
      climb[k \in 0 .. Cardinality(S)] ==
        IF k = 0 THEN s ELSE up(climb[k - 1])
  IN  climb[Cardinality(S)]

(* The uuids the walk down visits: the top, the bucket of the top's        *)
(* siblings, and every child of a visited uuid.                            *)
Visited(s, S) ==
  LET top == ChainTop(s, S)
      walk[k \in 0 .. Cardinality(S)] ==
        IF k = 0 THEN {top.id, top.parent} \ {NoUuid}
                 ELSE walk[k - 1] \cup {c.id : c \in {d \in S : d.parent \in walk[k - 1]}}
  IN  walk[Cardinality(S)]

Related(s, S) == {c \in S : c.ro /\ c.id # s.id /\ c.parent \in Visited(s, S)}

-----------------------------------------------------------------------------
(* The parent of an incremental send of s: source snapshots S, backups T.  *)

CandidatesUnproved(s, S, T, mode) ==  \* faulty variant: no correlated copy asked for
  IF mode = "no" THEN {} ELSE {c \in S : c.id # s.id /\ c.ro}

Candidates(s, S, T, mode) ==
  IF mode = "no" THEN {}
  ELSE {c \in S : /\ c.id # s.id
                  /\ c.ro
                  /\ TargetCorrelates(c, T) # {}
                  /\ mode = "strict" => c \in Related(s, S)}

StrictRefuses(s, S, T, mode) == mode = "strict" /\ Candidates(s, S, T, mode) = {}

(* The newest candidate not newer than s, else the oldest newer one; the   *)
(* other candidates become clone sources.                                  *)
BestParent(s, S, T, mode) ==
  LET C == Candidates(s, S, T, mode)
      notNewer == {c \in C : c.id <= s.id}
      parent == IF C = {} THEN NoSub
                ELSE IF notNewer # {} THEN Newest(notNewer) ELSE Oldest(C)
  IN  [parent |-> parent, clones |-> C \ {parent}]

-----------------------------------------------------------------------------
(* What a resume of base still owes: the newest snapshot of that name with *)
(* no correlated backup.                                                   *)

Owed(S, T, base) ==
  {s \in S : s.leaf.base = base /\ TargetCorrelates(s, T) = {}}

DueNewest(S, T, base) ==          \* faulty variant: backed-up snapshots are not skipped
  LET O == {s \in S : s.leaf.base = base}
  IN  IF O = {} THEN NoSub ELSE Newest(O)

Due(S, T, base) ==
  LET O == Owed(S, T, base) IN IF O = {} THEN NoSub ELSE Newest(O)

-----------------------------------------------------------------------------
(* The delete-safety anchors.                                              *)

BackedUp(S, T) == {s \in S : TargetCorrelates(s, T) # {}}

(* The newest snapshot with a correlated backup, together with its backups. *)
LatestCommonPair(S, T) ==
  IF BackedUp(S, T) = {} THEN [snapshot |-> {}, backups |-> {}]
  ELSE LET s == Newest(BackedUp(S, T))
       IN  [snapshot |-> {s.id}, backups |-> Ids(TargetCorrelates(s, T))]

EnforceNothing(delete, keep, aborted) == delete   \* faulty variant: no anchors

EnforceUnlessAborted(delete, keep, aborted) ==    \* faulty variant: aborted ignored
  {d \in delete : d.id \notin keep}

Enforce(delete, keep, aborted) ==
  IF aborted THEN {} ELSE {d \in delete : d.id \notin keep}

(* A subvolume whose name does not parse is never scheduled.               *)
Named(S) == {s \in S : s.leaf.base \in Bases}

-----------------------------------------------------------------------------
(* The first leaf name not taken: the bare one, or one more than the       *)
(* highest counter in use for that base name and timestamp.                *)

NextFreeLeafSecond(base, time, taken) ==   \* faulty variant: the counter stops at 1
  LET used == {l.nn : l \in {m \in taken : m.base = base /\ m.time = time}}
  IN  [base |-> base, time |-> time, nn |-> IF used = {} THEN 0 ELSE 1]

NextFreeLeaf(base, time, taken) ==
  LET used == {l.nn : l \in {m \in taken : m.base = base /\ m.time = time}}
      top == CHOOSE n \in used : \A k \in used : k <= n
  IN  [base |-> base, time |-> time, nn |-> IF used = {} THEN 0 ELSE top + 1]
=============================================================================
