-------------------------- MODULE SubvolumesProofs --------------------------
(***************************************************************************)
(* Facts about the operators of module Subvolumes, each stated once and    *)
(* cited by the proofs about the commands.                                 *)
(***************************************************************************)
EXTENDS Subvolumes, WellFoundedInduction, TLAPS

(* A nonempty set of naturals has a least element ...                      *)
LEMMA LeastOfNat ==
  ASSUME NEW S, S \subseteq Nat, S # {}
  PROVE  \E m \in S : \A k \in S : m <= k
<1>1. \E m \in S : \A k \in S : ~ (<<k, m>> \in OpToRel(<, Nat))
  BY NatLessThanWellFounded, WFMin
<1>2. PICK m \in S : \A k \in S : ~ (<<k, m>> \in OpToRel(<, Nat))
  BY <1>1
<1>3. m \in Nat /\ \A k \in S : k \in Nat /\ ~(k < m)
  BY <1>2 DEF OpToRel
<1>4. \A k \in S : m <= k
  BY <1>3
<1> QED
  BY <1>4

(* ... and a greatest one when it is bounded.                              *)
LEMMA GreatestOfNat ==
  ASSUME NEW S, S \subseteq Nat, S # {}, NEW b \in Nat, \A k \in S : k <= b
  PROVE  \E m \in S : \A k \in S : k <= m
<1> DEFINE D == {b - k : k \in S}
<1>0. \A k \in S : b - k \in Nat
  OBVIOUS
<1>1. D \subseteq Nat /\ D # {}
  BY <1>0
<1>2. PICK d \in D : \A e \in D : d <= e
  BY <1>1, LeastOfNat
<1>3. PICK m \in S : d = b - m
  BY <1>2
<1>4. \A k \in S : b - m <= b - k
  BY <1>2, <1>3
<1>5. \A k \in S : k <= m
  BY <1>4
<1> QED
  BY <1>5

(* The newest of a nonempty set of things with ids is one of them, as long *)
(* as their ids are bounded.                                               *)
LEMMA NewestOfIds ==
  ASSUME NEW S, \A s \in S : s.id \in Nat, S # {}, NEW b \in Nat, \A s \in S : s.id <= b
  PROVE  Newest(S) \in S /\ \A t \in S : t.id <= Newest(S).id
<1>1. Ids(S) \subseteq Nat /\ Ids(S) # {}
  BY DEF Ids
<1>2. \A k \in Ids(S) : k <= b
  BY DEF Ids
<1>3. PICK m \in Ids(S) : \A k \in Ids(S) : k <= m
  BY <1>1, <1>2, GreatestOfNat
<1>4. \E s \in S : \A t \in S : t.id <= s.id
  BY <1>3 DEF Ids
<1> QED
  BY <1>4 DEF Newest

LEMMA NewestIsMember ==
  ASSUME NEW S, S \subseteq Subvol, S # {}, NEW b \in Nat, \A s \in S : s.id <= b
  PROVE  Newest(S) \in S /\ \A t \in S : t.id <= Newest(S).id
BY NewestOfIds DEF Subvol

(* The oldest of a nonempty set of things with ids is one of them.         *)
LEMMA OldestOfIds ==
  ASSUME NEW S, \A s \in S : s.id \in Nat, S # {}
  PROVE  Oldest(S) \in S
<1>1. Ids(S) \subseteq Nat /\ Ids(S) # {}
  BY DEF Ids
<1>2. PICK m \in Ids(S) : \A k \in Ids(S) : m <= k
  BY <1>1, LeastOfNat
<1>3. \E s \in S : \A t \in S : s.id <= t.id
  BY <1>2 DEF Ids
<1> QED
  BY <1>3 DEF Oldest

LEMMA OldestIsMember ==
  ASSUME NEW S, S \subseteq Subvol, S # {}
  PROVE  Oldest(S) \in S
BY OldestOfIds DEF Subvol

(* What a resume finds due is a snapshot of the listing that has no        *)
(* correlated copy in the target listing.                                  *)
LEMMA DueIsOwed ==
  ASSUME NEW S, S \subseteq Subvol, NEW b \in Nat, \A s \in S : s.id <= b,
         NEW T, NEW c
  PROVE  Due(S, T, c) # NoSub => /\ Due(S, T, c) \in S
                                 /\ TargetCorrelates(Due(S, T, c), T) = {}
<1> SUFFICES ASSUME Due(S, T, c) # NoSub
             PROVE  Due(S, T, c) \in Owed(S, T, c)
  BY DEF Owed
<1>1. Owed(S, T, c) # {} /\ Due(S, T, c) = Newest(Owed(S, T, c))
  BY DEF Due
<1>2. Owed(S, T, c) \subseteq Subvol /\ \A s \in Owed(S, T, c) : s.id <= b
  BY DEF Owed
<1> QED
  BY <1>1, <1>2, NewestIsMember

(* The parent that is chosen, if any, and the clone sources are            *)
(* candidates: snapshots of the listing with a copy in the target listing. *)
LEMMA BestParentOfIds ==
  ASSUME NEW S, \A x \in S : x.id \in Nat, NEW b \in Nat, \A x \in S : x.id <= b,
         NEW s, NEW T, NEW m
  PROVE  /\ BestParent(s, S, T, m).parent \in Candidates(s, S, T, m) \cup {NoSub}
         /\ BestParent(s, S, T, m).clones \subseteq Candidates(s, S, T, m)
         /\ Candidates(s, S, T, m) \subseteq S
         /\ \A x \in Candidates(s, S, T, m) : TargetCorrelates(x, T) # {}
<1> DEFINE C == Candidates(s, S, T, m)
           notNewer == {x \in C : x.id <= s.id}
<1>1. C \subseteq S /\ \A x \in C : TargetCorrelates(x, T) # {}
  BY DEF Candidates
<1>2. notNewer # {} => Newest(notNewer) \in notNewer
  <2>1. \A x \in notNewer : x.id \in Nat /\ x.id <= b
    BY <1>1
  <2> QED
    BY <2>1, NewestOfIds
<1>3. C # {} => Oldest(C) \in C
  BY <1>1, OldestOfIds
<1>4. BestParent(s, S, T, m).clones \subseteq C
  BY DEF BestParent
<1>5. BestParent(s, S, T, m).parent \in C \cup {NoSub}
  BY <1>2, <1>3 DEF BestParent
<1> QED
  BY <1>1, <1>4, <1>5

LEMMA BestParentIsCandidate ==
  ASSUME NEW S, S \subseteq Subvol, NEW b \in Nat, \A x \in S : x.id <= b,
         NEW s, NEW T, NEW m
  PROVE  /\ BestParent(s, S, T, m).parent \in Candidates(s, S, T, m) \cup {NoSub}
         /\ BestParent(s, S, T, m).clones \subseteq Candidates(s, S, T, m)
         /\ Candidates(s, S, T, m) \subseteq S
         /\ \A x \in Candidates(s, S, T, m) : TargetCorrelates(x, T) # {}
BY BestParentOfIds DEF Subvol

(* The name a new snapshot gets is not taken.                              *)
LEMMA NextFreeLeafIsFree ==
  ASSUME NEW taken, taken \subseteq Leaf, NEW b \in Nat, NEW base \in Bases, NEW time \in Nat,
         \A l \in taken : l.base = base => l.nn <= b
  PROVE  /\ NextFreeLeaf(base, time, taken) \in Leaf
         /\ NextFreeLeaf(base, time, taken).base = base
         /\ NextFreeLeaf(base, time, taken).nn <= b + 1
         /\ NextFreeLeaf(base, time, taken) \notin taken
         /\ NextFreeLeaf(base, time, taken).time = time
         /\ \A l \in taken : l.base = base /\ l.time = time => l.nn < NextFreeLeaf(base, time, taken).nn
<1> DEFINE used == {l.nn : l \in {x \in taken : x.base = base /\ x.time = time}}
           top == CHOOSE n \in used : \A k \in used : k <= n
           free == NextFreeLeaf(base, time, taken)
<1>1. used \subseteq Nat /\ \A k \in used : k <= b
  BY DEF Leaf
<1>2. free = [base |-> base, time |-> time, nn |-> IF used = {} THEN 0 ELSE top + 1]
  BY DEF NextFreeLeaf
<1>3. used # {} => top \in used /\ \A k \in used : k <= top
  BY <1>1, GreatestOfNat
<1> HIDE DEF top
<1>4. \A k \in used : k < free.nn
  <2>1. CASE used = {}
    BY <2>1
  <2>2. CASE used # {}
    <3>1. free.nn = top + 1 /\ top \in Nat
      BY <2>2, <1>1, <1>2, <1>3
    <3> QED
      BY <3>1, <1>1, <1>3, <2>2
  <2> QED
    BY <2>1, <2>2
<1>5. free.nn \in Nat /\ free.nn <= b + 1
  <2>1. CASE used = {}
    BY <2>1, <1>2
  <2>2. CASE used # {}
    <3>1. top \in Nat /\ top <= b
      BY <2>2, <1>1, <1>3
    <3>2. free.nn = top + 1
      BY <2>2, <1>2
    <3> QED
      BY <3>1, <3>2
  <2> QED
    BY <2>1, <2>2
<1>6. free.base = base /\ free.time = time
  BY <1>2
<1>7. free \notin taken
  BY <1>1, <1>4, <1>5, <1>6
<1>8. free \in Leaf
  BY <1>2, <1>5 DEF Leaf
<1>9. \A l \in taken : l.base = base /\ l.time = time => l.nn < free.nn
  BY <1>4
<1> HIDE DEF free, used
<1> QED
  BY <1>5, <1>6, <1>7, <1>8, <1>9 DEF free

(* Where snapshots and backups have anything in common, the latest common  *)
(* pair exists, and it is common.                                          *)
LEMMA LatestCommonPairIsCommon ==
  ASSUME NEW S, S \subseteq Subvol, NEW b \in Nat, \A x \in S : x.id <= b,
         NEW T, NEW s \in S, NEW t \in T, Correlated(s, t)
  PROVE  \E u \in S, v \in T : /\ Correlated(u, v)
                               /\ u.id \in LatestCommonPair(S, T).snapshot
                               /\ v.id \in LatestCommonPair(S, T).backups
<1> DEFINE B == BackedUp(S, T)
           u == Newest(B)
<1>1. t \in TargetCorrelates(s, T)
  BY DEF TargetCorrelates
<1>2. B # {} /\ B \subseteq S
  BY <1>1 DEF BackedUp
<1>3. u \in B
  <2>1. B \subseteq Subvol /\ \A x \in B : x.id <= b
    BY <1>2
  <2> QED
    BY <1>2, <2>1, NewestIsMember
<1>4. PICK v \in T : v \in TargetCorrelates(u, T)
  BY <1>3 DEF BackedUp, TargetCorrelates
<1>5. LatestCommonPair(S, T) = [snapshot |-> {u.id}, backups |-> Ids(TargetCorrelates(u, T))]
  BY <1>2 DEF LatestCommonPair
<1>6. u.id \in LatestCommonPair(S, T).snapshot
  BY <1>5
<1>7. v.id \in LatestCommonPair(S, T).backups
  BY <1>4, <1>5 DEF Ids
<1>8. u \in S /\ Correlated(u, v)
  BY <1>2, <1>3, <1>4 DEF TargetCorrelates
<1> QED
  BY <1>6, <1>7, <1>8

(* The anchors only ever take away from what is to be deleted.             *)
LEMMA EnforceSpares ==
  ASSUME NEW delete, NEW keep, NEW aborted \in BOOLEAN
  PROVE  /\ Enforce(delete, keep, aborted) \subseteq delete
         /\ \A d \in Enforce(delete, keep, aborted) : d.id \notin keep
BY DEF Enforce
=============================================================================
