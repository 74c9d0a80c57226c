----------------------------- MODULE MCRestore -----------------------------
(* Instances of Restore for TLC: two generations of home, each with a      *)
(* snapshot, a backup (the second sent against the first) and a raw stream.*)
EXTENDS Restore, TLC

CONSTANTS home, t1, t2

Obj(id, parent, recv, data) ==
  [id |-> id, parent |-> parent, recv |-> recv, ro |-> TRUE, data |-> data, holds |-> {}]

OldSnapshot == t1 :> Obj(2, 1, NoUuid, 2)

TwoBackups == t1 :> Obj(4, NoUuid, 2, 2) @@ t2 :> Obj(5, 4, 3, 3)

TwoRaws == t1 :> [of |-> 2, data |-> 2, need |-> NoUuid, base |-> Garbage]
        @@ t2 :> [of |-> 3, data |-> 3, need |-> 2, base |-> 2]

HomeIs(o) == [p \in Paths |-> IF p = <<home, 0>> THEN o ELSE Nothing]

LiveHome == [Obj(1, NoUuid, NoUuid, 1) EXCEPT !.ro = FALSE]
PlainHome == [LiveHome EXCEPT !.id = NoUuid]

HomeOrNot == {HomeIs(Nothing), HomeIs(LiveHome), HomeIs(PlainHome)}
=============================================================================
