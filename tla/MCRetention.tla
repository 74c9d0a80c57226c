---------------------------- MODULE MCRetention ----------------------------
(* An instance of Retention for TLC: years of four days, days of two hours.*)
EXTENDS Retention

ShortYear == <<3, 1>>

Tier(n, u) == [count |-> n, unit |-> u]

UsedMins ==
  {[kind |-> "no"], [kind |-> "latest"], [kind |-> "bad"],
   [kind |-> "within", count |-> 1, unit |-> "days"]}

UsedSchedules ==
  {<<>>,
   <<Tier(1, "hours"), Tier(1, "days"), Tier(1, "weeks"), Tier(1, "months"), Tier(1, "years")>>,
   <<Tier(2, "days"), Tier(All, "months")>>,
   <<Tier(0, "hours"), Tier(1, "weeks")>>,
   <<Tier(All, "years")>>,
   <<Tier(2, "days"), Tier(1, "days")>>,
   <<Tier(1, "bad")>>}
=============================================================================
