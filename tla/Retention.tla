------------------------------ MODULE Retention ------------------------------
(***************************************************************************)
(* The retention scheduler of the domain crate and the pruning that        *)
(* applies it: time passes, snapshots are taken at any moment of it, and   *)
(* prunes, which may be cut between two deletes, drop what the policy does *)
(* not keep.                                                               *)
(*                                                                         *)
(* Wall-clock time is a number of minutes; the lengths of the hour, day,   *)
(* week, month and year are constants, so that TLC can see years go by.    *)
(* One time zone, and a clock that is never set back.  A name carries the  *)
(* minute it was taken at or, with the timestamp format short, the day;    *)
(* one directory, one base name and one format, so that no two names have  *)
(* the same time and counter.                                              *)
(***************************************************************************)
EXTENDS Integers, Sequences, FiniteSets

CONSTANTS
  MINUTES_PER_HOUR, HOURS_PER_DAY, DAYS_PER_WEEK,
  MonthDays,     \* the days of each month of a year
  HourOfDay,     \* hour_of_day: the hour a day begins with
  DayOfWeek,     \* day_of_week: the day a week begins with
  Formats,       \* whether names carry the time of day: the values in use
  Mins,          \* the --preserve-min arguments
  Schedules,     \* the --preserve arguments: sequences of tokens
  MaxNow,        \* bound: the last minute
  MaxTaken,      \* bound: snapshots in a behaviour
  MaxFails       \* bound: prunes cut short

Units == {"hours", "days", "weeks", "months", "years"}

All == -1        \* the count of a token `*<unit>`

Token == [count : Nat \cup {All}, unit : Units \cup {"bad"}]

Min == [kind : {"all", "latest", "no", "bad"}] \cup [kind : {"within"}, count : Nat, unit : Units]

MONTHS_PER_YEAR == Len(MonthDays)

DaysBefore[m \in 0 .. MONTHS_PER_YEAR] == IF m = 0 THEN 0 ELSE DaysBefore[m - 1] + MonthDays[m]

ASSUME RetentionAssumption ==
  /\ {MINUTES_PER_HOUR, HOURS_PER_DAY, DAYS_PER_WEEK} \subseteq Nat \ {0}
  /\ MonthDays \in Seq(Nat \ {0}) /\ MonthDays # <<>>
  /\ \A m \in DOMAIN MonthDays : DAYS_PER_WEEK <= MonthDays[m] + 1
  /\ HourOfDay \in 0 .. HOURS_PER_DAY - 1 /\ DayOfWeek \in 0 .. DAYS_PER_WEEK - 1
  /\ Formats \subseteq BOOLEAN
  /\ Mins \subseteq Min /\ Schedules \subseteq Seq(Token)
  /\ MaxNow \in Nat /\ MaxTaken \in Nat /\ MaxFails \in Nat

-----------------------------------------------------------------------------
(* The calendar.                                                           *)

Hour(t) == t \div MINUTES_PER_HOUR
Day(t) == Hour(t) \div HOURS_PER_DAY
HourInDay(t) == Hour(t) % HOURS_PER_DAY
Weekday(t) == Day(t) % DAYS_PER_WEEK

YearDays == DaysBefore[MONTHS_PER_YEAR]
Year(t) == Day(t) \div YearDays
DayInYear(t) == Day(t) % YearDays
Month0(t) == CHOOSE m \in 0 .. MONTHS_PER_YEAR - 1 :
               DaysBefore[m] <= DayInYear(t) /\ DayInYear(t) < DaysBefore[m + 1]
DayInMonth(t) == DayInYear(t) - DaysBefore[Month0(t)] + 1

-----------------------------------------------------------------------------
(* Parsing a policy: a unit that comes twice is an error, as is a token    *)
(* that is none.                                                           *)

Malformed == [min |-> [kind |-> "bad"], tier |-> <<>>]

NoTier == -2     \* a tier the policy does not have

Parse(min, tokens) ==
  IF \/ min.kind = "bad"
     \/ \E i \in DOMAIN tokens : tokens[i].unit = "bad"
     \/ \E i, j \in DOMAIN tokens : i # j /\ tokens[i].unit = tokens[j].unit
  THEN Malformed
  ELSE [min |-> min,
        tier |-> [u \in Units |->
                    IF \E i \in DOMAIN tokens : tokens[i].unit = u
                    THEN tokens[CHOOSE i \in DOMAIN tokens : tokens[i].unit = u].count
                    ELSE NoTier]]

Policies == {Parse(m, s) : m \in Mins, s \in Schedules} \ {Malformed}

-----------------------------------------------------------------------------
VARIABLES
  now,      \* the clock
  policy,   \* what every prune is given
  exact,    \* whether names carry the time of day
  taken,    \* every snapshot taken so far
  have,     \* those there are
  spared,   \* what the delete-safety anchors of this prune keep
  todo,     \* what it still has to delete
  pruning,  \* a prune runs
  fails     \* prunes cut short

setup == <<policy, exact>>
vars == <<now, setup, taken, have, spared, todo, pruning, fails>>

(* compute_deltas: how long ago, in each unit.                             *)

Deltas(e, at) ==
  LET early == HourInDay(e.time) - (IF exact THEN HourOfDay ELSE 0)
      hoursFromDayStart == IF early < 0 THEN early + HOURS_PER_DAY ELSE early
      sinceWeek == Weekday(e.time) - DayOfWeek - (IF early < 0 THEN 1 ELSE 0)
      daysFromWeekStart == IF sinceWeek < 0 THEN sinceWeek + DAYS_PER_WEEK ELSE sinceWeek
      anchoredBefore == DayInMonth(e.time) <= daysFromWeekStart
      month == Month0(e.time) - (IF anchoredBefore THEN 1 ELSE 0)
      month0 == IF month < 0 THEN MONTHS_PER_YEAR - 1 ELSE month
      year == Year(e.time) - (IF month < 0 THEN 1 ELSE 0)
      hours == Hour(at) - Hour(e.time)
      days == (hours + hoursFromDayStart) \div HOURS_PER_DAY
      years == Year(at) - year
  IN  [hours |-> hours,
       days |-> days,
       weeks |-> (days + daysFromWeekStart) \div DAYS_PER_WEEK,
       months |-> years * MONTHS_PER_YEAR + (Month0(at) - month0),
       years |-> years]

CoversOneMore(count, delta) ==       \* faulty variant: one period more
  count = All \/ (count > 0 /\ delta <= count + 1)

Covers(count, delta) == count = All \/ (count > 0 /\ delta <= count)

MinCovers(min, deltas) ==
  \/ min.kind = "all"
  \/ min.kind = "within" /\ deltas[min.unit] <= min.count

-----------------------------------------------------------------------------
(* schedule                                                                *)

Older(a, b) == a.time < b.time \/ (a.time = b.time /\ a.nn < b.nn)

OldestOf(S) == CHOOSE e \in S : \A f \in S : f = e \/ ~Older(f, e)
NewestOf(S) == CHOOSE e \in S : \A f \in S : f = e \/ ~Older(e, f)

(* The entries of a prune, each with its deltas.                           *)
Aged(S, at) == {[entry |-> e, ago |-> Deltas(e, at)] : e \in S}

(* The bucket map of a tier, filled from the finer one's representatives,  *)
(* largest delta first: the first to come keeps the bucket.                *)
RollUpLast(A, finer, coarser) ==      \* faulty variant: the last to come keeps it
  {x \in A : \A y \in A : y.ago[coarser] = x.ago[coarser] => y.ago[finer] >= x.ago[finer]}

RollUp(A, finer, coarser) ==
  {x \in A : \A y \in A : y.ago[coarser] = x.ago[coarser] => y.ago[finer] <= x.ago[finer]}

FirstOfHours(A) ==
  {x \in A : \A y \in A : y.ago.hours = x.ago.hours => ~Older(y.entry, x.entry)}

Floor(A, p) ==
  {x \in A : \/ MinCovers(p.min, x.ago)
             \/ p.min.kind = "latest" /\ \A y \in A : ~Older(x.entry, y.entry)}

Preserved(S, p, at) ==
  LET A == Aged(S, at)
      kept(R, u) == {x \in R : Covers(p.tier[u], x.ago[u])}
      H == FirstOfHours(A)
      D == RollUp(H, "hours", "days")
      W == RollUp(D, "days", "weeks")
      M == RollUp(W, "weeks", "months")
      Y == RollUp(M, "months", "years")
  IN  {x.entry : x \in Floor(A, p) \cup kept(H, "hours") \cup kept(D, "days")
                          \cup kept(W, "weeks") \cup kept(M, "months") \cup kept(Y, "years")}

-----------------------------------------------------------------------------
(* RetentionService over one directory.                                    *)

Entry == [time : Nat, nn : Nat]

TypeOK ==
  /\ now \in 0 .. MaxNow /\ policy \in Policies /\ exact \in Formats
  /\ taken \subseteq Entry /\ have \subseteq taken /\ todo \subseteq have \ spared
  /\ spared \subseteq taken /\ pruning \in BOOLEAN /\ (todo # {} => pruning)
  /\ fails \in 0 .. MaxFails

Init ==
  /\ now = 0 /\ policy \in Policies /\ exact \in Formats
  /\ taken = {} /\ have = {} /\ spared = {} /\ todo = {}
  /\ pruning = FALSE /\ fails = 0

Tick ==
  /\ ~pruning /\ now < MaxNow
  /\ now' = now + 1
  /\ UNCHANGED <<setup, taken, have, spared, todo, pruning, fails>>

(* format_timestamp and back: a short name loses the time of day.          *)
TimeInName == IF exact THEN now ELSE Day(now) * HOURS_PER_DAY * MINUTES_PER_HOUR

(* dated_entry: the parsed name of a snapshot taken now.                   *)
NameNow ==
  LET used == {e.nn : e \in {f \in have : f.time = TimeInName}}
  IN  [time |-> TimeInName, nn |-> IF used = {} THEN 0 ELSE 1 + CHOOSE n \in used : \A k \in used : k <= n]

Take ==
  /\ ~pruning /\ Cardinality(taken) < MaxTaken
  /\ taken' = taken \cup {NameNow} /\ have' = have \cup {NameNow}
  /\ UNCHANGED <<now, setup, spared, todo, pruning, fails>>

PruneAhead(anchors) ==  \* faulty variant: the clock of another zone
  /\ ~pruning
  /\ pruning' = TRUE /\ spared' = anchors
  /\ todo' = (have \ Preserved(have, policy, now + MINUTES_PER_HOUR)) \ anchors
  /\ UNCHANGED <<now, setup, taken, have, fails>>

PruneUnanchored(anchors) ==  \* faulty variant: the anchors come after the list is made
  /\ ~pruning
  /\ pruning' = TRUE /\ spared' = anchors
  /\ todo' = have \ Preserved(have, policy, now)
  /\ UNCHANGED <<now, setup, taken, have, fails>>

(* enforce: anchors only ever take something out of the schedule.          *)
Prune(anchors) ==
  /\ ~pruning
  /\ pruning' = TRUE /\ spared' = anchors
  /\ todo' = (have \ Preserved(have, policy, now)) \ anchors
  /\ UNCHANGED <<now, setup, taken, have, fails>>

DeleteOldest ==
  /\ pruning /\ todo # {}
  /\ have' = have \ {OldestOf(todo)} /\ todo' = todo \ {OldestOf(todo)}
  /\ UNCHANGED <<now, setup, taken, spared, pruning, fails>>

PruneEnds ==
  /\ pruning /\ todo = {}
  /\ pruning' = FALSE /\ spared' = {}
  /\ UNCHANGED <<now, setup, taken, have, todo, fails>>

(* A delete fails or the command is killed: the rest is left.              *)
PruneCut ==
  /\ pruning /\ todo # {} /\ fails < MaxFails
  /\ pruning' = FALSE /\ spared' = {} /\ todo' = {} /\ fails' = fails + 1
  /\ UNCHANGED <<now, setup, taken, have>>

Anchors == {{}} \cup (IF have = {} THEN {} ELSE {{NewestOf(have)}})

Next ==
  \/ Tick \/ Take
  \/ \E a \in Anchors : Prune(a)
  \/ DeleteOldest \/ PruneEnds \/ PruneCut

Spec == Init /\ [][Next]_vars

-----------------------------------------------------------------------------
(* Properties                                                              *)

(* The reference: the oldest snapshot of a calendar period stands for it.  *)
(* A week belongs to the month, and a month to the year, its first day of  *)
(* the week lies in.                                                       *)
DayStart(e) == Day(e.time) - (IF exact /\ HourInDay(e.time) < HourOfDay THEN 1 ELSE 0)
WeekStart(e) == DayStart(e) - ((DayStart(e) - DayOfWeek) % DAYS_PER_WEEK)
MonthAt(day) ==
  LET t == (day + YearDays) * HOURS_PER_DAY * MINUTES_PER_HOUR
  IN  (Year(t) - 1) * MONTHS_PER_YEAR + Month0(t)

Period(e) ==
  [hours |-> Hour(e.time), days |-> DayStart(e), weeks |-> WeekStart(e),
   months |-> MonthAt(WeekStart(e)), years |-> MonthAt(WeekStart(e)) \div MONTHS_PER_YEAR]

Reference(S, p, at) ==
  LET A == {[entry |-> e, period |-> Period(e), ago |-> Deltas(e, at)] : e \in S}
      StandsFor(x, u) == \A y \in A : y.period[u] = x.period[u] => ~Older(y.entry, x.entry)
  IN  {x.entry : x \in {y \in A :
         \/ MinCovers(p.min, y.ago)
         \/ p.min.kind = "latest" /\ \A z \in A : ~Older(y.entry, z.entry)
         \/ \E u \in Units : StandsFor(y, u) /\ Covers(p.tier[u], y.ago[u])}}

(* The cascade through bucket maps keyed by "so long ago" keeps exactly    *)
(* the oldest of every calendar hour, day, week, month and year that its   *)
(* tier covers, and the floor (schedule, compute_deltas).                  *)
ScheduleIsReference ==
  Preserved(have, policy, now) = Reference(have, policy, now)

(* However often it is pruned, and wherever prunes are cut: what a prune   *)
(* of all that was ever taken would keep today is still there, so pruning  *)
(* often loses nothing that pruning once would keep.                       *)
NothingKeepableIsLost == Preserved(taken, policy, now) \subseteq have

(* What remains after a prune is bounded by the policy: a tier of count n  *)
(* keeps at most one for each of n + 1 periods.                            *)
TierSize(p, u) == IF p.tier[u] \in {NoTier, 0} THEN 0 ELSE p.tier[u] + 1

PolicySize(p) ==
  TierSize(p, "hours") + TierSize(p, "days") + TierSize(p, "weeks")
    + TierSize(p, "months") + TierSize(p, "years")

StaysBounded ==
  [][pruning /\ ~pruning' /\ fails' = fails =>
       \/ policy.min.kind \in {"all", "within"} \/ \E u \in Units : policy.tier[u] = All
       \/ Cardinality(have \ spared)
            <= PolicySize(policy) + (IF policy.min.kind = "latest" THEN 1 ELSE 0)]_vars
=============================================================================
