-------------------------- MODULE RetentionProofs --------------------------
(***************************************************************************)
(* Proofs about module Retention.  Three parts: the calendar, where every  *)
(* delta of the code is shown to be the difference of two period numbers,  *)
(* one of the moment and one of the snapshot; the cascade, which keeps the *)
(* oldest of every period whatever the deltas are counted from; and the    *)
(* prunes, which never take what the schedule of everything that was ever  *)
(* taken would keep.                                                       *)
(***************************************************************************)
EXTENDS Retention, FiniteSetTheorems, WellFoundedInduction, TLAPS

-----------------------------------------------------------------------------
(* Division.                                                               *)

LEMMA Division ==
  ASSUME NEW a \in Int, NEW b \in Nat \ {0}
  PROVE  /\ a \div b \in Int /\ a % b \in 0 .. b - 1
         /\ b * (a \div b) <= a /\ a < b * (a \div b) + b
         /\ a - b * (a \div b) = a % b
<1>1. a \div b \in Int /\ a % b \in 0 .. b - 1
  OBVIOUS
<1>2. b * (a \div b) <= a
  BY SMTT(20)
<1>3. a < b * (a \div b) + b
  BY SMTT(20)
<1>4. a - b * (a \div b) = a % b
  BY SMTT(20)
<1> QED
  BY <1>1, <1>2, <1>3, <1>4

LEMMA Scale ==
  ASSUME NEW b \in Nat \ {0}, NEW q \in Int, NEW p \in Int, q < p
  PROVE  b * q \in Int /\ b * p \in Int /\ b * q + b <= b * p
  BY Z3

LEMMA QuotientIs ==
  ASSUME NEW b \in Nat \ {0}, NEW a \in Int, NEW q \in Int, b * q <= a, a < b * q + b
  PROVE  a \div b = q
<1> DEFINE p == a \div b
<1>1. p \in Int /\ b * p <= a /\ a < b * p + b
  BY Division
<1> HIDE DEF p
<1>2. b * q \in Int /\ b * p \in Int
  BY <1>1, Z3
<1>3. ~(q < p)
  BY <1>1, <1>2, Scale
<1>4. ~(p < q)
  BY <1>1, <1>2, Scale
<1>5. p = q
  BY <1>1, <1>3, <1>4
<1> QED
  BY <1>5 DEF p

(* Whole multiples come out of a quotient.                                 *)
LEMMA Shift ==
  ASSUME NEW b \in Nat \ {0}, NEW a \in Int, NEW q \in Int
  PROVE  (a - b * q) \div b = (a \div b) - q
  BY Z3

LEMMA QuotientGrows ==
  ASSUME NEW b \in Nat \ {0}, NEW a \in Int, NEW c \in Int, a <= c
  PROVE  a \div b <= c \div b
<1> DEFINE p == a \div b
           q == c \div b
<1>1. p \in Int /\ b * p <= a /\ q \in Int /\ c < b * q + b
  BY Division
<1> HIDE DEF p, q
<1>2. b * q \in Int /\ b * p \in Int
  BY <1>1, Z3
<1>3. ~(q < p)
  BY <1>1, <1>2, Scale
<1>4. p <= q
  BY <1>1, <1>3
<1> QED
  BY <1>4 DEF p, q

(* A number below b leaves a multiple of it where it was.                  *)
LEMMA WithRest ==
  ASSUME NEW b \in Nat \ {0}, NEW q \in Int, NEW r \in 0 .. b - 1
  PROVE  (b * q + r) \div b = q /\ (b * q + r) % b = r
<1> DEFINE a == b * q + r
<1>1. b * q \in Int /\ a \in Int /\ b * q <= a /\ a < b * q + b
  BY Z3
<1>2. a \div b = q
  BY <1>1, QuotientIs
<1>3. a % b = a - b * (a \div b)
  BY <1>1, Division
<1>4. a % b = r
  BY <1>1, <1>2, <1>3
<1> QED
  BY <1>2, <1>4

(* A nonempty set of naturals has a least element.                         *)
LEMMA LeastOfNat ==
  ASSUME NEW S, S \subseteq Nat, S # {}
  PROVE  \E m \in S : \A k \in S : m <= k
<1>1. \E m \in S : \A k \in S : ~ (<<k, m>> \in OpToRel(<, Nat))
  BY NatLessThanWellFounded, WFMin
<1>2. PICK m \in S : \A k \in S : ~ (<<k, m>> \in OpToRel(<, Nat))
  BY <1>1
<1>3. m \in Nat /\ \A k \in S : k \in Nat /\ ~(k < m)
  BY <1>2 DEF OpToRel
<1>4. \A k \in S : m <= k
  BY <1>3
<1> QED
  BY <1>4

-----------------------------------------------------------------------------
(* The calendar.                                                           *)

LEMMA CalendarTyped ==
  /\ MINUTES_PER_HOUR \in Nat \ {0} /\ HOURS_PER_DAY \in Nat \ {0} /\ DAYS_PER_WEEK \in Nat \ {0}
  /\ MONTHS_PER_YEAR \in Nat \ {0}
  /\ \A m \in 1 .. MONTHS_PER_YEAR : MonthDays[m] \in Nat \ {0} /\ DAYS_PER_WEEK <= MonthDays[m] + 1
  /\ DayOfWeek \in 0 .. DAYS_PER_WEEK - 1
<1>1. MonthDays \in Seq(Nat \ {0}) /\ MonthDays # <<>>
  BY RetentionAssumption
<1>2. MONTHS_PER_YEAR \in Nat \ {0} /\ DOMAIN MonthDays = 1 .. MONTHS_PER_YEAR
  BY <1>1 DEF MONTHS_PER_YEAR
<1>3. \A m \in 1 .. MONTHS_PER_YEAR : MonthDays[m] \in Nat \ {0}
  BY <1>1 DEF MONTHS_PER_YEAR
<1> QED
  BY <1>2, <1>3, RetentionAssumption

(* The recursion of DaysBefore has a solution up to every month: were      *)
(* there a first month without one, the one before would give it.          *)
SumsUpTo(f, n) ==
  /\ f \in [0 .. n -> Nat] /\ f[0] = 0
  /\ \A m \in 1 .. n : f[m] = f[m - 1] + MonthDays[m]

LEMMA SumsExist ==
  \A n \in 0 .. MONTHS_PER_YEAR : \E f : SumsUpTo(f, n)
<1> DEFINE Bad == {n \in 0 .. MONTHS_PER_YEAR : ~ \E f : SumsUpTo(f, n)}
<1>1. SUFFICES ASSUME Bad # {} PROVE FALSE
  OBVIOUS
<1>2. Bad \subseteq Nat
  BY CalendarTyped
<1>3. PICK n \in Bad : \A k \in Bad : n <= k
  BY <1>1, <1>2, LeastOfNat
<1>4. SumsUpTo([m \in 0 .. 0 |-> 0], 0)
  BY DEF SumsUpTo
<1>5. n \in 1 .. MONTHS_PER_YEAR /\ n - 1 \in 0 .. MONTHS_PER_YEAR /\ n - 1 \notin Bad
  BY <1>3, <1>4, CalendarTyped
<1>6. PICK f : SumsUpTo(f, n - 1)
  BY <1>5
<1> DEFINE g == [m \in 0 .. n |-> IF m = n THEN f[n - 1] + MonthDays[n] ELSE f[m]]
<1>7. f[n - 1] \in Nat /\ MonthDays[n] \in Nat /\ \A m \in 0 .. n - 1 : f[m] \in Nat /\ g[m] = f[m]
  BY <1>5, <1>6, CalendarTyped DEF SumsUpTo
<1>8. g \in [0 .. n -> Nat] /\ g[0] = 0
  BY <1>5, <1>6, <1>7 DEF SumsUpTo
<1>9. ASSUME NEW m \in 1 .. n PROVE g[m] = g[m - 1] + MonthDays[m]
  <2>1. CASE m = n
    BY <1>5, <1>7, <2>1
  <2>2. CASE m # n
    <3>1. m \in 1 .. n - 1 /\ m \in 0 .. n - 1 /\ m - 1 \in 0 .. n - 1
      BY <1>5, <2>2
    <3> QED
      BY <1>6, <1>7, <3>1 DEF SumsUpTo
  <2> QED
    BY <2>1, <2>2
<1>10. SumsUpTo(g, n)
  BY <1>8, <1>9 DEF SumsUpTo
<1> QED
  BY <1>3, <1>10

LEMMA DaysBeforeSums == SumsUpTo(DaysBefore, MONTHS_PER_YEAR)
<1> DEFINE F(f) == [m \in 0 .. MONTHS_PER_YEAR |-> IF m = 0 THEN 0 ELSE f[m - 1] + MonthDays[m]]
<1>1. DaysBefore = CHOOSE f : f = F(f)
  BY DEF DaysBefore
<1>2. PICK g : SumsUpTo(g, MONTHS_PER_YEAR)
  BY SumsExist, CalendarTyped
<1>3. g = F(g)
  BY <1>2, CalendarTyped DEF SumsUpTo
<1>4. DaysBefore = F(DaysBefore)
  BY <1>1, <1>3
<1> DEFINE f == DaysBefore
           Bad == {m \in 0 .. MONTHS_PER_YEAR : f[m] # g[m]}
<1>5. DOMAIN f = 0 .. MONTHS_PER_YEAR /\ \A m \in DOMAIN f : f[m] = IF m = 0 THEN 0 ELSE f[m - 1] + MonthDays[m]
  BY <1>4
<1> HIDE DEF f
<1>6. ASSUME Bad # {} PROVE FALSE
  <2>1. Bad \subseteq Nat
    BY CalendarTyped
  <2>2. PICK n \in Bad : \A k \in Bad : n <= k
    BY <1>6, <2>1, LeastOfNat
  <2>3. f[0] = 0 /\ g[0] = 0
    <3>1. 0 \in DOMAIN f
      BY <1>5, CalendarTyped
    <3>2. f[0] = 0
      BY <1>5, <3>1
    <3> QED
      BY <1>2, <3>2 DEF SumsUpTo
  <2>4. n \in 1 .. MONTHS_PER_YEAR /\ n - 1 \in 0 .. MONTHS_PER_YEAR /\ n - 1 \notin Bad
    BY <2>2, <2>3, CalendarTyped
  <2>5. f[n] = f[n - 1] + MonthDays[n] /\ g[n] = g[n - 1] + MonthDays[n]
    BY <1>2, <1>5, <2>4 DEF SumsUpTo
  <2> QED
    BY <2>2, <2>4, <2>5
<1>7. f = g
  <2>1. f = [m \in 0 .. MONTHS_PER_YEAR |-> f[m]]
    BY <1>4 DEF f
  <2>2. DOMAIN g = 0 .. MONTHS_PER_YEAR /\ g = [m \in 0 .. MONTHS_PER_YEAR |-> g[m]]
    BY <1>2 DEF SumsUpTo
  <2> QED
    BY <1>6, <2>1, <2>2
<1> QED
  BY <1>2, <1>7 DEF f

(* A later month begins after the end of an earlier one.                   *)
LEMMA MonthsFollow ==
  ASSUME NEW m \in 0 .. MONTHS_PER_YEAR, NEW n \in 0 .. MONTHS_PER_YEAR, m < n
  PROVE  DaysBefore[m] \in Nat /\ DaysBefore[m + 1] \in Nat /\ DaysBefore[n] \in Nat
         /\ DaysBefore[m + 1] <= DaysBefore[n]
<1> DEFINE f == DaysBefore
           Bad == {k \in m + 1 .. MONTHS_PER_YEAR : ~(f[m + 1] <= f[k])}
<1>1. f \in [0 .. MONTHS_PER_YEAR -> Nat] /\ \A k \in 1 .. MONTHS_PER_YEAR : f[k] = f[k - 1] + MonthDays[k]
  BY DaysBeforeSums DEF SumsUpTo
<1> HIDE DEF f
<1>2. m + 1 \in 0 .. MONTHS_PER_YEAR /\ n \in m + 1 .. MONTHS_PER_YEAR
  BY CalendarTyped
<1>3. f[m] \in Nat /\ f[m + 1] \in Nat /\ f[n] \in Nat
  BY <1>1, <1>2
<1>4. ASSUME Bad # {} PROVE FALSE
  <2>1. Bad \subseteq Nat
    BY CalendarTyped
  <2>2. PICK k \in Bad : \A j \in Bad : k <= j
    BY <1>4, <2>1, LeastOfNat
  <2>3. k # m + 1
    BY <1>3, <2>2
  <2>4. k \in 1 .. MONTHS_PER_YEAR /\ k - 1 \in m + 1 .. MONTHS_PER_YEAR /\ k - 1 \in 0 .. MONTHS_PER_YEAR
    BY <2>2, <2>3, CalendarTyped
  <2>5. k - 1 \notin Bad
    BY <2>2, <2>4
  <2>6. f[m + 1] <= f[k - 1]
    BY <2>4, <2>5
  <2>7. f[k - 1] \in Nat /\ MonthDays[k] \in Nat /\ f[k] = f[k - 1] + MonthDays[k]
    BY <1>1, <2>4, CalendarTyped
  <2> QED
    BY <1>3, <2>2, <2>6, <2>7
<1>5. f[m + 1] <= f[n]
  BY <1>2, <1>4
<1> QED
  BY <1>3, <1>5 DEF f

LEMMA YearHasDays == YearDays \in Nat \ {0}
<1>1. DaysBefore[0] = 0 /\ DaysBefore[1] = DaysBefore[0] + MonthDays[1] /\ DaysBefore[1] \in Nat
  BY DaysBeforeSums, CalendarTyped DEF SumsUpTo
<1>2. 0 \in 0 .. MONTHS_PER_YEAR /\ MONTHS_PER_YEAR \in 0 .. MONTHS_PER_YEAR /\ 0 < MONTHS_PER_YEAR
  BY CalendarTyped
<1>3. DaysBefore[0 + 1] <= DaysBefore[MONTHS_PER_YEAR] /\ DaysBefore[MONTHS_PER_YEAR] \in Nat
  BY <1>2, MonthsFollow
<1>4. MonthDays[1] \in Nat \ {0}
  BY CalendarTyped
<1> QED
  BY <1>1, <1>3, <1>4 DEF YearDays

(* Every day of a year lies in a month.                                    *)
LEMMA DayHasMonth ==
  ASSUME NEW d \in 0 .. YearDays - 1
  PROVE  \E m \in 0 .. MONTHS_PER_YEAR - 1 : DaysBefore[m] <= d /\ d < DaysBefore[m + 1]
<1> DEFINE f == DaysBefore
           After == {k \in 0 .. MONTHS_PER_YEAR : d < f[k]}
<1>1. f \in [0 .. MONTHS_PER_YEAR -> Nat] /\ f[0] = 0 /\ d \in Nat /\ d < f[MONTHS_PER_YEAR]
  BY DaysBeforeSums, YearHasDays DEF SumsUpTo, YearDays
<1> HIDE DEF f
<1>2. After \subseteq Nat /\ MONTHS_PER_YEAR \in After
  BY <1>1, CalendarTyped
<1>3. PICK k \in After : \A j \in After : k <= j
  BY <1>2, LeastOfNat
<1>4. k # 0
  BY <1>1, <1>3
<1>5. k - 1 \in 0 .. MONTHS_PER_YEAR - 1 /\ k - 1 \in 0 .. MONTHS_PER_YEAR /\ (k - 1) + 1 = k
  BY <1>3, <1>4, CalendarTyped
<1>6. k - 1 \notin After
  BY <1>3, <1>5
<1>7. f[k - 1] <= d
  BY <1>1, <1>5, <1>6
<1> QED
  BY <1>3, <1>5, <1>7 DEF f

(* Months numbered through the years, and the day each begins with.        *)
MonthStart(k) == YearDays * (k \div MONTHS_PER_YEAR) + DaysBefore[k % MONTHS_PER_YEAR]

InMonth(d, k) == MonthStart(k) <= d /\ d < MonthStart(k + 1)

LEMMA MonthStartIs ==
  ASSUME NEW y \in Int, NEW m \in 0 .. MONTHS_PER_YEAR - 1
  PROVE  /\ MONTHS_PER_YEAR * y + m \in Int /\ YearDays * y \in Int
         /\ MonthStart(MONTHS_PER_YEAR * y + m) = YearDays * y + DaysBefore[m]
         /\ MonthStart(MONTHS_PER_YEAR * y + m + 1) = YearDays * y + DaysBefore[m + 1]
         /\ DaysBefore[m] \in Nat /\ DaysBefore[m + 1] \in Nat
         /\ DaysBefore[m + 1] = DaysBefore[m] + MonthDays[m + 1]
         /\ DaysBefore[m + 1] <= YearDays
<1> DEFINE N == MONTHS_PER_YEAR
           k == N * y + m
<1>1. N \in Nat \ {0} /\ YearDays \in Nat \ {0} /\ m \in Nat /\ m < N /\ m + 1 \in 1 .. N /\ m \in 0 .. N /\ N \in 0 .. N
  BY CalendarTyped, YearHasDays
<1>2. k \in Int /\ YearDays * y \in Int
  <2> HIDE DEF N
  <2> QED
    BY <1>1, Z3
<1>3. k \div N = y /\ k % N = m
  BY <1>1, WithRest
<1>4. MonthStart(k) = YearDays * y + DaysBefore[m]
  BY <1>3 DEF MonthStart
<1>5. DaysBefore[m] \in Nat /\ DaysBefore[m + 1] \in Nat /\ DaysBefore[m + 1] = DaysBefore[m] + MonthDays[m + 1] /\ DaysBefore[0] = 0
  <2>1. (m + 1) - 1 = m /\ m + 1 \in 0 .. N
    BY <1>1
  <2> QED
    BY <1>1, <2>1, DaysBeforeSums DEF SumsUpTo
<1>6. DaysBefore[m + 1] <= YearDays
  BY <1>1, MonthsFollow DEF YearDays
<1>7. MonthStart(k + 1) = YearDays * y + DaysBefore[m + 1]
  <2>1. CASE m + 1 < N
    <3>1. m + 1 \in 0 .. N - 1 /\ k + 1 = N * y + (m + 1)
      BY <1>1, <1>2, <2>1
    <3>2. (k + 1) \div N = y /\ (k + 1) % N = m + 1
      BY <1>1, <3>1, WithRest
    <3> QED
      BY <3>2 DEF MonthStart
  <2>2. CASE m + 1 = N
    <3>1. N * (y + 1) = N * y + N /\ YearDays * (y + 1) = YearDays * y + YearDays
      <4> HIDE DEF N
      <4> QED
        BY <1>1, Z3
    <3>2. 0 \in 0 .. N - 1 /\ k + 1 = N * (y + 1) + 0 /\ y + 1 \in Int
      BY <1>1, <1>2, <2>2, <3>1
    <3>3. (k + 1) \div N = y + 1 /\ (k + 1) % N = 0
      BY <1>1, <3>2, WithRest
    <3>4. MonthStart(k + 1) = YearDays * (y + 1) + 0
      BY <1>5, <3>3 DEF MonthStart
    <3>5. YearDays = DaysBefore[m + 1]
      BY <2>2 DEF YearDays
    <3> QED
      BY <1>1, <1>2, <3>1, <3>4, <3>5
  <2> QED
    BY <1>1, <2>1, <2>2
<1> QED
  BY <1>2, <1>4, <1>5, <1>6, <1>7

LEMMA MonthStartGrows ==
  ASSUME NEW k \in Int, NEW l \in Int, k < l
  PROVE  /\ MonthStart(k) \in Int /\ MonthStart(k + 1) \in Int /\ MonthStart(l) \in Int
         /\ MonthStart(k) < MonthStart(k + 1)
         /\ MonthStart(k) + DAYS_PER_WEEK <= MonthStart(k + 1) + 1
         /\ MonthStart(k + 1) <= MonthStart(l)
<1> DEFINE N == MONTHS_PER_YEAR
           y == k \div N
           m == k % N
           z == l \div N
           n == l % N
<1>1. N \in Nat \ {0} /\ YearDays \in Nat \ {0}
  BY CalendarTyped, YearHasDays
<1>2. y \in Int /\ m \in 0 .. N - 1 /\ k - N * y = m /\ z \in Int /\ n \in 0 .. N - 1 /\ l - N * z = n /\ y <= z
  <2>1. y \in Int /\ m \in 0 .. N - 1 /\ k - N * y = m
    BY <1>1, Division
  <2>2. z \in Int /\ n \in 0 .. N - 1 /\ l - N * z = n
    BY <1>1, Division
  <2>3. y <= z
    BY <1>1, QuotientGrows
  <2> QED
    BY <2>1, <2>2, <2>3
<1> HIDE DEF y, m, z, n
<1>3. /\ N * y + m \in Int /\ YearDays * y \in Int
      /\ MonthStart(N * y + m) = YearDays * y + DaysBefore[m]
      /\ MonthStart(N * y + m + 1) = YearDays * y + DaysBefore[m + 1]
      /\ DaysBefore[m] \in Nat /\ DaysBefore[m + 1] \in Nat
      /\ DaysBefore[m + 1] = DaysBefore[m] + MonthDays[m + 1]
      /\ DaysBefore[m + 1] <= YearDays
  BY <1>2, MonthStartIs
<1>4. /\ N * z + n \in Int /\ YearDays * z \in Int
      /\ MonthStart(N * z + n) = YearDays * z + DaysBefore[n]
      /\ DaysBefore[n] \in Nat
  BY <1>2, MonthStartIs
<1>5. N * y \in Int /\ N * z \in Int
  <2> HIDE DEF N
  <2> QED
    BY <1>1, <1>2, Z3
<1>6. k = N * y + m /\ l = N * z + n
  BY <1>2, <1>5
<1>7. MonthDays[m + 1] \in Nat \ {0} /\ DAYS_PER_WEEK <= MonthDays[m + 1] + 1 /\ DAYS_PER_WEEK \in Nat
  <2>1. m + 1 \in 1 .. N
    BY <1>1, <1>2
  <2> QED
    BY <2>1, CalendarTyped
<1>8. MonthStart(k) = YearDays * y + DaysBefore[m] /\ MonthStart(k + 1) = YearDays * y + DaysBefore[m + 1]
      /\ MonthStart(l) = YearDays * z + DaysBefore[n]
  BY <1>3, <1>4, <1>6
<1>9. YearDays * y + DaysBefore[m + 1] <= YearDays * z + DaysBefore[n]
  <2>1. CASE y = z
    <3>1. m < n /\ m \in 0 .. N /\ n \in 0 .. N
      BY <1>1, <1>2, <1>5, <1>6, <2>1
    <3>2. DaysBefore[m + 1] <= DaysBefore[n]
      BY <3>1, MonthsFollow
    <3> QED
      BY <1>3, <1>4, <2>1, <3>2
  <2>2. CASE y < z
    <3>1. YearDays * y + YearDays <= YearDays * z
      BY <1>1, <1>2, <2>2, Scale
    <3> QED
      BY <1>1, <1>3, <1>4, <3>1
  <2> QED
    BY <1>2, <2>1, <2>2
<1> QED
  BY <1>3, <1>4, <1>7, <1>8, <1>9

(* A day lies in one month, and a later day in no earlier one.             *)
LEMMA MonthsGrow ==
  ASSUME NEW d \in Int, NEW c \in Int, d <= c, NEW k \in Int, NEW l \in Int, InMonth(d, k), InMonth(c, l)
  PROVE  k <= l
<1>1. SUFFICES ASSUME l < k PROVE FALSE
  OBVIOUS
<1>2. MonthStart(l + 1) \in Int /\ MonthStart(k) \in Int /\ MonthStart(l + 1) <= MonthStart(k)
  BY <1>1, MonthStartGrows
<1> QED
  BY <1>2 DEF InMonth

MonthNumber(t) == Year(t) * MONTHS_PER_YEAR + Month0(t)

LEMMA MonthOfTime ==
  ASSUME NEW t \in Int
  PROVE  /\ Hour(t) \in Int /\ Day(t) \in Int /\ Year(t) \in Int /\ Month0(t) \in 0 .. MONTHS_PER_YEAR - 1
         /\ MonthNumber(t) \in Int /\ InMonth(Day(t), MonthNumber(t))
         /\ DayInMonth(t) = Day(t) - MonthStart(MonthNumber(t)) + 1
         /\ MonthNumber(t) \div MONTHS_PER_YEAR = Year(t)
<1> DEFINE N == MONTHS_PER_YEAR
           y == Year(t)
           d == DayInYear(t)
           m == Month0(t)
<1>1. N \in Nat \ {0} /\ YearDays \in Nat \ {0}
  BY CalendarTyped, YearHasDays
<1>2. Hour(t) \in Int /\ Day(t) \in Int
  BY CalendarTyped, Division DEF Hour, Day
<1>3. y \in Int /\ d \in 0 .. YearDays - 1 /\ Day(t) - YearDays * y = d
  BY <1>1, <1>2, Division DEF Year, DayInYear
<1>4. m \in 0 .. N - 1 /\ DaysBefore[m] <= d /\ d < DaysBefore[m + 1]
  <2>1. \E i \in 0 .. N - 1 : DaysBefore[i] <= d /\ d < DaysBefore[i + 1]
    BY <1>3, DayHasMonth
  <2> QED
    BY <2>1 DEF Month0
<1>5. DayInMonth(t) = d - DaysBefore[m] + 1
  BY DEF DayInMonth
<1>6. MonthNumber(t) = y * N + m
  BY DEF MonthNumber
<1> HIDE DEF y, d, m
<1>7. /\ N * y + m \in Int /\ YearDays * y \in Int
      /\ MonthStart(N * y + m) = YearDays * y + DaysBefore[m]
      /\ MonthStart(N * y + m + 1) = YearDays * y + DaysBefore[m + 1]
      /\ DaysBefore[m] \in Nat /\ DaysBefore[m + 1] \in Nat
  BY <1>3, <1>4, MonthStartIs
<1>8. (N * y + m) \div N = y
  BY <1>1, <1>3, <1>4, WithRest
<1>9. y * N = N * y
  <2> HIDE DEF N
  <2> QED
    BY <1>1, <1>3, Z3
<1>10. MonthNumber(t) = N * y + m
  BY <1>6, <1>9
<1>11. InMonth(Day(t), N * y + m)
  BY <1>2, <1>3, <1>4, <1>7 DEF InMonth
<1>12. DayInMonth(t) = Day(t) - MonthStart(N * y + m) + 1
  BY <1>2, <1>3, <1>5, <1>7
<1> QED
  BY <1>2, <1>3, <1>4, <1>7, <1>8, <1>10, <1>11, <1>12 DEF y, m

LEMMA MonthAtIs ==
  ASSUME NEW day \in Int
  PROVE  MonthAt(day) \in Int /\ InMonth(day, MonthAt(day))
<1> DEFINE N == MONTHS_PER_YEAR
           t == (day + YearDays) * HOURS_PER_DAY * MINUTES_PER_HOUR
           y == Year(t)
           m == Month0(t)
<1>1. N \in Nat \ {0} /\ YearDays \in Nat \ {0} /\ HOURS_PER_DAY \in Nat \ {0} /\ MINUTES_PER_HOUR \in Nat \ {0}
  BY CalendarTyped, YearHasDays
<1>2. t \in Int /\ Day(t) = day + YearDays
  <2> DEFINE h == (day + YearDays) * HOURS_PER_DAY
  <2>1. h \in Int /\ h = HOURS_PER_DAY * (day + YearDays) + 0
    BY <1>1, Z3
  <2>2. h \div HOURS_PER_DAY = day + YearDays
    <3>1. day + YearDays \in Int /\ 0 \in 0 .. HOURS_PER_DAY - 1
      BY <1>1
    <3> QED
      BY <1>1, <2>1, <3>1, WithRest
  <2> HIDE DEF h
  <2>3. h * MINUTES_PER_HOUR \in Int /\ h * MINUTES_PER_HOUR = MINUTES_PER_HOUR * h + 0 /\ 0 \in 0 .. MINUTES_PER_HOUR - 1
    BY <1>1, <2>1, Z3
  <2>4. (h * MINUTES_PER_HOUR) \div MINUTES_PER_HOUR = h
    BY <1>1, <2>1, <2>3, WithRest
  <2>5. t = h * MINUTES_PER_HOUR
    BY DEF h
  <2> QED
    BY <2>2, <2>3, <2>4, <2>5 DEF Day, Hour
<1>3. MonthAt(day) = (y - 1) * N + m
  BY DEF MonthAt
<1>4. y \in Int /\ m \in 0 .. N - 1 /\ MonthNumber(t) \in Int /\ InMonth(Day(t), MonthNumber(t)) /\ MonthNumber(t) = y * N + m
  BY <1>2, MonthOfTime DEF MonthNumber
<1> HIDE DEF t, y, m
<1>5. /\ N * y + m \in Int /\ YearDays * y \in Int
      /\ MonthStart(N * y + m) = YearDays * y + DaysBefore[m]
      /\ MonthStart(N * y + m + 1) = YearDays * y + DaysBefore[m + 1]
      /\ DaysBefore[m] \in Nat /\ DaysBefore[m + 1] \in Nat
  BY <1>4, MonthStartIs
<1>6. y - 1 \in Int /\ y - 1 + 1 = y
  BY <1>4
<1>7. /\ N * (y - 1) + m \in Int /\ YearDays * (y - 1) \in Int
      /\ MonthStart(N * (y - 1) + m) = YearDays * (y - 1) + DaysBefore[m]
      /\ MonthStart(N * (y - 1) + m + 1) = YearDays * (y - 1) + DaysBefore[m + 1]
  BY <1>4, <1>6, MonthStartIs
<1>8. YearDays * (y - 1) = YearDays * y - YearDays
  BY <1>1, <1>4, Z3
<1>9. y * N = N * y /\ (y - 1) * N = N * (y - 1)
  <2> HIDE DEF N
  <2> QED
    BY <1>1, <1>4, Z3
<1>10. MonthAt(day) = N * (y - 1) + m /\ MonthNumber(t) = N * y + m
  BY <1>3, <1>4, <1>9
<1>11. InMonth(day + YearDays, N * y + m)
  BY <1>2, <1>4, <1>10
<1>12. InMonth(day, N * (y - 1) + m)
  BY <1>1, <1>5, <1>7, <1>8, <1>11 DEF InMonth
<1> QED
  BY <1>7, <1>10, <1>12

-----------------------------------------------------------------------------
(* compute_deltas.  Weeks are numbered like months are.                    *)

WeekNumber(d) == (d - DayOfWeek) \div DAYS_PER_WEEK

LEMMA WeekIs ==
  ASSUME NEW d \in Int
  PROVE  /\ WeekNumber(d) \in Int /\ DAYS_PER_WEEK * WeekNumber(d) \in Int
         /\ (d - DayOfWeek) % DAYS_PER_WEEK \in 0 .. DAYS_PER_WEEK - 1
         /\ d - ((d - DayOfWeek) % DAYS_PER_WEEK) = DayOfWeek + DAYS_PER_WEEK * WeekNumber(d)
<1> DEFINE W == DAYS_PER_WEEK
           a == d - DayOfWeek
<1>1. W \in Nat \ {0} /\ a \in Int /\ DayOfWeek \in Int
  BY CalendarTyped
<1>2. a \div W \in Int /\ a % W \in 0 .. W - 1 /\ a - W * (a \div W) = a % W
  BY <1>1, Division
<1> DEFINE q == a \div W
<1>3. W * q \in Int
  <2> HIDE DEF W, q
  <2> QED
    BY <1>1, <1>2, Z3 DEF q
<1>4. d - (a % W) = DayOfWeek + W * q
  <2> DEFINE r == a % W
  <2>1. r \in Int /\ a - W * q = r /\ a = d - DayOfWeek
    BY <1>1, <1>2
  <2> HIDE DEF a, q, r, W
  <2>2. d - r = DayOfWeek + W * q
    BY <1>1, <1>3, <2>1
  <2> QED
    BY <2>2 DEF r, a, q, W
<1> QED
  BY <1>2, <1>3, <1>4 DEF WeekNumber

(* The days since the first day of the week, as the code counts them.      *)
LEMMA SinceWeekIs ==
  ASSUME NEW d \in Int
  PROVE  LET since == (d % DAYS_PER_WEEK) - DayOfWeek
         IN  (IF since < 0 THEN since + DAYS_PER_WEEK ELSE since) = (d - DayOfWeek) % DAYS_PER_WEEK
<1> DEFINE W == DAYS_PER_WEEK
           q == d \div W
           r == d % W
           since == r - DayOfWeek
<1>1. W \in Nat \ {0} /\ DayOfWeek \in 0 .. W - 1
  BY CalendarTyped
<1>2. q \in Int /\ r \in 0 .. W - 1 /\ d - W * q = r
  BY <1>1, Division
<1> HIDE DEF W, q, r
<1>3. W * q \in Int /\ W * (q - 1) = W * q - W
  BY <1>1, <1>2, Z3
<1>4. CASE since < 0
  <2>1. since + W \in 0 .. W - 1 /\ q - 1 \in Int /\ d - DayOfWeek = W * (q - 1) + (since + W)
    BY <1>1, <1>2, <1>3, <1>4
  <2>2. (d - DayOfWeek) % W = since + W
    BY <1>1, <2>1, WithRest
  <2> QED
    BY <1>4, <2>2 DEF W, r
<1>5. CASE ~(since < 0)
  <2>1. since \in 0 .. W - 1 /\ d - DayOfWeek = W * q + since
    BY <1>1, <1>2, <1>3, <1>5
  <2>2. (d - DayOfWeek) % W = since
    BY <1>1, <1>2, <2>1, WithRest
  <2> QED
    BY <1>5, <2>2 DEF W, r
<1> QED
  BY <1>4, <1>5

(* The month of the first day of the week is this one or the last: no      *)
(* month is shorter than the rest of a week.                               *)
LEMMA AnchoredMonth ==
  ASSUME NEW t \in Int, NEW s \in 0 .. DAYS_PER_WEEK - 1
  PROVE  MonthAt(Day(t) - s) = MonthNumber(t) - (IF DayInMonth(t) <= s THEN 1 ELSE 0)
<1> DEFINE k == MonthNumber(t)
           d == Day(t)
           w == d - s
           l == MonthAt(w)
<1>1. d \in Int /\ k \in Int /\ InMonth(d, k) /\ DayInMonth(t) = d - MonthStart(k) + 1
  BY MonthOfTime
<1>2. DAYS_PER_WEEK \in Nat /\ s \in Nat /\ s <= DAYS_PER_WEEK - 1
  BY CalendarTyped
<1>3. w \in Int /\ l \in Int /\ InMonth(w, l)
  BY <1>1, <1>2, MonthAtIs
<1> HIDE DEF k, d, l
<1>4. /\ MonthStart(k - 1) \in Int /\ MonthStart(k) \in Int /\ MonthStart(k + 1) \in Int
      /\ MonthStart(k - 1) + DAYS_PER_WEEK <= MonthStart(k) + 1
  <2>1. k - 1 \in Int /\ k - 1 < k /\ k < k + 1 /\ k + 1 \in Int /\ (k - 1) + 1 = k
    BY <1>1
  <2>2. MonthStart(k) \in Int /\ MonthStart(k + 1) \in Int
    BY <1>1, <2>1, MonthStartGrows
  <2>3. MonthStart(k - 1) \in Int /\ MonthStart(k - 1) + DAYS_PER_WEEK <= MonthStart((k - 1) + 1) + 1
    BY <1>1, <2>1, MonthStartGrows
  <2> QED
    BY <2>1, <2>2, <2>3
<1>5. CASE DayInMonth(t) <= s
  <2>1. k - 1 \in Int /\ (k - 1) + 1 = k
    BY <1>1
  <2>2. InMonth(w, (k - 1))
    BY <1>1, <1>2, <1>4, <1>5, <2>1 DEF InMonth
  <2>3. l = k - 1
    <3>1. l <= k - 1 /\ k - 1 <= l
      BY <1>3, <2>1, <2>2, MonthsGrow
    <3> QED
      BY <1>3, <2>1, <3>1
  <2> QED
    BY <1>5, <2>3 DEF l, k, d
<1>6. CASE ~(DayInMonth(t) <= s)
  <2>1. InMonth(w, k)
    BY <1>1, <1>2, <1>4, <1>6 DEF InMonth
  <2>2. l <= k /\ k <= l
    BY <1>1, <1>3, <2>1, MonthsGrow
  <2>3. l = k - 0
    BY <1>1, <1>3, <2>2
  <2> QED
    BY <1>6, <2>3 DEF l, k, d
<1> QED
  BY <1>5, <1>6

(* The first day of the week of a moment.                                  *)
FirstOfWeek(t) == Day(t) - ((Day(t) - DayOfWeek) % DAYS_PER_WEEK)

(* The periods, numbered: those a snapshot counts for, and those a moment  *)
(* lies in.                                                                *)
PeriodOf(e) ==
  [hours |-> Hour(e.time), days |-> Day(e.time), weeks |-> WeekNumber(Day(e.time)),
   months |-> MonthAt(FirstOfWeek(e.time)), years |-> MonthAt(FirstOfWeek(e.time)) \div MONTHS_PER_YEAR]

PeriodAt(at) ==
  [hours |-> Hour(at), days |-> Day(at), weeks |-> WeekNumber(Day(at)),
   months |-> MonthNumber(at), years |-> Year(at)]

Ago(e, at) ==
  [hours |-> PeriodAt(at).hours - PeriodOf(e).hours, days |-> PeriodAt(at).days - PeriodOf(e).days,
   weeks |-> PeriodAt(at).weeks - PeriodOf(e).weeks, months |-> PeriodAt(at).months - PeriodOf(e).months,
   years |-> PeriodAt(at).years - PeriodOf(e).years]

LEMMA StartsOf ==
  ASSUME HourOfDay = 0, NEW e \in Entry
  PROVE  /\ e.time \in Nat /\ Hour(e.time) \in Int /\ Day(e.time) \in Int
         /\ HourInDay(e.time) \in 0 .. HOURS_PER_DAY - 1
         /\ Hour(e.time) - HOURS_PER_DAY * Day(e.time) = HourInDay(e.time)
         /\ DayStart(e) = Day(e.time)
         /\ FirstOfWeek(e.time) \in Int /\ WeekStart(e) = FirstOfWeek(e.time)
         /\ FirstOfWeek(e.time) = Day(e.time) - ((Day(e.time) - DayOfWeek) % DAYS_PER_WEEK)
<1>1. e.time \in Nat /\ Hour(e.time) \in Int /\ Day(e.time) \in Int
  BY MonthOfTime DEF Entry
<1>2. HourInDay(e.time) \in 0 .. HOURS_PER_DAY - 1
  BY <1>1, CalendarTyped, Division DEF HourInDay
<1>3. Hour(e.time) - HOURS_PER_DAY * Day(e.time) = HourInDay(e.time)
  BY <1>1, CalendarTyped, Division DEF HourInDay, Day
<1>4. ~(HourInDay(e.time) < HourOfDay)
  BY <1>2, CalendarTyped
<1>5. DayStart(e) = Day(e.time)
  BY <1>1, <1>4 DEF DayStart
<1> DEFINE r == (Day(e.time) - DayOfWeek) % DAYS_PER_WEEK
<1>6. r \in Int
  <2>1. r \in 0 .. DAYS_PER_WEEK - 1
    BY <1>1, WeekIs
  <2> HIDE DEF r
  <2> QED
    BY <2>1, CalendarTyped
<1>7. FirstOfWeek(e.time) = Day(e.time) - r /\ WeekStart(e) = Day(e.time) - r
  BY <1>5 DEF WeekStart, FirstOfWeek
<1>8. FirstOfWeek(e.time) \in Int
  <2> HIDE DEF r
  <2> QED
    BY <1>1, <1>6, <1>7
<1> QED
  BY <1>1, <1>2, <1>3, <1>5, <1>7, <1>8

LEMMA PeriodOfTyped ==
  ASSUME HourOfDay = 0, NEW e \in Entry
  PROVE  PeriodOf(e) \in [Units -> Int]
<1>1. Hour(e.time) \in Int /\ Day(e.time) \in Int /\ FirstOfWeek(e.time) \in Int
  BY StartsOf
<1>2. WeekNumber(Day(e.time)) \in Int /\ MonthAt(FirstOfWeek(e.time)) \in Int
  BY <1>1, WeekIs, MonthAtIs
<1>3. MonthAt(FirstOfWeek(e.time)) \div MONTHS_PER_YEAR \in Int
  BY <1>2, CalendarTyped, Division
<1> QED
  BY <1>1, <1>2, <1>3 DEF PeriodOf, Units

(* Each delta is the difference of two period numbers, so two snapshots    *)
(* fall in one bucket of the code exactly when they lie in one period, and *)
(* this whatever moment it is counted from.                                *)
LEMMA DeltasSplit ==
  ASSUME HourOfDay = 0, NEW e \in Entry, NEW at \in Nat
  PROVE  Deltas(e, at) = Ago(e, at)
<1> DEFINE t == e.time
           early == HourInDay(t) - (IF exact THEN HourOfDay ELSE 0)
           hoursFromDayStart == IF early < 0 THEN early + HOURS_PER_DAY ELSE early
           sinceWeek == Weekday(t) - DayOfWeek - (IF early < 0 THEN 1 ELSE 0)
           daysFromWeekStart == IF sinceWeek < 0 THEN sinceWeek + DAYS_PER_WEEK ELSE sinceWeek
           anchoredBefore == DayInMonth(t) <= daysFromWeekStart
           month == Month0(t) - (IF anchoredBefore THEN 1 ELSE 0)
           month0 == IF month < 0 THEN MONTHS_PER_YEAR - 1 ELSE month
           year == Year(t) - (IF month < 0 THEN 1 ELSE 0)
           hours == Hour(at) - Hour(t)
           days == (hours + hoursFromDayStart) \div HOURS_PER_DAY
           years == Year(at) - year
           s == (Day(t) - DayOfWeek) % DAYS_PER_WEEK
           K == MonthAt(FirstOfWeek(e.time))
<1>1. Deltas(e, at) = [hours |-> hours, days |-> days,
                       weeks |-> (days + daysFromWeekStart) \div DAYS_PER_WEEK,
                       months |-> years * MONTHS_PER_YEAR + (Month0(at) - month0),
                       years |-> years]
  BY DEF Deltas
<1>2. /\ t \in Nat /\ Hour(t) \in Int /\ Day(t) \in Int
      /\ HourInDay(t) \in 0 .. HOURS_PER_DAY - 1 /\ Hour(t) - HOURS_PER_DAY * Day(t) = HourInDay(t)
      /\ FirstOfWeek(e.time) \in Int /\ FirstOfWeek(e.time) = Day(t) - s
  BY StartsOf
<1>3. /\ Hour(at) \in Int /\ Day(at) \in Int /\ Year(at) \in Int /\ Month0(at) \in Int /\ MonthNumber(at) \in Int
      /\ Year(t) \in Int /\ Month0(t) \in 0 .. MONTHS_PER_YEAR - 1 /\ MonthNumber(t) \in Int
  <2>1. t \in Int /\ at \in Int
    BY <1>2
  <2>2. Year(t) \in Int /\ Month0(t) \in 0 .. MONTHS_PER_YEAR - 1 /\ MonthNumber(t) \in Int
    BY <2>1, MonthOfTime
  <2>3. Hour(at) \in Int /\ Day(at) \in Int /\ Year(at) \in Int /\ MonthNumber(at) \in Int
        /\ Month0(at) \in 0 .. MONTHS_PER_YEAR - 1
    BY <2>1, MonthOfTime
  <2>4. Month0(at) \in Int
    BY <2>3, CalendarTyped
  <2> QED
    BY <2>2, <2>3, <2>4
<1>4. s \in 0 .. DAYS_PER_WEEK - 1 /\ Day(t) - s = DayOfWeek + DAYS_PER_WEEK * WeekNumber(Day(t))
      /\ WeekNumber(Day(t)) \in Int /\ DAYS_PER_WEEK * WeekNumber(Day(t)) \in Int
  BY <1>2, WeekIs
<1>5. ~(early < 0) /\ hoursFromDayStart = HourInDay(t)
  BY <1>2, CalendarTyped
<1>6. daysFromWeekStart = s
  <2>1. Weekday(t) \in Int /\ DayOfWeek \in Int
    <3>1. Weekday(t) \in 0 .. DAYS_PER_WEEK - 1
      BY <1>2, CalendarTyped, Division DEF Weekday
    <3> QED
      BY <3>1, CalendarTyped
  <2>2. sinceWeek = (Day(t) % DAYS_PER_WEEK) - DayOfWeek
    BY <1>5, <2>1 DEF Weekday
  <2>3. (IF (Day(t) % DAYS_PER_WEEK) - DayOfWeek < 0 THEN (Day(t) % DAYS_PER_WEEK) - DayOfWeek + DAYS_PER_WEEK
         ELSE (Day(t) % DAYS_PER_WEEK) - DayOfWeek) = s
    BY <1>2, SinceWeekIs
  <2> HIDE DEF s, sinceWeek
  <2> QED
    BY <2>2, <2>3
<1> HIDE DEF t, early, hoursFromDayStart, sinceWeek, daysFromWeekStart, s, month, month0, year, K
<1>7. days = Day(at) - Day(t)
  <2>1. hours + hoursFromDayStart = Hour(at) - HOURS_PER_DAY * Day(t)
    <3> DEFINE x == HOURS_PER_DAY * Day(t)
    <3>1. x \in Int
      BY <1>2, CalendarTyped, Z3
    <3> HIDE DEF x
    <3>2. hours + HourInDay(t) = Hour(at) - x
      BY <1>2, <1>3, <3>1 DEF x
    <3> QED
      BY <1>5, <3>2 DEF x
  <2>2. (Hour(at) - HOURS_PER_DAY * Day(t)) \div HOURS_PER_DAY = Hour(at) \div HOURS_PER_DAY - Day(t)
    BY <1>2, <1>3, CalendarTyped, Shift
  <2> QED
    BY <2>1, <2>2 DEF Day
<1>8. (days + daysFromWeekStart) \div DAYS_PER_WEEK = WeekNumber(Day(at)) - WeekNumber(Day(t))
  <2> DEFINE x == DAYS_PER_WEEK * WeekNumber(Day(t))
             c == Day(at) - DayOfWeek
  <2>1. x \in Int /\ c \in Int
    BY <1>3, <1>4, CalendarTyped
  <2>2. (c - x) \div DAYS_PER_WEEK = c \div DAYS_PER_WEEK - WeekNumber(Day(t))
    BY <1>4, <2>1, CalendarTyped, Shift
  <2>3. days + daysFromWeekStart = c - x
    <3>1. Day(t) - s = DayOfWeek + x /\ s \in Int /\ DayOfWeek \in Int
      BY <1>4, CalendarTyped
    <3> HIDE DEF x
    <3> QED
      BY <1>2, <1>3, <1>6, <1>7, <2>1, <3>1
  <2> HIDE DEF x
  <2> QED
    BY <2>2, <2>3 DEF WeekNumber
<1>9. month = Month0(t) - (IF DayInMonth(t) <= s THEN 1 ELSE 0)
  BY <1>6 DEF month
<1>10. K = MonthNumber(t) - (IF DayInMonth(t) <= s THEN 1 ELSE 0)
  BY <1>2, <1>4, AnchoredMonth DEF K
<1>11. month0 \in 0 .. MONTHS_PER_YEAR - 1 /\ year \in Int /\ K = year * MONTHS_PER_YEAR + month0
  <2> DEFINE y == Year(t)
             x == y * MONTHS_PER_YEAR
             a == IF DayInMonth(t) <= s THEN 1 ELSE 0
  <2>1. a \in 0 .. 1 /\ x \in Int /\ (y - 1) * MONTHS_PER_YEAR = x - MONTHS_PER_YEAR
    <3>1. a \in 0 .. 1
      OBVIOUS
    <3>2. y \in Int /\ MONTHS_PER_YEAR \in Nat
      BY <1>3, CalendarTyped
    <3> HIDE DEF a, y
    <3>3. x \in Int /\ (y - 1) * MONTHS_PER_YEAR = x - MONTHS_PER_YEAR
      BY <3>2, Z3
    <3> QED
      BY <3>1, <3>3
  <2>2. month = Month0(t) - a /\ K = (x + Month0(t)) - a
    <3>1. month = Month0(t) - a
      BY <1>9
    <3>2. MonthNumber(t) = x + Month0(t)
      BY DEF MonthNumber
    <3>3. K = MonthNumber(t) - a
      BY <1>10
    <3> HIDE DEF a, x
    <3>4. K = (x + Month0(t)) - a
      BY <3>2, <3>3
    <3> QED
      BY <3>1, <3>4
  <2> HIDE DEF a, x
  <2>3. CASE month < 0
    <3>1. Month0(t) = 0 /\ a = 1
      BY <1>3, <2>1, <2>2, <2>3
    <3>2. month0 = MONTHS_PER_YEAR - 1 /\ year = y - 1
      BY <2>3 DEF month0, year
    <3>3. K = x - 1 /\ year * MONTHS_PER_YEAR = x - MONTHS_PER_YEAR
      BY <2>1, <2>2, <3>1, <3>2
    <3> QED
      BY <1>3, <2>1, <3>2, <3>3, CalendarTyped
  <2>4. CASE ~(month < 0)
    <3>1. month0 = month /\ year = y
      BY <1>3, <2>4 DEF month0, year
    <3>2. month \in 0 .. MONTHS_PER_YEAR - 1
      BY <1>3, <2>1, <2>2, <2>4, CalendarTyped
    <3>3. K = x + month
      BY <1>3, <2>1, <2>2
    <3> QED
      BY <1>3, <3>1, <3>2, <3>3 DEF x
  <2> QED
    BY <2>3, <2>4
<1> DEFINE N == MONTHS_PER_YEAR
<1>12. N * year \in Int /\ Year(at) * N \in Int /\ years * N = Year(at) * N - N * year /\ year * N = N * year
  <2>1. N \in Nat /\ Year(at) \in Int /\ year \in Int
    BY <1>3, <1>11, CalendarTyped
  <2> DEFINE z == Year(at)
  <2> HIDE DEF N, z
  <2>2. N * year \in Int /\ z * N \in Int /\ (z - year) * N = z * N - N * year /\ year * N = N * year
    BY <2>1, Z3 DEF z
  <2> QED
    BY <2>2 DEF z
<1>13. K \in Int /\ K = N * year + month0 /\ K \div N = year
  <2>1. N \in Nat \ {0} /\ K = N * year + month0
    BY <1>11, <1>12, CalendarTyped
  <2>2. (N * year + month0) \div N = year
    BY <1>11, <2>1, WithRest
  <2>3. K \in Int
    BY <1>2, MonthAtIs DEF K
  <2> QED
    BY <2>1, <2>2, <2>3
<1>14. years * N + (Month0(at) - month0) = MonthNumber(at) - K
  <2> DEFINE u == Year(at) * N
             v == N * year
  <2>1. MonthNumber(at) = u + Month0(at) /\ years * N = u - v /\ K = v + month0
        /\ u \in Int /\ v \in Int /\ month0 \in Int
    BY <1>11, <1>12, <1>13 DEF MonthNumber
  <2> HIDE DEF u, v
  <2>2. (u - v) + (Month0(at) - month0) = (u + Month0(at)) - (v + month0)
    BY <1>3, <2>1
  <2> QED
    BY <2>1, <2>2
<1>15. years = Year(at) - K \div N
  BY <1>13
<1>16. /\ PeriodAt(at).hours - PeriodOf(e).hours = hours
       /\ PeriodAt(at).days - PeriodOf(e).days = Day(at) - Day(t)
       /\ PeriodAt(at).weeks - PeriodOf(e).weeks = WeekNumber(Day(at)) - WeekNumber(Day(t))
       /\ PeriodAt(at).months - PeriodOf(e).months = MonthNumber(at) - K
       /\ PeriodAt(at).years - PeriodOf(e).years = Year(at) - K \div N
  BY DEF PeriodAt, PeriodOf, t, K
<1> QED
  BY <1>1, <1>7, <1>8, <1>14, <1>15, <1>16 DEF Ago

LEMMA DeltaIs ==
  ASSUME HourOfDay = 0, NEW e \in Entry, NEW at \in Nat, NEW u \in Units
  PROVE  /\ Deltas(e, at) = Ago(e, at) /\ Ago(e, at)[u] = PeriodAt(at)[u] - PeriodOf(e)[u]
         /\ PeriodAt(at)[u] \in Int /\ PeriodOf(e)[u] \in Int
<1>1. Hour(at) \in Int /\ Day(at) \in Int /\ Year(at) \in Int /\ MonthNumber(at) \in Int
  BY MonthOfTime
<1>2. WeekNumber(Day(at)) \in Int
  BY <1>1, WeekIs
<1>3. PeriodAt(at)[u] \in Int
  BY <1>1, <1>2 DEF PeriodAt, Units
<1>4. PeriodOf(e)[u] \in Int
  BY PeriodOfTyped
<1>5. Deltas(e, at) = Ago(e, at) /\ Ago(e, at)[u] = PeriodAt(at)[u] - PeriodOf(e)[u]
  BY DeltasSplit DEF Units, Ago
<1> QED
  BY <1>3, <1>4, <1>5

(* A coarser period holds the finer ones whole.                            *)
LEMMA PeriodsNest ==
  ASSUME HourOfDay = 0, NEW e \in Entry, NEW f \in Entry
  PROVE  /\ PeriodOf(e)["hours"] = PeriodOf(f)["hours"] => PeriodOf(e)["days"] = PeriodOf(f)["days"]
         /\ PeriodOf(e)["days"] = PeriodOf(f)["days"] => PeriodOf(e)["weeks"] = PeriodOf(f)["weeks"]
         /\ PeriodOf(e)["weeks"] = PeriodOf(f)["weeks"] => FirstOfWeek(e.time) = FirstOfWeek(f.time)
         /\ FirstOfWeek(e.time) = FirstOfWeek(f.time) => PeriodOf(e)["months"] = PeriodOf(f)["months"]
         /\ PeriodOf(e)["months"] = PeriodOf(f)["months"] => PeriodOf(e)["years"] = PeriodOf(f)["years"]
<1>1. ASSUME NEW g \in Entry
      PROVE  FirstOfWeek(g.time) = DayOfWeek + DAYS_PER_WEEK * WeekNumber(Day(g.time))
  BY StartsOf, WeekIs
<1> QED
  BY <1>1 DEF PeriodOf, Day

(* A later snapshot lies in no earlier period, and in none to come.        *)
LEMMA PeriodsGrow ==
  ASSUME HourOfDay = 0, NEW e \in Entry, NEW f \in Entry, e.time <= f.time, NEW u \in Units
  PROVE  PeriodOf(e)[u] <= PeriodOf(f)[u]
<1>1. e.time \in Nat /\ f.time \in Nat /\ Hour(e.time) \in Int /\ Hour(f.time) \in Int
      /\ Day(e.time) \in Int /\ Day(f.time) \in Int /\ FirstOfWeek(e.time) \in Int /\ FirstOfWeek(f.time) \in Int
  BY StartsOf
<1>2. Hour(e.time) <= Hour(f.time)
  BY <1>1, QuotientGrows, CalendarTyped DEF Hour
<1>3. Day(e.time) <= Day(f.time)
  BY <1>1, <1>2, QuotientGrows, CalendarTyped DEF Day
<1>4. WeekNumber(Day(e.time)) <= WeekNumber(Day(f.time))
  <2>1. Day(e.time) - DayOfWeek \in Int /\ Day(f.time) - DayOfWeek \in Int
        /\ Day(e.time) - DayOfWeek <= Day(f.time) - DayOfWeek
    BY <1>1, <1>3, CalendarTyped
  <2> QED
    BY <2>1, QuotientGrows, CalendarTyped DEF WeekNumber
<1>5. FirstOfWeek(e.time) <= FirstOfWeek(f.time)
  <2> DEFINE v == WeekNumber(Day(e.time))
             w == WeekNumber(Day(f.time))
             W == DAYS_PER_WEEK
  <2>1. v \in Int /\ w \in Int /\ FirstOfWeek(e.time) = DayOfWeek + W * v /\ FirstOfWeek(f.time) = DayOfWeek + W * w
        /\ W * v \in Int /\ W * w \in Int
    BY <1>1, StartsOf, WeekIs
  <2>2. v <= w /\ W \in Nat \ {0} /\ DayOfWeek \in Int
    BY <1>4, CalendarTyped
  <2> HIDE DEF v, w, W
  <2>3. CASE v < w
    <3>1. W * v + W <= W * w
      BY <2>1, <2>2, <2>3, Scale
    <3> QED
      BY <2>1, <2>2, <3>1
  <2>4. CASE v = w
    BY <2>1, <2>2, <2>4
  <2> QED
    BY <2>1, <2>2, <2>3, <2>4
<1>6. MonthAt(FirstOfWeek(e.time)) \in Int /\ MonthAt(FirstOfWeek(f.time)) \in Int /\ MonthAt(FirstOfWeek(e.time)) <= MonthAt(FirstOfWeek(f.time))
  <2>1. /\ MonthAt(FirstOfWeek(e.time)) \in Int /\ InMonth(FirstOfWeek(e.time), MonthAt(FirstOfWeek(e.time)))
        /\ MonthAt(FirstOfWeek(f.time)) \in Int /\ InMonth(FirstOfWeek(f.time), MonthAt(FirstOfWeek(f.time)))
    BY <1>1, MonthAtIs
  <2> QED
    BY <1>1, <1>5, <2>1, MonthsGrow
<1>7. MonthAt(FirstOfWeek(e.time)) \div MONTHS_PER_YEAR <= MonthAt(FirstOfWeek(f.time)) \div MONTHS_PER_YEAR
  BY <1>6, QuotientGrows, CalendarTyped
<1> QED
  BY <1>2, <1>3, <1>4, <1>6, <1>7 DEF PeriodOf, Units

LEMMA MomentsGrow ==
  ASSUME NEW t \in Int, NEW at \in Int, t <= at, NEW u \in Units
  PROVE  PeriodAt(t)[u] <= PeriodAt(at)[u]
<1>1. /\ Hour(t) \in Int /\ Day(t) \in Int /\ MonthNumber(t) \in Int /\ InMonth(Day(t), MonthNumber(t))
      /\ MonthNumber(t) \div MONTHS_PER_YEAR = Year(t)
  BY MonthOfTime
<1>2. /\ Hour(at) \in Int /\ Day(at) \in Int /\ MonthNumber(at) \in Int /\ InMonth(Day(at), MonthNumber(at))
      /\ MonthNumber(at) \div MONTHS_PER_YEAR = Year(at)
  BY MonthOfTime
<1>3. Hour(t) <= Hour(at)
  BY QuotientGrows, CalendarTyped DEF Hour
<1>4. Day(t) <= Day(at)
  BY <1>1, <1>2, <1>3, QuotientGrows, CalendarTyped DEF Day
<1>5. WeekNumber(Day(t)) <= WeekNumber(Day(at))
  <2>1. Day(t) - DayOfWeek \in Int /\ Day(at) - DayOfWeek \in Int /\ Day(t) - DayOfWeek <= Day(at) - DayOfWeek
    BY <1>1, <1>2, <1>4, CalendarTyped
  <2> QED
    BY <2>1, QuotientGrows, CalendarTyped DEF WeekNumber
<1>6. MonthNumber(t) <= MonthNumber(at)
  BY <1>1, <1>2, <1>4, MonthsGrow
<1>7. Year(t) <= Year(at)
  <2>1. MonthNumber(t) \div MONTHS_PER_YEAR <= MonthNumber(at) \div MONTHS_PER_YEAR
    BY <1>1, <1>2, <1>6, QuotientGrows, CalendarTyped
  <2> QED
    BY <1>1, <1>2, <2>1
<1> QED
  BY <1>3, <1>4, <1>5, <1>6, <1>7 DEF PeriodAt, Units

LEMMA NothingFromTheFuture ==
  ASSUME HourOfDay = 0, NEW e \in Entry, NEW at \in Nat, e.time <= at, NEW u \in Units
  PROVE  PeriodOf(e)[u] <= PeriodAt(at)[u]
<1>1. e.time \in Nat /\ Day(e.time) \in Int /\ FirstOfWeek(e.time) \in Int
      /\ FirstOfWeek(e.time) = Day(e.time) - ((Day(e.time) - DayOfWeek) % DAYS_PER_WEEK)
  BY StartsOf
<1>2. FirstOfWeek(e.time) <= Day(e.time)
  <2> DEFINE r == (Day(e.time) - DayOfWeek) % DAYS_PER_WEEK
  <2>1. r \in 0 .. DAYS_PER_WEEK - 1
    BY <1>1, WeekIs
  <2>2. FirstOfWeek(e.time) = Day(e.time) - r
    BY <1>1
  <2> HIDE DEF r
  <2> QED
    BY <1>1, <2>1, <2>2, CalendarTyped
<1>3. PeriodAt(e.time)[u] <= PeriodAt(at)[u] /\ PeriodAt(e.time)[u] \in Int /\ PeriodAt(at)[u] \in Int
  BY <1>1, MomentsGrow, DeltaIs
<1>4. PeriodOf(e)[u] <= PeriodAt(e.time)[u]
  <2>1. /\ Hour(e.time) \in Int /\ MonthNumber(e.time) \in Int /\ InMonth(Day(e.time), MonthNumber(e.time))
        /\ MonthNumber(e.time) \div MONTHS_PER_YEAR = Year(e.time)
    BY <1>1, MonthOfTime
  <2>2. MonthAt(FirstOfWeek(e.time)) \in Int /\ InMonth(FirstOfWeek(e.time), MonthAt(FirstOfWeek(e.time)))
    BY <1>1, MonthAtIs
  <2>3. MonthAt(FirstOfWeek(e.time)) <= MonthNumber(e.time)
    BY <1>1, <1>2, <2>1, <2>2, MonthsGrow
  <2>4. MonthAt(FirstOfWeek(e.time)) \div MONTHS_PER_YEAR <= MonthNumber(e.time) \div MONTHS_PER_YEAR
    BY <2>1, <2>2, <2>3, QuotientGrows, CalendarTyped
  <2>5. WeekNumber(Day(e.time)) \in Int
    BY <1>1, WeekIs
  <2> QED
    BY <1>1, <2>1, <2>3, <2>4, <2>5 DEF PeriodOf, PeriodAt, Units
<1> QED
  BY <1>3, <1>4, PeriodOfTyped

-----------------------------------------------------------------------------
(* The order of the snapshots.                                             *)

LEMMA OlderIsAnOrder ==
  ASSUME NEW e \in Entry, NEW f \in Entry
  PROVE  /\ ~Older(e, e)
         /\ Older(e, f) => ~Older(f, e) /\ e.time <= f.time
         /\ ~Older(e, f) => f.time <= e.time
         /\ ~Older(e, f) /\ ~Older(f, e) => e = f
<1>1. e.time \in Nat /\ f.time \in Nat /\ e.nn \in Nat /\ f.nn \in Nat
  BY DEF Entry
<1>2. ~Older(e, e)
  BY <1>1 DEF Older
<1>3. Older(e, f) => ~Older(f, e) /\ e.time <= f.time
  BY <1>1 DEF Older
<1>4. ~Older(e, f) => f.time <= e.time
  BY <1>1 DEF Older
<1>5. ~Older(e, f) /\ ~Older(f, e) => e.time = f.time /\ e.nn = f.nn
  BY <1>1 DEF Older
<1>6. e = [time |-> e.time, nn |-> e.nn] /\ f = [time |-> f.time, nn |-> f.nn]
  BY DEF Entry
<1>7. ~Older(e, f) /\ ~Older(f, e) => e = f
  BY <1>5, <1>6
<1> QED
  BY <1>2, <1>3, <1>4, <1>7

LEMMA OldestExists ==
  ASSUME NEW T, T \subseteq Entry, T # {}
  PROVE  \E e \in T : \A f \in T : ~Older(f, e)
<1> DEFINE times == {e.time : e \in T}
<1>1. times \subseteq Nat /\ times # {}
  BY DEF Entry
<1>2. PICK t \in times : \A s \in times : t <= s
  BY <1>1, LeastOfNat
<1> DEFINE U == {e \in T : e.time = t}
           nns == {e.nn : e \in U}
<1>3. nns \subseteq Nat /\ nns # {}
  BY <1>2 DEF Entry
<1>4. PICK n \in nns : \A m \in nns : n <= m
  BY <1>3, LeastOfNat
<1>5. PICK e \in T : e.time = t /\ e.nn = n
  BY <1>4
<1>6. ASSUME NEW f \in T PROVE ~Older(f, e)
  <2>1. t <= f.time /\ t \in Nat /\ n \in Nat /\ f.time \in Nat /\ f.nn \in Nat
    BY <1>1, <1>2, <1>3, <1>4 DEF Entry
  <2>2. f.time = t => n <= f.nn
    BY <1>4
  <2> QED
    BY <1>5, <2>1, <2>2 DEF Older
<1> QED
  BY <1>6

-----------------------------------------------------------------------------
(* The cascade.                                                            *)

OldestOfPeriod(S, u) ==
  {e \in S : \A f \in S : PeriodOf(f)[u] = PeriodOf(e)[u] => ~Older(f, e)}

LEMMA PeriodHasOldest ==
  ASSUME NEW S, S \subseteq Entry, NEW u \in Units, NEW g \in S
  PROVE  \E e \in OldestOfPeriod(S, u) : PeriodOf(e)[u] = PeriodOf(g)[u] /\ ~Older(g, e)
<1> DEFINE T == {e \in S : PeriodOf(e)[u] = PeriodOf(g)[u]}
<1>1. T \subseteq Entry /\ T # {}
  OBVIOUS
<1>2. PICK e \in T : \A f \in T : ~Older(f, e)
  BY <1>1, OldestExists
<1>3. e \in OldestOfPeriod(S, u)
  BY <1>2 DEF OldestOfPeriod
<1> QED
  BY <1>2, <1>3

(* x is in the aged S when its entry is in S.                              *)
LEMMA AgedIs ==
  ASSUME NEW S, NEW at
  PROVE  /\ \A x \in Aged(S, at) : x.entry \in S /\ x.ago = Deltas(x.entry, at)
                                   /\ x = [entry |-> x.entry, ago |-> Deltas(x.entry, at)]
         /\ \A e \in S : [entry |-> e, ago |-> Deltas(e, at)] \in Aged(S, at)
BY DEF Aged

LEMMA BucketsArePeriods ==
  ASSUME HourOfDay = 0, NEW e \in Entry, NEW f \in Entry, NEW at \in Nat, NEW u \in Units
  PROVE  /\ Deltas(f, at)[u] = Deltas(e, at)[u] <=> PeriodOf(f)[u] = PeriodOf(e)[u]
         /\ Deltas(f, at)[u] <= Deltas(e, at)[u] <=> PeriodOf(e)[u] <= PeriodOf(f)[u]
<1>1. /\ Deltas(e, at)[u] = PeriodAt(at)[u] - PeriodOf(e)[u]
      /\ Deltas(f, at)[u] = PeriodAt(at)[u] - PeriodOf(f)[u]
      /\ PeriodAt(at)[u] \in Int /\ PeriodOf(e)[u] \in Int /\ PeriodOf(f)[u] \in Int
  BY DeltaIs
<1> DEFINE k == PeriodAt(at)[u]
           p == PeriodOf(e)[u]
           q == PeriodOf(f)[u]
<1> HIDE DEF k, p, q
<1>2. Deltas(e, at)[u] = k - p /\ Deltas(f, at)[u] = k - q /\ k \in Int /\ p \in Int /\ q \in Int
  BY <1>1 DEF k, p, q
<1>3. (k - q = k - p <=> q = p) /\ (k - q <= k - p <=> p <= q)
  BY <1>2
<1> QED
  BY <1>2, <1>3 DEF p, q

LEMMA HoursFirst ==
  ASSUME HourOfDay = 0, NEW S, S \subseteq Entry, NEW at \in Nat
  PROVE  FirstOfHours(Aged(S, at)) = Aged(OldestOfPeriod(S, "hours"), at)
<1> DEFINE A == Aged(S, at)
           rec(e) == [entry |-> e, ago |-> Deltas(e, at)]
<1>0. "hours" \in Units
  BY DEF Units
<1>1. ASSUME NEW x \in FirstOfHours(A) PROVE x \in Aged(OldestOfPeriod(S, "hours"), at)
  <2>1. x \in A /\ \A y \in A : y.ago.hours = x.ago.hours => ~Older(y.entry, x.entry)
    BY <1>1 DEF FirstOfHours
  <2>2. x.entry \in S /\ x.ago = Deltas(x.entry, at) /\ x = rec(x.entry)
    BY <2>1, AgedIs
  <2>3. ASSUME NEW f \in S, PeriodOf(f)["hours"] = PeriodOf(x.entry)["hours"] PROVE ~Older(f, x.entry)
    <3>1. Deltas(f, at)["hours"] = Deltas(x.entry, at)["hours"]
      BY <1>0, <2>2, <2>3, BucketsArePeriods
    <3>2. rec(f) \in A
      BY AgedIs
    <3> QED
      BY <2>1, <2>2, <3>1, <3>2
  <2>4. x.entry \in OldestOfPeriod(S, "hours")
    BY <2>2, <2>3 DEF OldestOfPeriod
  <2> QED
    BY <2>2, <2>4, AgedIs
<1>2. ASSUME NEW x \in Aged(OldestOfPeriod(S, "hours"), at) PROVE x \in FirstOfHours(A)
  <2>1. x.entry \in OldestOfPeriod(S, "hours") /\ x.ago = Deltas(x.entry, at) /\ x = rec(x.entry)
    BY AgedIs
  <2>2. x.entry \in S /\ \A f \in S : PeriodOf(f)["hours"] = PeriodOf(x.entry)["hours"] => ~Older(f, x.entry)
    BY <2>1 DEF OldestOfPeriod
  <2>3. x \in A
    BY <2>1, <2>2, AgedIs
  <2>4. ASSUME NEW y \in A, y.ago.hours = x.ago.hours PROVE ~Older(y.entry, x.entry)
    <3>1. y.entry \in S /\ y.ago = Deltas(y.entry, at)
      BY AgedIs
    <3>2. Deltas(y.entry, at)["hours"] = Deltas(x.entry, at)["hours"]
      BY <2>1, <2>4, <3>1
    <3>3. PeriodOf(y.entry)["hours"] = PeriodOf(x.entry)["hours"]
      BY <1>0, <2>2, <3>1, <3>2, BucketsArePeriods
    <3> QED
      BY <2>2, <3>1, <3>3
  <2> QED
    BY <2>3, <2>4 DEF FirstOfHours
<1> QED
  BY <1>1, <1>2

(* Rolled up from the oldest of every finer period: the oldest of every    *)
(* coarser one.                                                            *)
LEMMA RollUpIs ==
  ASSUME HourOfDay = 0, NEW S, S \subseteq Entry, NEW at \in Nat, NEW fine \in Units, NEW coarse \in Units,
         \A e, f \in Entry : PeriodOf(e)[fine] = PeriodOf(f)[fine] => PeriodOf(e)[coarse] = PeriodOf(f)[coarse]
  PROVE  RollUp(Aged(OldestOfPeriod(S, fine), at), fine, coarse) = Aged(OldestOfPeriod(S, coarse), at)
<1> DEFINE R == OldestOfPeriod(S, fine)
           A == Aged(R, at)
           rec(e) == [entry |-> e, ago |-> Deltas(e, at)]
<1>0. R \subseteq S /\ \A e \in R : \A f \in S : PeriodOf(f)[fine] = PeriodOf(e)[fine] => ~Older(f, e)
  BY DEF OldestOfPeriod
<1> HIDE DEF R
<1>1. ASSUME NEW x \in RollUp(A, fine, coarse) PROVE x \in Aged(OldestOfPeriod(S, coarse), at)
  <2>1. x \in A /\ \A y \in A : y.ago[coarse] = x.ago[coarse] => y.ago[fine] <= x.ago[fine]
    BY <1>1 DEF RollUp
  <2>2. x.entry \in R /\ x.ago = Deltas(x.entry, at) /\ x = rec(x.entry) /\ x.entry \in Entry
    BY <1>0, <2>1, AgedIs
  <2>3. ASSUME NEW f \in S, PeriodOf(f)[coarse] = PeriodOf(x.entry)[coarse], Older(f, x.entry) PROVE FALSE
    <3>1. PICK g \in R : PeriodOf(g)[fine] = PeriodOf(f)[fine]
      BY PeriodHasOldest DEF R
    <3>2. g \in Entry /\ f \in Entry /\ PeriodOf(g)[coarse] = PeriodOf(x.entry)[coarse]
      BY <1>0, <2>3, <3>1
    <3>3. rec(g) \in A /\ rec(g).ago = Deltas(g, at)
      BY AgedIs
    <3>4. Deltas(g, at)[coarse] = Deltas(x.entry, at)[coarse]
      BY <2>2, <3>2, BucketsArePeriods
    <3>5. Deltas(g, at)[fine] <= Deltas(x.entry, at)[fine]
      BY <2>1, <2>2, <3>3, <3>4
    <3>6. PeriodOf(x.entry)[fine] <= PeriodOf(g)[fine]
      BY <2>2, <3>2, <3>5, BucketsArePeriods
    <3>7. f.time <= x.entry.time
      BY <2>2, <2>3, <3>2, OlderIsAnOrder
    <3>8. PeriodOf(f)[fine] <= PeriodOf(x.entry)[fine]
      BY <2>2, <3>2, <3>7, PeriodsGrow
    <3>9. PeriodOf(f)[fine] \in Int /\ PeriodOf(x.entry)[fine] \in Int
      BY <2>2, <3>2, PeriodOfTyped
    <3>10. PeriodOf(f)[fine] = PeriodOf(x.entry)[fine]
      BY <3>1, <3>6, <3>8, <3>9
    <3> QED
      BY <1>0, <2>2, <2>3, <3>10
  <2>4. x.entry \in OldestOfPeriod(S, coarse)
    BY <1>0, <2>2, <2>3 DEF OldestOfPeriod
  <2> QED
    BY <2>2, <2>4, AgedIs
<1>2. ASSUME NEW x \in Aged(OldestOfPeriod(S, coarse), at) PROVE x \in RollUp(A, fine, coarse)
  <2>1. x.entry \in OldestOfPeriod(S, coarse) /\ x.ago = Deltas(x.entry, at) /\ x = rec(x.entry)
    BY AgedIs
  <2>2. x.entry \in S /\ \A f \in S : PeriodOf(f)[coarse] = PeriodOf(x.entry)[coarse] => ~Older(f, x.entry)
    BY <2>1 DEF OldestOfPeriod
  <2>3. x.entry \in R
    BY <2>2 DEF R, OldestOfPeriod
  <2>4. x \in A
    BY <2>1, <2>3, AgedIs
  <2>5. ASSUME NEW y \in A, y.ago[coarse] = x.ago[coarse] PROVE y.ago[fine] <= x.ago[fine]
    <3>1. y.entry \in R /\ y.entry \in S /\ y.ago = Deltas(y.entry, at) /\ y.entry \in Entry /\ x.entry \in Entry
      BY <1>0, <2>2, AgedIs
    <3>2. Deltas(y.entry, at)[coarse] = Deltas(x.entry, at)[coarse]
      BY <2>1, <2>5, <3>1
    <3>3. PeriodOf(y.entry)[coarse] = PeriodOf(x.entry)[coarse]
      BY <3>1, <3>2, BucketsArePeriods
    <3>4. x.entry.time <= y.entry.time
      BY <2>2, <3>1, <3>3, OlderIsAnOrder
    <3>5. PeriodOf(x.entry)[fine] <= PeriodOf(y.entry)[fine]
      BY <3>1, <3>4, PeriodsGrow
    <3>6. Deltas(y.entry, at)[fine] <= Deltas(x.entry, at)[fine]
      BY <3>1, <3>5, BucketsArePeriods
    <3> QED
      BY <2>1, <3>1, <3>6
  <2> QED
    BY <2>4, <2>5 DEF RollUp
<1> QED
  BY <1>1, <1>2 DEF R

(* What the schedule comes to: the floor, and the oldest of every period   *)
(* its tier covers.                                                        *)
OnFloor(e, S, p, at) ==
  MinCovers(p.min, Ago(e, at)) \/ (p.min.kind = "latest" /\ \A f \in S : ~Older(e, f))

InTier(e, S, p, at, u) == e \in OldestOfPeriod(S, u) /\ Covers(p.tier[u], Ago(e, at)[u])

Wanted(e, S, p, at) == OnFloor(e, S, p, at) \/ \E u \in Units : InTier(e, S, p, at, u)

LEMMA PreservedIs ==
  ASSUME HourOfDay = 0, NEW S, S \subseteq Entry, NEW p, NEW at \in Nat
  PROVE  Preserved(S, p, at) = {e \in S : Wanted(e, S, p, at)}
<1> DEFINE A == Aged(S, at)
           O(u) == Aged(OldestOfPeriod(S, u), at)
           kept(R, u) == {x \in R : Covers(p.tier[u], x.ago[u])}
           H == FirstOfHours(A)
           D == RollUp(H, "hours", "days")
           W == RollUp(D, "days", "weeks")
           M == RollUp(W, "weeks", "months")
           Y == RollUp(M, "months", "years")
           All6 == Floor(A, p) \cup kept(H, "hours") \cup kept(D, "days")
                     \cup kept(W, "weeks") \cup kept(M, "months") \cup kept(Y, "years")
           rec(e) == [entry |-> e, ago |-> Deltas(e, at)]
<1>1. Preserved(S, p, at) = {x.entry : x \in All6}
  BY DEF Preserved
<1>2. Units = {"hours", "days", "weeks", "months", "years"}
  BY DEF Units
<1>3. H = O("hours")
  BY HoursFirst
<1>4. D = O("days")
  <2>1. RollUp(O("hours"), "hours", "days") = O("days")
    BY <1>2, PeriodsNest, RollUpIs
  <2> QED
    BY <1>3, <2>1
<1>5. W = O("weeks")
  <2>1. RollUp(O("days"), "days", "weeks") = O("weeks")
    BY <1>2, PeriodsNest, RollUpIs
  <2> QED
    BY <1>4, <2>1
<1>6. M = O("months")
  <2>1. RollUp(O("weeks"), "weeks", "months") = O("months")
    BY <1>2, PeriodsNest, RollUpIs
  <2> QED
    BY <1>5, <2>1
<1>7. Y = O("years")
  <2>1. RollUp(O("months"), "months", "years") = O("years")
    BY <1>2, PeriodsNest, RollUpIs
  <2> QED
    BY <1>6, <2>1
<1> HIDE DEF H, D, W, M, Y
<1>8. ASSUME NEW e \in S PROVE rec(e) \in Floor(A, p) <=> OnFloor(e, S, p, at)
  <2>1. rec(e) \in A /\ rec(e).entry = e /\ rec(e).ago = Ago(e, at)
    BY AgedIs, DeltasSplit
  <2>2. (\A y \in A : ~Older(e, y.entry)) <=> (\A f \in S : ~Older(e, f))
    <3>1. ASSUME \A y \in A : ~Older(e, y.entry), NEW f \in S PROVE ~Older(e, f)
      <4>1. rec(f) \in A /\ rec(f).entry = f
        BY AgedIs
      <4> QED
        BY <3>1, <4>1
    <3>2. ASSUME \A f \in S : ~Older(e, f), NEW y \in A PROVE ~Older(e, y.entry)
      BY <3>2, AgedIs
    <3> QED
      BY <3>1, <3>2
  <2> HIDE DEF A, rec
  <2> QED
    BY <2>1, <2>2 DEF Floor, OnFloor
<1>9. ASSUME NEW e \in S, NEW u \in Units PROVE rec(e) \in kept(O(u), u) <=> InTier(e, S, p, at, u)
  <2>1. rec(e).entry = e /\ rec(e).ago = Ago(e, at)
    BY DeltasSplit
  <2>2. rec(e) \in O(u) <=> e \in OldestOfPeriod(S, u)
    <3>1. rec(e) \in O(u) => rec(e).entry \in OldestOfPeriod(S, u)
      BY AgedIs
    <3>2. e \in OldestOfPeriod(S, u) => rec(e) \in O(u)
      BY AgedIs
    <3> QED
      BY <2>1, <3>1, <3>2
  <2> HIDE DEF O, rec
  <2> QED
    BY <2>1, <2>2 DEF InTier
<1>10. ASSUME NEW x \in All6 PROVE x.entry \in S /\ x = rec(x.entry)
  <2>1. x \in A \/ \E u \in Units : x \in O(u)
    BY <1>2, <1>3, <1>4, <1>5, <1>6, <1>7 DEF Floor
  <2>2. ASSUME x \in A PROVE x.entry \in S /\ x = rec(x.entry)
    BY <2>2, AgedIs
  <2>3. ASSUME NEW u \in Units, x \in O(u) PROVE x.entry \in S /\ x = rec(x.entry)
    <3>1. x.entry \in OldestOfPeriod(S, u) /\ x = rec(x.entry)
      BY <2>3, AgedIs
    <3> QED
      BY <3>1 DEF OldestOfPeriod
  <2> HIDE DEF A, O, rec, All6
  <2> QED
    BY <2>1, <2>2, <2>3
<1>11. ASSUME NEW e \in S PROVE rec(e) \in All6 <=> Wanted(e, S, p, at)
  <2>1. /\ rec(e) \in kept(O("hours"), "hours") <=> InTier(e, S, p, at, "hours")
        /\ rec(e) \in kept(O("days"), "days") <=> InTier(e, S, p, at, "days")
        /\ rec(e) \in kept(O("weeks"), "weeks") <=> InTier(e, S, p, at, "weeks")
        /\ rec(e) \in kept(O("months"), "months") <=> InTier(e, S, p, at, "months")
        /\ rec(e) \in kept(O("years"), "years") <=> InTier(e, S, p, at, "years")
    BY <1>2, <1>9
  <2> HIDE DEF O, rec, kept, A
  <2> QED
    BY <1>2, <1>3, <1>4, <1>5, <1>6, <1>7, <1>8, <2>1 DEF Wanted
<1> HIDE DEF All6, rec
<1>12. ASSUME NEW e PROVE e \in Preserved(S, p, at) <=> e \in S /\ Wanted(e, S, p, at)
  <2>1. ASSUME e \in Preserved(S, p, at) PROVE e \in S /\ Wanted(e, S, p, at)
    <3>1. PICK x \in All6 : e = x.entry
      BY <1>1, <2>1
    <3> QED
      BY <1>10, <1>11, <3>1
  <2>2. ASSUME e \in S, Wanted(e, S, p, at) PROVE e \in Preserved(S, p, at)
    <3>1. rec(e) \in All6
      BY <1>11, <2>2
    <3>2. rec(e).entry = e
      BY DEF rec
    <3> QED
      BY <1>1, <3>1, <3>2
  <2> QED
    BY <2>1, <2>2
<1> QED
  BY <1>12

(* The reference speaks of calendar periods: they are the numbered ones.   *)
LEMMA PeriodsAreNumbered ==
  ASSUME HourOfDay = 0, NEW e \in Entry, NEW f \in Entry, NEW u \in Units
  PROVE  Period(f)[u] = Period(e)[u] <=> PeriodOf(f)[u] = PeriodOf(e)[u]
<1>1. DayStart(e) = Day(e.time) /\ DayStart(f) = Day(f.time)
      /\ WeekStart(e) = FirstOfWeek(e.time) /\ WeekStart(f) = FirstOfWeek(f.time)
  BY StartsOf
<1>2. FirstOfWeek(e.time) = FirstOfWeek(f.time) <=> WeekNumber(Day(e.time)) = WeekNumber(Day(f.time))
  <2> DEFINE v == WeekNumber(Day(e.time))
             w == WeekNumber(Day(f.time))
             W == DAYS_PER_WEEK
  <2>1. v \in Int /\ w \in Int /\ FirstOfWeek(e.time) = DayOfWeek + W * v /\ FirstOfWeek(f.time) = DayOfWeek + W * w
        /\ W * v \in Int /\ W * w \in Int
    BY StartsOf, WeekIs
  <2>2. W \in Nat \ {0} /\ DayOfWeek \in Int
    BY CalendarTyped
  <2> HIDE DEF v, w, W
  <2>3. ASSUME v < w PROVE FirstOfWeek(e.time) < FirstOfWeek(f.time)
    <3>1. W * v + W <= W * w
      BY <2>1, <2>2, <2>3, Scale
    <3> QED
      BY <2>1, <2>2, <3>1
  <2>4. ASSUME w < v PROVE FirstOfWeek(f.time) < FirstOfWeek(e.time)
    <3>1. W * w + W <= W * v
      BY <2>1, <2>2, <2>4, Scale
    <3> QED
      BY <2>1, <2>2, <3>1
  <2>5. v = w => FirstOfWeek(e.time) = FirstOfWeek(f.time)
    BY <2>1
  <2>6. FirstOfWeek(e.time) = FirstOfWeek(f.time) => v = w
    BY <2>1, <2>2, <2>3, <2>4
  <2> QED
    BY <2>5, <2>6 DEF v, w
<1> QED
  BY <1>1, <1>2 DEF Period, PeriodOf, Units

LEMMA ReferenceIs ==
  ASSUME HourOfDay = 0, NEW S, S \subseteq Entry, NEW p, NEW at \in Nat
  PROVE  Reference(S, p, at) = {e \in S : Wanted(e, S, p, at)}
<1> DEFINE rec(e) == [entry |-> e, period |-> Period(e), ago |-> Deltas(e, at)]
           A == {rec(e) : e \in S}
           StandsFor(x, u) == \A y \in A : y.period[u] = x.period[u] => ~Older(y.entry, x.entry)
           chosen(y) == \/ MinCovers(p.min, y.ago)
                        \/ p.min.kind = "latest" /\ \A z \in A : ~Older(y.entry, z.entry)
                        \/ \E u \in Units : StandsFor(y, u) /\ Covers(p.tier[u], y.ago[u])
<1>1. Reference(S, p, at) = {x.entry : x \in {y \in A : chosen(y)}}
  BY DEF Reference
<1>2. ASSUME NEW e \in S PROVE rec(e).entry = e /\ rec(e).period = Period(e) /\ rec(e).ago = Ago(e, at) /\ rec(e) \in A
  BY DeltasSplit
<1>3. ASSUME NEW x \in A PROVE x.entry \in S /\ x = rec(x.entry)
  OBVIOUS
<1> HIDE DEF rec, A
<1>4. ASSUME NEW e \in S, NEW u \in Units PROVE StandsFor(rec(e), u) <=> e \in OldestOfPeriod(S, u)
  <2>1. ASSUME StandsFor(rec(e), u), NEW f \in S, PeriodOf(f)[u] = PeriodOf(e)[u] PROVE ~Older(f, e)
    <3>1. Period(f)[u] = Period(e)[u]
      BY <2>1, PeriodsAreNumbered
    <3> QED
      BY <1>2, <2>1, <3>1
  <2>2. ASSUME e \in OldestOfPeriod(S, u), NEW y \in A, y.period[u] = rec(e).period[u] PROVE ~Older(y.entry, rec(e).entry)
    <3>1. y.entry \in S /\ y.period = Period(y.entry) /\ rec(e).entry = e /\ rec(e).period = Period(e)
      BY <1>2, <1>3
    <3>2. PeriodOf(y.entry)[u] = PeriodOf(e)[u]
      BY <2>2, <3>1, PeriodsAreNumbered
    <3> QED
      BY <2>2, <3>1, <3>2 DEF OldestOfPeriod
  <2> QED
    BY <2>1, <2>2 DEF OldestOfPeriod
<1> HIDE DEF StandsFor
<1>5. ASSUME NEW e \in S PROVE chosen(rec(e)) <=> Wanted(e, S, p, at)
  <2>1. (\A z \in A : ~Older(rec(e).entry, z.entry)) <=> \A f \in S : ~Older(e, f)
    <3>1. ASSUME \A z \in A : ~Older(rec(e).entry, z.entry), NEW f \in S PROVE ~Older(e, f)
      BY <1>2, <3>1
    <3>2. ASSUME \A f \in S : ~Older(e, f), NEW z \in A PROVE ~Older(rec(e).entry, z.entry)
      BY <1>2, <1>3, <3>2
    <3> QED
      BY <3>1, <3>2
  <2>2. \A u \in Units : StandsFor(rec(e), u) /\ Covers(p.tier[u], rec(e).ago[u]) <=> InTier(e, S, p, at, u)
    BY <1>2, <1>4 DEF InTier
  <2>3. MinCovers(p.min, rec(e).ago) <=> MinCovers(p.min, Ago(e, at))
    BY <1>2
  <2> QED
    BY <2>1, <2>2, <2>3 DEF Wanted, OnFloor
<1> HIDE DEF chosen
<1>6. ASSUME NEW e PROVE e \in Reference(S, p, at) <=> e \in S /\ Wanted(e, S, p, at)
  <2>1. ASSUME e \in Reference(S, p, at) PROVE e \in S /\ Wanted(e, S, p, at)
    <3>1. PICK x \in A : chosen(x) /\ e = x.entry
      BY <1>1, <2>1
    <3> QED
      BY <1>3, <1>5, <3>1
  <2>2. ASSUME e \in S, Wanted(e, S, p, at) PROVE e \in Reference(S, p, at)
    BY <1>1, <1>2, <1>5, <2>2
  <2> QED
    BY <2>1, <2>2
<1> QED
  BY <1>6

-----------------------------------------------------------------------------
(* What is wanted stays wanted when others go, and what is not is not      *)
(* wanted later.                                                           *)

LEMMA PolicyTyped ==
  ASSUME NEW p \in Policies
  PROVE  /\ p.min \in Min
         /\ p.min.kind = "within" => p.min.unit \in Units /\ p.min.count \in Nat
         /\ p.tier \in [Units -> Nat \cup {All, NoTier}]
<1>1. PICK m \in Mins, tokens \in Schedules : p = Parse(m, tokens) /\ p # Malformed
  BY DEF Policies
<1> DEFINE tier == [u \in Units |->
                      IF \E i \in DOMAIN tokens : tokens[i].unit = u
                      THEN tokens[CHOOSE i \in DOMAIN tokens : tokens[i].unit = u].count
                      ELSE NoTier]
<1>2. p = [min |-> m, tier |-> tier]
  BY <1>1 DEF Parse
<1>3. m \in Min /\ tokens \in Seq(Token)
  BY RetentionAssumption
<1>4. m.kind = "within" => m.unit \in Units /\ m.count \in Nat
  BY <1>3 DEF Min
<1>5. ASSUME NEW u \in Units PROVE tier[u] \in Nat \cup {All, NoTier}
  <2>1. CASE \E i \in DOMAIN tokens : tokens[i].unit = u
    <3> DEFINE i == CHOOSE j \in DOMAIN tokens : tokens[j].unit = u
    <3>1. i \in DOMAIN tokens
      BY <2>1
    <3>2. tokens[i] \in Token /\ tier[u] = tokens[i].count
      BY <1>3, <2>1, <3>1
    <3> HIDE DEF tier, i
    <3> QED
      BY <3>2 DEF Token
  <2>2. CASE ~ \E i \in DOMAIN tokens : tokens[i].unit = u
    BY <2>2
  <2> QED
    BY <2>1, <2>2
<1>6. tier \in [Units -> Nat \cup {All, NoTier}]
  BY <1>5
<1> HIDE DEF tier
<1>7. p.min = m /\ p.tier = tier
  BY <1>2
<1> QED
  BY <1>3, <1>4, <1>6, <1>7

LEMMA OthersGone ==
  ASSUME NEW T, NEW S, S \subseteq T, NEW e \in S, NEW p, NEW at, Wanted(e, T, p, at)
  PROVE  Wanted(e, S, p, at)
<1>1. ASSUME NEW u \in Units, InTier(e, T, p, at, u) PROVE InTier(e, S, p, at, u)
  BY <1>1 DEF InTier, OldestOfPeriod
<1>2. OnFloor(e, T, p, at) => OnFloor(e, S, p, at)
  BY DEF OnFloor
<1> QED
  BY <1>1, <1>2 DEF Wanted

LEMMA TimePasses ==
  ASSUME HourOfDay = 0, NEW S, S \subseteq Entry, NEW e \in S, NEW p \in Policies, NEW t \in Nat, NEW at \in Nat,
         t <= at, Wanted(e, S, p, at)
  PROVE  Wanted(e, S, p, t)
<1>1. ASSUME NEW u \in Units
      PROVE  Ago(e, t)[u] \in Int /\ Ago(e, at)[u] \in Int /\ Ago(e, t)[u] <= Ago(e, at)[u]
  <2> DEFINE j == PeriodAt(t)[u]
             k == PeriodAt(at)[u]
             q == PeriodOf(e)[u]
  <2>1. Ago(e, t)[u] = j - q /\ Ago(e, at)[u] = k - q /\ j \in Int /\ k \in Int /\ q \in Int
    BY DeltaIs
  <2>2. j <= k
    BY MomentsGrow
  <2> HIDE DEF j, k, q
  <2> QED
    BY <2>1, <2>2
<1>2. p.min.kind = "within" => p.min.unit \in Units /\ p.min.count \in Nat
  BY PolicyTyped
<1>3. OnFloor(e, S, p, at) => OnFloor(e, S, p, t)
  <2>1. MinCovers(p.min, Ago(e, at)) => MinCovers(p.min, Ago(e, t))
    <3>1. CASE p.min.kind = "within"
      <4> DEFINE x == Ago(e, t)[p.min.unit]
                 y == Ago(e, at)[p.min.unit]
                 n == p.min.count
      <4>1. x \in Int /\ y \in Int /\ x <= y /\ n \in Nat
        BY <1>1, <1>2, <3>1
      <4> HIDE DEF x, y, n
      <4>2. y <= n => x <= n
        BY <4>1
      <4> QED
        BY <3>1, <4>2 DEF MinCovers, x, y, n
    <3>2. CASE p.min.kind # "within"
      BY <3>2 DEF MinCovers
    <3> QED
      BY <3>1, <3>2
  <2> QED
    BY <2>1 DEF OnFloor
<1>4. ASSUME NEW u \in Units, InTier(e, S, p, at, u) PROVE InTier(e, S, p, t, u)
  <2> DEFINE x == Ago(e, t)[u]
             y == Ago(e, at)[u]
             n == p.tier[u]
  <2>1. x \in Int /\ y \in Int /\ x <= y /\ n \in Int
    BY <1>1, PolicyTyped DEF All, NoTier
  <2>2. e \in OldestOfPeriod(S, u) /\ Covers(n, y)
    BY <1>4 DEF InTier
  <2> HIDE DEF x, y, n
  <2>3. Covers(n, x)
    BY <2>1, <2>2 DEF Covers
  <2> QED
    BY <2>2, <2>3 DEF InTier, x, n
<1> QED
  BY <1>3, <1>4 DEF Wanted

-----------------------------------------------------------------------------
(* The inductive invariant.                                                *)

Keep(S, p, at) == {e \in S : Wanted(e, S, p, at)}

(* Names are of times gone by, and counted one by one.                     *)
Dated ==
  /\ IsFiniteSet(taken)
  /\ \A e \in taken : e.time <= now /\ e.nn < Cardinality(taken)

(* Of all that was ever taken, what would be kept today is there and not   *)
(* about to go.                                                            *)
WantedSpared == Keep(taken, policy, now) \subseteq have \ todo

(* What a prune has not on its list is wanted or an anchor, however far it *)
(* has come.                                                               *)
RestIsWanted == pruning => have \ (todo \cup spared) \subseteq Keep(have, policy, now)

LEMMA GreatestOfNat ==
  ASSUME NEW S, S \subseteq Nat, S # {}, NEW b \in Nat, \A k \in S : k <= b
  PROVE  \E m \in S : \A k \in S : k <= m
<1> DEFINE D == {b - k : k \in S}
<1>1. \A k \in S : b - k \in Nat
  OBVIOUS
<1>2. D \subseteq Nat /\ D # {}
  BY <1>1
<1>3. PICK d \in D : \A x \in D : d <= x
  BY <1>2, LeastOfNat
<1>4. PICK m \in S : d = b - m
  BY <1>3
<1>5. ASSUME NEW k \in S PROVE k <= m
  <2>1. b - m <= b - k
    BY <1>3, <1>4
  <2> QED
    BY <2>1
<1> QED
  BY <1>5

LEMMA NewestExists ==
  ASSUME NEW T, T \subseteq Entry, T # {}, NEW b \in Nat, NEW c \in Nat, \A e \in T : e.time <= b /\ e.nn <= c
  PROVE  \E e \in T : \A f \in T : ~Older(e, f)
<1> DEFINE times == {e.time : e \in T}
<1>1. times \subseteq Nat /\ times # {} /\ \A t \in times : t <= b
  BY DEF Entry
<1>2. PICK t \in times : \A s \in times : s <= t
  BY <1>1, GreatestOfNat
<1> DEFINE U == {e \in T : e.time = t}
           nns == {e.nn : e \in U}
<1>3. nns \subseteq Nat /\ nns # {} /\ \A n \in nns : n <= c
  BY <1>2 DEF Entry
<1>4. PICK n \in nns : \A m \in nns : m <= n
  BY <1>3, GreatestOfNat
<1>5. PICK e \in T : e.time = t /\ e.nn = n
  BY <1>4
<1>6. ASSUME NEW f \in T PROVE ~Older(e, f)
  <2>1. f.time <= t /\ t \in Nat /\ n \in Nat /\ f.time \in Nat /\ f.nn \in Nat
    BY <1>1, <1>2, <1>3, <1>4 DEF Entry
  <2>2. f.time = t => f.nn <= n
    BY <1>4
  <2> QED
    BY <1>5, <2>1, <2>2 DEF Older
<1> QED
  BY <1>6

LEMMA NewestIsThere ==
  ASSUME TypeOK, Dated, have # {}
  PROVE  NewestOf(have) \in have
<1>1. have \subseteq Entry /\ now \in Nat /\ Cardinality(taken) \in Nat
  BY FS_CardinalityType, RetentionAssumption DEF TypeOK, Dated
<1>2. ASSUME NEW e \in have PROVE e.time <= now /\ e.nn <= Cardinality(taken)
  <2>1. e.time <= now /\ e.nn < Cardinality(taken) /\ e.nn \in Nat
    BY <1>1 DEF TypeOK, Dated, Entry
  <2> QED
    BY <1>1, <2>1
<1>3. \E e \in have : \A f \in have : ~Older(e, f)
  BY <1>1, <1>2, NewestExists
<1>4. \E e \in have : \A f \in have : f = e \/ ~Older(e, f)
  BY <1>3
<1> QED
  BY <1>4 DEF NewestOf

LEMMA OldestIsThere ==
  ASSUME NEW T, T \subseteq Entry, T # {}
  PROVE  OldestOf(T) \in T
<1>1. \E e \in T : \A f \in T : f = e \/ ~Older(f, e)
  BY OldestExists
<1> QED
  BY <1>1 DEF OldestOf

LEMMA NameIsDated ==
  ASSUME TypeOK, Dated
  PROVE  /\ NameNow \in Entry /\ NameNow.time <= now
         /\ NameNow.nn = 0 \/ NameNow.nn <= Cardinality(taken)
<1> DEFINE used == {e.nn : e \in {f \in have : f.time = TimeInName}}
<1>1. now \in Nat /\ have \subseteq Entry /\ have \subseteq taken /\ Cardinality(taken) \in Nat
  BY FS_CardinalityType, RetentionAssumption DEF TypeOK, Dated
<1>2. TimeInName \in Nat /\ TimeInName <= now
  <2>1. CASE exact
    BY <1>1, <2>1 DEF TimeInName
  <2>2. CASE ~exact
    <3> DEFINE h == Hour(now)
               d == Day(now)
               m == MINUTES_PER_HOUR
               k == HOURS_PER_DAY
    <3>1. m \in Nat \ {0} /\ k \in Nat \ {0}
      BY CalendarTyped
    <3>2. h \in Int /\ m * h <= now /\ now < m * h + m
      BY <1>1, <3>1, Division DEF Hour
    <3>3. d \in Int /\ k * d <= h /\ h < k * d + k
      BY <3>1, <3>2, Division DEF Day
    <3>4. TimeInName = d * k * m
      BY <2>2 DEF TimeInName
    <3> HIDE DEF h, d, m, k
    <3>5. 0 <= h
      <4>1. h < 0 => m * h + m <= m * 0
        BY <3>1, <3>2, Scale
      <4>2. m * 0 = 0
        BY <3>1, Z3
      <4> QED
        BY <1>1, <3>1, <3>2, <4>1, <4>2
    <3>6. 0 <= d
      <4>1. d < 0 => k * d + k <= k * 0
        BY <3>1, <3>3, Scale
      <4>2. k * 0 = 0
        BY <3>1, Z3
      <4> QED
        BY <3>1, <3>2, <3>3, <3>5, <4>1, <4>2
    <3>7. d * k \in Nat /\ d * k <= h
      <4>1. d * k = k * d /\ 0 <= k * d /\ k * d \in Int
        BY <3>1, <3>3, <3>6, Z3
      <4> QED
        BY <3>3, <4>1
    <3> DEFINE x == d * k
    <3> HIDE DEF x
    <3>8. x \in Nat /\ x <= h
      BY <3>7 DEF x
    <3>9. x * m \in Nat /\ x * m <= m * h
      BY <3>1, <3>2, <3>8, Z3
    <3>10. m * h \in Int
      BY <3>1, <3>2, Z3
    <3> QED
      BY <1>1, <3>2, <3>4, <3>9, <3>10 DEF x
  <2> QED
    BY <2>1, <2>2
<1>3. ASSUME NEW n \in used PROVE n \in Nat /\ n < Cardinality(taken)
  <2>1. PICK f \in have : n = f.nn
    OBVIOUS
  <2> QED
    BY <1>1, <2>1 DEF Dated, Entry
<1>4. NameNow = [time |-> TimeInName, nn |-> IF used = {} THEN 0 ELSE 1 + CHOOSE n \in used : \A k \in used : k <= n]
  BY DEF NameNow
<1> HIDE DEF used
<1>5. CASE used = {}
  <2>1. NameNow = [time |-> TimeInName, nn |-> 0]
    BY <1>4, <1>5
  <2> QED
    BY <1>2, <2>1 DEF Entry
<1>6. CASE used # {}
  <2> DEFINE g == CHOOSE n \in used : \A k \in used : k <= n
  <2>1. \E n \in used : \A k \in used : k <= n
    <3>1. used \subseteq Nat /\ \A n \in used : n <= Cardinality(taken)
      BY <1>1, <1>3
    <3> QED
      BY <1>1, <1>6, <3>1, GreatestOfNat
  <2>2. g \in used
    BY <2>1
  <2>3. NameNow = [time |-> TimeInName, nn |-> 1 + g]
    BY <1>4, <1>6
  <2> HIDE DEF g
  <2>4. g \in Nat /\ g < Cardinality(taken)
    BY <1>3, <2>2
  <2> QED
    BY <1>1, <1>2, <2>3, <2>4 DEF Entry
<1> QED
  BY <1>5, <1>6

LEMMA TypeInit == Init => TypeOK /\ Dated
<1> SUFFICES ASSUME Init PROVE TypeOK /\ Dated
  OBVIOUS
<1>1. TypeOK
  <2>1. now \in 0 .. MaxNow /\ fails \in 0 .. MaxFails
    BY RetentionAssumption DEF Init
  <2>2. taken \subseteq Entry /\ have \subseteq taken /\ todo \subseteq have \ spared /\ spared \subseteq taken
    BY DEF Init
  <2>3. pruning \in BOOLEAN /\ (todo # {} => pruning)
    BY DEF Init
  <2> QED
    BY <2>1, <2>2, <2>3 DEF Init, TypeOK
<1>2. Dated
  BY FS_EmptySet DEF Init, Dated
<1> QED
  BY <1>1, <1>2

LEMMA TypeNext == TypeOK /\ Dated /\ [Next]_vars => TypeOK' /\ Dated'
<1> SUFFICES ASSUME TypeOK, Dated, [Next]_vars PROVE TypeOK' /\ Dated'
  OBVIOUS
<1>0. MaxNow \in Nat /\ MaxFails \in Nat /\ now \in 0 .. MaxNow /\ now \in Nat /\ taken \subseteq Entry /\ have \subseteq taken
  BY RetentionAssumption DEF TypeOK
<1>1. CASE Tick
  <2>1. TypeOK'
    BY <1>0, <1>1 DEF Tick, TypeOK, setup
  <2>2. ASSUME NEW e \in taken PROVE e.time <= now + 1
    BY <1>0 DEF Dated, Entry
  <2>3. Dated'
    BY <1>1, <2>2 DEF Tick, Dated
  <2> QED
    BY <2>1, <2>3
<1>2. CASE Take
  <2>1. NameNow \in Entry /\ NameNow.time <= now /\ (NameNow.nn = 0 \/ NameNow.nn <= Cardinality(taken))
    BY NameIsDated
  <2>2. taken' = taken \cup {NameNow} /\ have' = have \cup {NameNow}
        /\ UNCHANGED <<now, policy, exact, spared, todo, pruning, fails>> /\ ~pruning
    BY <1>2 DEF Take, setup
  <2>3. TypeOK'
    BY <1>0, <2>1, <2>2 DEF TypeOK
  <2> DEFINE n == NameNow
             C == Cardinality(taken)
  <2>4. IsFiniteSet(taken) /\ C \in Nat
    BY FS_CardinalityType DEF Dated
  <2>5. IsFiniteSet(taken') /\ Cardinality(taken') = IF n \in taken THEN C ELSE C + 1
    BY <2>2, <2>4, FS_AddElement
  <2>6. ASSUME NEW e \in taken' PROVE e.time <= now' /\ e.nn < Cardinality(taken')
    <3>1. CASE e \in taken
      <4>1. e.time <= now /\ e.nn < C /\ e.nn \in Nat
        BY <1>0, <3>1 DEF Dated, Entry
      <4> QED
        BY <2>2, <2>4, <2>5, <4>1
    <3>2. CASE e \notin taken
      <4>1. e = n
        BY <2>2, <3>2
      <4>2. Cardinality(taken') = C + 1
        BY <2>5, <3>2, <4>1
      <4>3. e.time <= now /\ e.nn \in Nat /\ (e.nn = 0 \/ e.nn <= C)
        BY <2>1, <4>1 DEF Entry
      <4> QED
        BY <2>2, <2>4, <4>2, <4>3
    <3> QED
      BY <3>1, <3>2
  <2>7. Dated'
    BY <2>5, <2>6 DEF Dated
  <2> QED
    BY <2>3, <2>7
<1>3. ASSUME NEW a \in Anchors, Prune(a) PROVE TypeOK' /\ Dated'
  <2>1. a \subseteq taken
    <3>1. CASE a = {}
      BY <3>1
    <3>2. CASE a # {}
      <4>1. have # {} /\ a = {NewestOf(have)}
        BY <3>2 DEF Anchors
      <4> QED
        BY <1>0, <4>1, NewestIsThere
    <3> QED
      BY <3>1, <3>2
  <2>2. TypeOK'
    BY <1>0, <1>3, <2>1 DEF Prune, TypeOK, setup
  <2>3. Dated'
    BY <1>3 DEF Prune, Dated
  <2> QED
    BY <2>2, <2>3
<1>4. CASE DeleteOldest
  <2>1. TypeOK'
    BY <1>0, <1>4 DEF DeleteOldest, TypeOK, setup
  <2>2. Dated'
    BY <1>4 DEF DeleteOldest, Dated
  <2> QED
    BY <2>1, <2>2
<1>5. CASE PruneEnds
  <2>1. TypeOK'
    BY <1>0, <1>5 DEF PruneEnds, TypeOK, setup
  <2>2. Dated'
    BY <1>5 DEF PruneEnds, Dated
  <2> QED
    BY <2>1, <2>2
<1>6. CASE PruneCut
  <2>1. TypeOK'
    <3>1. fails' \in 0 .. MaxFails
      BY <1>0, <1>6 DEF PruneCut, TypeOK
    <3>2. todo' = {} /\ spared' = {} /\ pruning' = FALSE /\ UNCHANGED <<now, policy, exact, taken, have>>
      BY <1>6 DEF PruneCut, setup
    <3> QED
      BY <3>1, <3>2 DEF TypeOK
  <2>2. Dated'
    BY <1>6 DEF PruneCut, Dated
  <2> QED
    BY <2>1, <2>2
<1>7. CASE UNCHANGED vars
  BY <1>7 DEF vars, setup, TypeOK, Dated
<1> QED
  BY <1>1, <1>2, <1>3, <1>4, <1>5, <1>6, <1>7 DEF Next

(* The variables keep their types: among them, that a doomed snapshot is   *)
(* there and no anchor, and that the anchors are snapshots.                *)
THEOREM RetentionTypeCorrect == Spec => []TypeOK
<1>1. Init => TypeOK /\ Dated
  BY TypeInit
<1>2. (TypeOK /\ Dated) /\ [Next]_vars => (TypeOK /\ Dated)'
  BY TypeNext
<1> QED
  BY <1>1, <1>2, PTL DEF Spec

LEMMA DatedAlways == Spec => [](TypeOK /\ Dated)
<1>1. Init => TypeOK /\ Dated
  BY TypeInit
<1>2. (TypeOK /\ Dated) /\ [Next]_vars => (TypeOK /\ Dated)'
  BY TypeNext
<1> QED
  BY <1>1, <1>2, PTL DEF Spec

(* The cascade through bucket maps keyed by "so long ago" keeps exactly    *)
(* the oldest of every calendar period its tier covers, and the floor: for *)
(* every calendar, policy and set of snapshots, when days begin at         *)
(* midnight, as they do in every policy the program makes.                 *)
THEOREM CascadeIsReference == HourOfDay = 0 => (Spec => []ScheduleIsReference)
<1> SUFFICES ASSUME HourOfDay = 0 PROVE Spec => []ScheduleIsReference
  OBVIOUS
<1>1. TypeOK => ScheduleIsReference
  <2> SUFFICES ASSUME TypeOK PROVE ScheduleIsReference
    OBVIOUS
  <2>1. have \subseteq Entry /\ now \in Nat
    BY RetentionAssumption DEF TypeOK
  <2> QED
    BY <2>1, PreservedIs, ReferenceIs DEF ScheduleIsReference
<1> QED
  BY <1>1, RetentionTypeCorrect, PTL

-----------------------------------------------------------------------------
(* The prunes.                                                             *)

LEMMA WantedInit == Init => WantedSpared /\ RestIsWanted
  BY DEF Init, WantedSpared, RestIsWanted, Keep

LEMMA WantedNext ==
  ASSUME HourOfDay = 0, TypeOK, Dated, WantedSpared, RestIsWanted, [Next]_vars
  PROVE  WantedSpared' /\ RestIsWanted'
<1>0. now \in Nat /\ taken \subseteq Entry /\ have \subseteq taken /\ have \subseteq Entry /\ policy \in Policies
      /\ todo \subseteq have
  BY RetentionAssumption DEF TypeOK
<1>00. Preserved(have, policy, now) = Keep(have, policy, now)
  BY <1>0, PreservedIs DEF Keep
<1>1. CASE Tick
  <2>1. Keep(taken, policy, now + 1) \subseteq Keep(taken, policy, now)
    <3>1. now + 1 \in Nat /\ now <= now + 1
      BY <1>0
    <3> QED
      BY <1>0, <3>1, TimePasses DEF Keep
  <2>2. now' = now + 1 /\ UNCHANGED <<policy, taken, have, todo, pruning>> /\ ~pruning
    BY <1>1 DEF Tick, setup
  <2> QED
    BY <2>1, <2>2 DEF WantedSpared, RestIsWanted
<1>2. CASE Take
  <2> DEFINE n == NameNow
  <2>1. taken' = taken \cup {n} /\ have' = have \cup {n} /\ UNCHANGED <<now, policy, todo, pruning>> /\ ~pruning
    BY <1>2 DEF Take, setup
  <2> HIDE DEF n
  <2>2. todo = {}
    BY <2>1 DEF TypeOK
  <2>3. ASSUME NEW e \in Keep(taken \cup {n}, policy, now) PROVE e \in have \cup {n}
    <3>1. CASE e = n
      BY <3>1
    <3>2. CASE e # n
      <4>1. e \in taken /\ Wanted(e, taken \cup {n}, policy, now)
        BY <2>3, <3>2 DEF Keep
      <4>2. Wanted(e, taken, policy, now)
        BY <4>1, OthersGone
      <4> QED
        BY <4>1, <4>2 DEF Keep, WantedSpared
    <3> QED
      BY <3>1, <3>2
  <2> QED
    BY <2>1, <2>2, <2>3 DEF WantedSpared, RestIsWanted
<1>3. ASSUME NEW a \in Anchors, Prune(a) PROVE WantedSpared' /\ RestIsWanted'
  <2>1. todo' = (have \ Keep(have, policy, now)) \ a /\ spared' = a /\ UNCHANGED <<now, policy, taken, have>>
    BY <1>00, <1>3 DEF Prune, setup
  <2>2. ASSUME NEW e \in Keep(taken, policy, now) PROVE e \in have /\ e \in Keep(have, policy, now)
    <3>1. e \in have /\ Wanted(e, taken, policy, now)
      BY DEF Keep, WantedSpared
    <3>2. Wanted(e, have, policy, now)
      BY <1>0, <3>1, OthersGone
    <3> QED
      BY <3>1, <3>2 DEF Keep
  <2> QED
    BY <2>1, <2>2 DEF WantedSpared, RestIsWanted
<1>4. CASE DeleteOldest
  <2> DEFINE o == OldestOf(todo)
  <2>1. o \in todo
    BY <1>0, <1>4, OldestIsThere DEF DeleteOldest
  <2>2. pruning /\ have' = have \ {o} /\ todo' = todo \ {o} /\ UNCHANGED <<now, policy, taken, spared, pruning>>
    BY <1>4 DEF DeleteOldest, setup
  <2> HIDE DEF o
  <2>3. WantedSpared'
    BY <2>1, <2>2 DEF WantedSpared
  <2>4. ASSUME NEW e \in have \ {o}, e \notin todo \cup spared PROVE e \in Keep(have \ {o}, policy, now)
    <3>1. e \in have /\ Wanted(e, have, policy, now)
      BY <2>2, <2>4 DEF RestIsWanted, Keep
    <3>2. Wanted(e, have \ {o}, policy, now)
      BY <2>4, <3>1, OthersGone
    <3> QED
      BY <2>4, <3>2 DEF Keep
  <2>5. RestIsWanted'
    BY <2>1, <2>2, <2>4 DEF RestIsWanted
  <2> QED
    BY <2>3, <2>5
<1>5. CASE PruneEnds
  BY <1>5 DEF PruneEnds, setup, WantedSpared, RestIsWanted
<1>6. CASE PruneCut
  BY <1>6 DEF PruneCut, setup, WantedSpared, RestIsWanted
<1>7. CASE UNCHANGED vars
  BY <1>7 DEF vars, setup, WantedSpared, RestIsWanted
<1> QED
  BY <1>1, <1>2, <1>3, <1>4, <1>5, <1>6, <1>7 DEF Next

LEMMA RetentionInvariant ==
  HourOfDay = 0 => (Spec => [](TypeOK /\ Dated /\ WantedSpared /\ RestIsWanted))
<1> SUFFICES ASSUME HourOfDay = 0 PROVE Spec => [](TypeOK /\ Dated /\ WantedSpared /\ RestIsWanted)
  OBVIOUS
<1> DEFINE IInv == TypeOK /\ Dated /\ WantedSpared /\ RestIsWanted
<1>1. Init => IInv
  BY TypeInit, WantedInit
<1>2. IInv /\ [Next]_vars => IInv'
  BY TypeNext, WantedNext
<1> QED
  BY <1>1, <1>2, PTL DEF Spec

(* However often it is pruned, and wherever prunes are cut: what a prune   *)
(* of all that was ever taken would keep today is still there.             *)
THEOREM PruningOftenLosesNothing == HourOfDay = 0 => (Spec => []NothingKeepableIsLost)
<1> SUFFICES ASSUME HourOfDay = 0 PROVE Spec => []NothingKeepableIsLost
  OBVIOUS
<1>1. TypeOK /\ WantedSpared => NothingKeepableIsLost
  <2> SUFFICES ASSUME TypeOK, WantedSpared PROVE NothingKeepableIsLost
    OBVIOUS
  <2>1. taken \subseteq Entry /\ now \in Nat
    BY RetentionAssumption DEF TypeOK
  <2> QED
    BY <2>1, PreservedIs DEF NothingKeepableIsLost, WantedSpared, Keep
<1> QED
  BY <1>1, RetentionInvariant, PTL

-----------------------------------------------------------------------------
(* What remains is bounded: a tier keeps one of each period, and there are *)
(* as many periods as it counts, and the one that is not over.             *)

LEMMA UnionAtMost ==
  ASSUME NEW S, NEW T, NEW a \in Nat, NEW b \in Nat,
         IsFiniteSet(S), Cardinality(S) <= a, IsFiniteSet(T), Cardinality(T) <= b
  PROVE  IsFiniteSet(S \cup T) /\ Cardinality(S \cup T) <= a + b
<1>1. /\ IsFiniteSet(S \cup T)
      /\ Cardinality(S \cup T) = Cardinality(S) + Cardinality(T) - Cardinality(S \cap T)
  BY FS_Union
<1>2. Cardinality(S) \in Nat /\ Cardinality(T) \in Nat
  BY FS_CardinalityType
<1>3. Cardinality(S \cap T) \in Nat
  BY FS_CardinalityType, FS_Subset
<1> QED
  BY <1>1, <1>2, <1>3

InTierOf(S, p, at, u) == {e \in S : InTier(e, S, p, at, u)}

LEMMA TierAtMost ==
  ASSUME HourOfDay = 0, NEW S, S \subseteq Entry, NEW at \in Nat, \A e \in S : e.time <= at,
         NEW p \in Policies, NEW u \in Units, p.tier[u] # All
  PROVE  /\ IsFiniteSet(InTierOf(S, p, at, u)) /\ TierSize(p, u) \in Nat
         /\ Cardinality(InTierOf(S, p, at, u)) <= TierSize(p, u)
<1> DEFINE n == p.tier[u]
           K == InTierOf(S, p, at, u)
<1>1. n \in Nat \cup {NoTier}
  BY PolicyTyped
<1>2. \A e \in K : e \in S /\ e \in OldestOfPeriod(S, u) /\ Covers(n, Ago(e, at)[u])
  BY DEF InTierOf, InTier
<1> HIDE DEF K
<1>3. CASE n \in {NoTier, 0}
  <2>1. K = {}
    BY <1>2, <1>3 DEF Covers, NoTier, All
  <2>2. TierSize(p, u) = 0
    BY <1>3 DEF TierSize
  <2> QED
    BY <2>1, <2>2, FS_EmptySet DEF K
<1>4. CASE n \notin {NoTier, 0}
  <2>1. n \in Nat /\ TierSize(p, u) = n + 1
    BY <1>1, <1>4 DEF TierSize
  <2> DEFINE f == [e \in K |-> Ago(e, at)[u]]
  <2>2. ASSUME NEW e \in K PROVE Ago(e, at)[u] \in 0 .. n
    <3> DEFINE k == PeriodAt(at)[u]
               q == PeriodOf(e)[u]
               x == Ago(e, at)[u]
    <3>1. x = k - q /\ k \in Int /\ q \in Int
      BY <1>2, DeltaIs
    <3>2. q <= k
      BY <1>2, NothingFromTheFuture
    <3>3. Covers(n, x)
      BY <1>2
    <3> HIDE DEF k, q, x, n
    <3>4. x <= n
      BY <2>1, <3>3 DEF Covers, All
    <3>5. x \in 0 .. n
      BY <2>1, <3>1, <3>2, <3>4
    <3> QED
      BY <3>5 DEF x
  <2>3. ASSUME NEW e \in K, NEW g \in K, Ago(e, at)[u] = Ago(g, at)[u] PROVE e = g
    <3>1. e \in Entry /\ g \in Entry /\ e \in S /\ g \in S
      BY <1>2
    <3>2. PeriodOf(e)[u] = PeriodOf(g)[u]
      BY <2>3, <3>1, BucketsArePeriods, DeltaIs
    <3>3. ~Older(e, g) /\ ~Older(g, e)
      BY <1>2, <3>1, <3>2 DEF OldestOfPeriod
    <3> QED
      BY <3>1, <3>3, OlderIsAnOrder
  <2>4. f \in Injection(K, 0 .. n)
    BY <2>2, <2>3 DEF Injection, IsInjective
  <2>5. IsFiniteSet(0 .. n) /\ Cardinality(0 .. n) = n + 1
    BY <2>1, FS_Interval
  <2>6. IsFiniteSet(K) /\ Cardinality(K) <= Cardinality(0 .. n)
    BY <2>4, <2>5, FS_Injection
  <2> QED
    BY <2>1, <2>5, <2>6 DEF K
<1> QED
  BY <1>3, <1>4

LEMMA WantedAtMost ==
  ASSUME HourOfDay = 0, NEW S, S \subseteq Entry, NEW at \in Nat, \A e \in S : e.time <= at,
         NEW p \in Policies, p.min.kind \notin {"all", "within"}, \A u \in Units : p.tier[u] # All
  PROVE  /\ IsFiniteSet(Keep(S, p, at))
         /\ Cardinality(Keep(S, p, at)) <= PolicySize(p) + (IF p.min.kind = "latest" THEN 1 ELSE 0)
<1> DEFINE K(u) == InTierOf(S, p, at, u)
           n(u) == TierSize(p, u)
           latest == IF p.min.kind = "latest" THEN 1 ELSE 0
           L == {e \in S : p.min.kind = "latest" /\ \A f \in S : ~Older(e, f)}
           hd == K("hours") \cup K("days")
           hdw == hd \cup K("weeks")
           hdwm == hdw \cup K("months")
           tiers == hdwm \cup K("years")
<1>1. Units = {"hours", "days", "weeks", "months", "years"}
  BY DEF Units
<1>2. ASSUME NEW u \in Units PROVE IsFiniteSet(K(u)) /\ n(u) \in Nat /\ Cardinality(K(u)) <= n(u)
  BY TierAtMost
<1>3. IsFiniteSet(L) /\ Cardinality(L) <= latest /\ latest \in Nat
  <2>1. CASE L = {}
    BY <2>1, FS_EmptySet
  <2>2. CASE L # {}
    <3>1. PICK x \in L : TRUE
      BY <2>2
    <3>2. L = {x}
      <4>1. ASSUME NEW y \in L PROVE y = x
        BY <3>1, OlderIsAnOrder
      <4> QED
        BY <3>1, <4>1
    <3>3. latest = 1
      BY <3>1
    <3>4. IsFiniteSet({x}) /\ Cardinality({x}) = 1
      BY FS_Singleton
    <3> HIDE DEF L, latest
    <3> QED
      BY <3>2, <3>3, <3>4
  <2> QED
    BY <2>1, <2>2
<1>4. Keep(S, p, at) \subseteq tiers \cup L
  <2> SUFFICES ASSUME NEW e \in Keep(S, p, at) PROVE e \in tiers \cup L
    OBVIOUS
  <2>1. e \in S /\ Wanted(e, S, p, at)
    BY DEF Keep
  <2>2. CASE OnFloor(e, S, p, at)
    <3>1. p.min.kind = "latest" /\ \A f \in S : ~Older(e, f)
      BY <2>2 DEF OnFloor, MinCovers
    <3> QED
      BY <2>1, <3>1
  <2>3. ASSUME NEW u \in Units, InTier(e, S, p, at, u) PROVE e \in tiers
    <3>1. e \in K(u)
      BY <2>1, <2>3 DEF InTierOf
    <3> HIDE DEF K
    <3> QED
      BY <1>1, <3>1
  <2> QED
    BY <2>1, <2>2, <2>3 DEF Wanted
<1>5. PolicySize(p) = n("hours") + n("days") + n("weeks") + n("months") + n("years")
  BY DEF PolicySize
<1> HIDE DEF K, n, L, latest
<1>6. n("hours") \in Nat /\ n("days") \in Nat /\ n("weeks") \in Nat /\ n("months") \in Nat /\ n("years") \in Nat
  BY <1>1, <1>2
<1> DEFINE n2 == n("hours") + n("days")
           n3 == n2 + n("weeks")
           n4 == n3 + n("months")
           n5 == n4 + n("years")
<1>7. n2 \in Nat /\ n3 \in Nat /\ n4 \in Nat /\ n5 \in Nat /\ n5 = PolicySize(p)
  BY <1>5, <1>6
<1>8. IsFiniteSet(hd) /\ Cardinality(hd) <= n2
  BY <1>1, <1>2, UnionAtMost
<1> HIDE DEF hd, n2
<1>9. IsFiniteSet(hdw) /\ Cardinality(hdw) <= n3
  BY <1>1, <1>2, <1>7, <1>8, UnionAtMost
<1> HIDE DEF hdw, n3
<1>10. IsFiniteSet(hdwm) /\ Cardinality(hdwm) <= n4
  BY <1>1, <1>2, <1>7, <1>9, UnionAtMost
<1> HIDE DEF hdwm, n4
<1>11. IsFiniteSet(tiers) /\ Cardinality(tiers) <= n5
  BY <1>1, <1>2, <1>7, <1>10, UnionAtMost
<1> HIDE DEF tiers, n5
<1>12. IsFiniteSet(tiers \cup L) /\ Cardinality(tiers \cup L) <= n5 + latest
  BY <1>3, <1>7, <1>11, UnionAtMost
<1>13. /\ IsFiniteSet(Keep(S, p, at)) /\ Cardinality(Keep(S, p, at)) <= Cardinality(tiers \cup L)
  BY <1>4, <1>12, FS_Subset
<1>14. Cardinality(Keep(S, p, at)) \in Nat /\ Cardinality(tiers \cup L) \in Nat
  BY <1>12, <1>13, FS_CardinalityType
<1>15. Cardinality(Keep(S, p, at)) <= n5 + latest
  BY <1>3, <1>7, <1>12, <1>13, <1>14
<1> QED
  BY <1>7, <1>13, <1>15 DEF latest

(* What remains after a prune that was not cut is bounded by the policy,   *)
(* anchors aside, unless it keeps everything of some kind.                 *)
THEOREM RemainsAreBounded == HourOfDay = 0 => (Spec => StaysBounded)
<1> SUFFICES ASSUME HourOfDay = 0 PROVE Spec => StaysBounded
  OBVIOUS
<1> DEFINE Bound == PolicySize(policy) + (IF policy.min.kind = "latest" THEN 1 ELSE 0)
           Step == pruning /\ ~pruning' /\ fails' = fails =>
                     \/ policy.min.kind \in {"all", "within"} \/ \E u \in Units : policy.tier[u] = All
                     \/ Cardinality(have \ spared) <= Bound
<1>1. TypeOK /\ Dated /\ RestIsWanted /\ [Next]_vars => [Step]_vars
  <2> SUFFICES ASSUME TypeOK, Dated, RestIsWanted, Next, pruning, ~pruning', fails' = fails,
                      policy.min.kind \notin {"all", "within"}, \A u \in Units : policy.tier[u] # All
               PROVE  Cardinality(have \ spared) <= Bound
    BY DEF vars
  <2>1. now \in Nat /\ have \subseteq Entry /\ have \subseteq taken /\ policy \in Policies /\ fails \in Nat
    BY RetentionAssumption DEF TypeOK
  <2>2. PruneEnds
    <3>1. ~Tick /\ ~Take /\ ~DeleteOldest /\ \A a \in Anchors : ~Prune(a)
      BY DEF Tick, Take, DeleteOldest, Prune
    <3>2. ~PruneCut
      BY <2>1 DEF PruneCut
    <3> QED
      BY <3>1, <3>2 DEF Next
  <2>3. have \ spared \subseteq Keep(have, policy, now)
    BY <2>2 DEF PruneEnds, RestIsWanted
  <2>4. \A e \in have : e.time <= now
    BY <2>1 DEF Dated
  <2>5. IsFiniteSet(Keep(have, policy, now)) /\ Cardinality(Keep(have, policy, now)) <= Bound
    BY <2>1, <2>4, WantedAtMost
  <2>6. Cardinality(have \ spared) <= Cardinality(Keep(have, policy, now)) /\ IsFiniteSet(have \ spared)
    BY <2>3, <2>5, FS_Subset
  <2>7. Cardinality(have \ spared) \in Nat /\ Cardinality(Keep(have, policy, now)) \in Nat
    BY <2>5, <2>6, FS_CardinalityType
  <2>8. Bound \in Int
    <3>1. \A u \in Units : TierSize(policy, u) \in Nat
      BY <2>1, <2>4, TierAtMost
    <3> QED
      BY <3>1 DEF PolicySize, Units
  <2> HIDE DEF Bound
  <2> QED
    BY <2>5, <2>6, <2>7, <2>8
<1> QED
  BY <1>1, RetentionInvariant, PTL DEF Spec, StaysBounded
=============================================================================
