----------------------------- MODULE ClockProofs ------------------------------
(***************************************************************************)
(* Proofs about Clock: what time and date give is one instant of the       *)
(* clock, for all calls that take less than a minute, all four formats of  *)
(* the registers and all dates up to the year 2200.                        *)
(*                                                                         *)
(* The first part is the calendar: the sums of unix_time and Zeller's      *)
(* congruence agree with DayNumber, and the conversions undo the formats   *)
(* of the registers.  The second is the reading: two passes that agree     *)
(* show the registers of one instant.                                      *)
(***************************************************************************)
EXTENDS Clock, NumberLemmas

------------------------------------------------------------------------------
\* The calendar.

\* A year that begins has one day more than the year before it if that was a leap year.
LEMMA LeapDays ==
  ASSUME NEW y \in Nat, y > 0
  PROVE  (y \div 4 - y \div 100 + y \div 400)
           - ((y - 1) \div 4 - (y - 1) \div 100 + (y - 1) \div 400) = IF is_leap_year(y) THEN 1 ELSE 0
<1> DEFINE Step(b) == IF y % b = 0 THEN 1 ELSE 0
<1>1. y \div 4 = (y - 1) \div 4 + Step(4)
  OBVIOUS
<1>2. y \div 100 = (y - 1) \div 100 + Step(100)
  OBVIOUS
<1>3. y \div 400 = (y - 1) \div 400 + Step(400)
  OBVIOUS
<1>4. (y % 100 = 0 => y % 4 = 0) /\ (y % 400 = 0 => y % 100 = 0)
  OBVIOUS
<1>5. /\ (y - 1) \div 4 \in Int /\ (y - 1) \div 100 \in Int /\ (y - 1) \div 400 \in Int
  OBVIOUS
<1>6. QED
  BY <1>1, <1>2, <1>3, <1>4, <1>5 DEF is_leap_year

\* The first days of the months, after March and before it.
LEMMA MonthStart ==
  ASSUME NEW y \in Nat, y > 0
  PROVE  LET a == 365 * y + (y \div 4 - y \div 100 + y \div 400) - 719468
             b == 365 * (y - 1) + ((y - 1) \div 4 - (y - 1) \div 100 + (y - 1) \div 400) - 719468
         IN  /\ DayNumber(y, 1, 1) = b + 306 /\ DayNumber(y, 2, 1) = b + 337
             /\ DayNumber(y, 3, 1) = a /\ DayNumber(y, 4, 1) = a + 31
             /\ DayNumber(y, 5, 1) = a + 61 /\ DayNumber(y, 6, 1) = a + 92
             /\ DayNumber(y, 7, 1) = a + 122 /\ DayNumber(y, 8, 1) = a + 153
             /\ DayNumber(y, 9, 1) = a + 184 /\ DayNumber(y, 10, 1) = a + 214
             /\ DayNumber(y, 11, 1) = a + 245 /\ DayNumber(y, 12, 1) = a + 275
             /\ a \in Int /\ b \in Int
             /\ a - b = 365 + IF is_leap_year(y) THEN 1 ELSE 0
<1> DEFINE A == y \div 4 - y \div 100 + y \div 400
           B == (y - 1) \div 4 - (y - 1) \div 100 + (y - 1) \div 400
<1>1. A \in Int /\ B \in Int /\ A - B = IF is_leap_year(y) THEN 1 ELSE 0
  BY LeapDays
<1>2. \A m \in 3 .. 12 : DayNumber(y, m, 1) = 365 * y + A + (153 * ((m + 9) % 12) + 2) \div 5 - 719468
  BY DEF DayNumber
<1>3. \A m \in 1 .. 2 : DayNumber(y, m, 1) = 365 * (y - 1) + B + (153 * ((m + 9) % 12) + 2) \div 5 - 719468
  BY DEF DayNumber
<1> HIDE DEF A, B
<1>4. QED
  BY <1>1, <1>2, <1>3 DEF A, B

\* A month is as long as days_in_month says, December and the year included.
LEMMA MonthLength ==
  ASSUME NEW y \in Nat, y > 0
  PROVE  /\ \A m \in 1 .. 12 : DayNumber(y, m, 1) \in Int
         /\ \A m \in 1 .. 11 : /\ DayNumber(y, m + 1, 1) = DayNumber(y, m, 1) + days_in_month(m, y)
                               /\ days_in_month(m, y) \in 28 .. 31
         /\ DayNumber(y + 1, 1, 1) = DayNumber(y, 12, 1) + 31
         /\ DayNumber(y + 1, 1, 1) = DayNumber(y, 1, 1) + IF is_leap_year(y) THEN 366 ELSE 365
<1> DEFINE Sum(z) == 365 * z + (z \div 4 - z \div 100 + z \div 400) - 719468
           a == Sum(y)
           b == Sum(y - 1)
           leap == IF is_leap_year(y) THEN 1 ELSE 0
<1>1. /\ DayNumber(y, 1, 1) = b + 306 /\ DayNumber(y, 2, 1) = b + 337
      /\ DayNumber(y, 3, 1) = a /\ DayNumber(y, 4, 1) = a + 31
      /\ DayNumber(y, 5, 1) = a + 61 /\ DayNumber(y, 6, 1) = a + 92
      /\ DayNumber(y, 7, 1) = a + 122 /\ DayNumber(y, 8, 1) = a + 153
      /\ DayNumber(y, 9, 1) = a + 184 /\ DayNumber(y, 10, 1) = a + 214
      /\ DayNumber(y, 11, 1) = a + 245 /\ DayNumber(y, 12, 1) = a + 275
      /\ a \in Int /\ b \in Int /\ a - b = 365 + leap
  BY MonthStart
<1>2. DayNumber(y + 1, 1, 1) = a + 306
  <2>1. y + 1 \in Nat /\ y + 1 > 0 /\ (y + 1) - 1 = y
    OBVIOUS
  <2>2. DayNumber(y + 1, 1, 1) = Sum((y + 1) - 1) + 306
    BY <2>1, MonthStart
  <2> HIDE DEF Sum
  <2>3. QED
    BY <2>1, <2>2
<1>3. leap \in 0 .. 1 /\ (IF is_leap_year(y) THEN 366 ELSE 365) = 365 + leap
  OBVIOUS
<1>4. /\ days_in_month(1, y) = 31 /\ days_in_month(2, y) = 28 + leap /\ days_in_month(3, y) = 31
      /\ days_in_month(4, y) = 30 /\ days_in_month(5, y) = 31 /\ days_in_month(6, y) = 30
      /\ days_in_month(7, y) = 31 /\ days_in_month(8, y) = 31 /\ days_in_month(9, y) = 30
      /\ days_in_month(10, y) = 31 /\ days_in_month(11, y) = 30
  BY DEF days_in_month
<1> HIDE DEF a, b, leap
<1>5. ASSUME NEW m \in 1 .. 12 PROVE DayNumber(y, m, 1) \in Int
  BY <1>1
<1>6. ASSUME NEW m \in 1 .. 11
      PROVE  /\ DayNumber(y, m + 1, 1) = DayNumber(y, m, 1) + days_in_month(m, y)
             /\ days_in_month(m, y) \in 28 .. 31
  BY <1>1, <1>3, <1>4
<1>7. QED
  BY <1>1, <1>2, <1>3, <1>5, <1>6

\* What the loop of unix_time over the years adds up to: a function that satisfies the
\* recursion is there, so YearDays is one, and it can be no other.
LEMMA YearDaysAre == \A y \in Nat : y >= 1970 => YearDays[y] = DayNumber(y, 1, 1)
<1> DEFINE Length(y) == IF is_leap_year(y - 1) THEN 366 ELSE 365
           Sum(f) == f = [y \in Nat |-> IF y <= 1970 THEN 0 ELSE f[y - 1] + Length(y)]
           total == [y \in Nat |-> IF y <= 1970 THEN 0 ELSE DayNumber(y, 1, 1)]
<1>1. DayNumber(1970, 1, 1) = 0
  BY DEF DayNumber
<1>2. ASSUME NEW y \in Nat, y > 1970
      PROVE  DayNumber(y, 1, 1) = DayNumber(y - 1, 1, 1) + Length(y)
  <2>1. y - 1 \in Nat /\ y - 1 > 0 /\ (y - 1) + 1 = y
    BY <1>2
  <2>2. QED
    BY <2>1, MonthLength
<1> HIDE DEF Length
<1>3. ASSUME NEW y \in Nat PROVE total[y] = IF y <= 1970 THEN 0 ELSE total[y - 1] + Length(y)
  <2>1. CASE y <= 1970
    BY <2>1
  <2>2. CASE y > 1970
    <3>1. y - 1 \in Nat /\ (y - 1 <= 1970 => y - 1 = 1970)
      BY <2>2
    <3>2. total[y - 1] = DayNumber(y - 1, 1, 1)
      BY <1>1, <3>1
    <3>3. QED
      BY <1>2, <2>2, <3>2
  <2>3. QED
    BY <2>1, <2>2
<1>4. Sum(total)
  <2>1. total = [y \in Nat |-> total[y]]
    OBVIOUS
  <2>2. [y \in Nat |-> total[y]] = [y \in Nat |-> IF y <= 1970 THEN 0 ELSE total[y - 1] + Length(y)]
    BY <1>3
  <2> HIDE DEF total
  <2>3. QED
    BY <2>1, <2>2
<1>5. YearDays = CHOOSE f : Sum(f)
  BY DEF YearDays, Length
<1>6. Sum(YearDays)
  BY <1>4, <1>5
<1>7. \A y \in Nat : YearDays[y] = IF y <= 1970 THEN 0 ELSE YearDays[y - 1] + Length(y)
  BY <1>6
<1> HIDE DEF Sum, total
<1> DEFINE S == {n \in Nat : YearDays[n] = total[n]}
<1>8. 0 \in S
  BY <1>3, <1>7
<1>9. ASSUME NEW n \in Nat, n \in S PROVE n + 1 \in S
  <2>1. n + 1 \in Nat /\ (n + 1) - 1 = n
    OBVIOUS
  <2>2. YearDays[n] = total[n]
    BY <1>9
  <2>3. YearDays[n + 1] = IF n + 1 <= 1970 THEN 0 ELSE YearDays[n] + Length(n + 1)
    BY <1>7, <2>1
  <2>4. total[n + 1] = IF n + 1 <= 1970 THEN 0 ELSE total[n] + Length(n + 1)
    BY <1>3, <2>1
  <2>5. QED
    BY <2>1, <2>2, <2>3, <2>4
<1> HIDE DEF S
<1>10. \A n \in Nat : n \in S
  BY <1>8, <1>9, SetInduction
<1>11. QED
  BY <1>1, <1>10 DEF S, total

\* And the loop over the months.
LEMMA MonthDaysAre ==
  ASSUME NEW y \in Nat, y > 0
  PROVE  \A m \in 1 .. 12 : MonthDays(m, y) = DayNumber(y, m, 1) - DayNumber(y, 1, 1)
<1> DEFINE Sum(f) == f = [i \in 1 .. 12 |-> IF i = 1 THEN 0 ELSE f[i - 1] + days_in_month(i - 1, y)]
           Before(i) == DayNumber(y, i, 1) - DayNumber(y, 1, 1)
           total == [i \in 1 .. 12 |-> Before(i)]
           sum == CHOOSE f : Sum(f)
<1>1. \A m \in 1 .. 12 : MonthDays(m, y) = sum[m]
  BY DEF MonthDays
<1>2. ASSUME NEW i \in 1 .. 12
      PROVE  Before(i) = IF i = 1 THEN 0 ELSE Before(i - 1) + days_in_month(i - 1, y)
  <2>1. DayNumber(y, i, 1) \in Int /\ DayNumber(y, 1, 1) \in Int
    BY MonthLength
  <2>2. CASE i # 1
    <3>1. i - 1 \in 1 .. 11 /\ i - 1 \in 1 .. 12 /\ (i - 1) + 1 = i
      BY <2>2
    <3>2. PICK j \in 1 .. 11 : j = i - 1
      BY <3>1
    <3>3. DayNumber(y, j + 1, 1) = DayNumber(y, j, 1) + days_in_month(j, y) /\ days_in_month(j, y) \in 28 .. 31
      BY MonthLength
    <3>4. DayNumber(y, j, 1) \in Int
      BY MonthLength
    <3>5. j + 1 = i
      BY <3>1, <3>2
    <3>6. QED
      BY <2>1, <2>2, <3>2, <3>3, <3>4, <3>5
  <2>3. QED
    BY <2>1, <2>2
<1> HIDE DEF Before
<1>3. Sum(total)
  <2>1. ASSUME NEW i \in 1 .. 12 PROVE i # 1 => i - 1 \in 1 .. 12
    OBVIOUS
  <2>2. QED
    BY <1>2, <2>1
<1>4. Sum(sum)
  BY <1>3
<1> HIDE DEF sum
<1>5. \A i \in 1 .. 12 : sum[i] = IF i = 1 THEN 0 ELSE sum[i - 1] + days_in_month(i - 1, y)
  BY <1>4
<1> HIDE DEF Sum, total
<1> DEFINE S == {n \in Nat : n \in 1 .. 12 => sum[n] = Before(n)}
<1>6. 0 \in S
  OBVIOUS
<1>7. ASSUME NEW n \in Nat, n \in S PROVE n + 1 \in S
  <2> SUFFICES ASSUME n + 1 \in 1 .. 12 PROVE sum[n + 1] = Before(n + 1)
    OBVIOUS
  <2>1. (n + 1) - 1 = n /\ (n + 1 = 1 \/ n \in 1 .. 12)
    OBVIOUS
  <2>2. sum[n + 1] = IF n + 1 = 1 THEN 0 ELSE sum[n] + days_in_month(n, y)
    BY <1>5, <2>1
  <2>3. Before(n + 1) = IF n + 1 = 1 THEN 0 ELSE Before(n) + days_in_month(n, y)
    BY <1>2, <2>1
  <2>4. QED
    BY <1>7, <2>1, <2>2, <2>3
<1> HIDE DEF S
<1>8. \A n \in Nat : n \in S
  BY <1>6, <1>7, SetInduction
<1>9. QED
  BY <1>1, <1>8 DEF S, Before

\* The last year that has begun.
LEMMA LastYear ==
  ASSUME NEW day \in Nat, NEW b \in Nat, NEW e \in Nat, e <= b, DayNumber(e, 1, 1) <= day
  PROVE  \E y \in Nat : /\ y <= b /\ DayNumber(y, 1, 1) <= day
                        /\ y = b \/ day < DayNumber(y + 1, 1, 1)
<1> DEFINE S == {y \in Nat : y <= b /\ DayNumber(y, 1, 1) <= day}
<1>1. S \in SUBSET Nat /\ e \in S /\ \A y \in S : y <= b
  OBVIOUS
<1>2. PICK y \in S : \A z \in S : z <= y
  <2> HIDE DEF S
  <2>1. S # {}
    BY <1>1
  <2>2. QED
    BY <1>1, <2>1, GreatestElement
<1>3. y + 1 \in Nat /\ y + 1 > 0 /\ y <= b /\ y + 1 \notin S
  BY <1>1, <1>2
<1>4. DayNumber(y + 1, 1, 1) \in Int
  BY <1>3, MonthLength
<1>5. y = b \/ ~ (DayNumber(y + 1, 1, 1) <= day)
  BY <1>3
<1>6. QED
  BY <1>4, <1>5

\* Every day of these years has a year and a month, and its number in the month.
LEMMA YearIs ==
  ASSUME NEW day \in Nat
  PROVE  day < DayNumber(2201, 1, 1) =>
           /\ YearOf(day) \in 1970 .. 2200
           /\ DayNumber(YearOf(day), 1, 1) <= day /\ day < DayNumber(YearOf(day) + 1, 1, 1)
<1>1. PICK e \in Nat, b \in Nat : e = 1970 /\ b = 2200
  OBVIOUS
<1>2. PICK y \in Nat : y <= b /\ DayNumber(y, 1, 1) <= day /\ (y = b \/ day < DayNumber(y + 1, 1, 1))
  <2>1. e <= b /\ DayNumber(e, 1, 1) <= day
    BY <1>1 DEF DayNumber
  <2>2. QED
    BY <2>1, LastYear
<1> DEFINE Is(z) == DayNumber(z, 1, 1) <= day /\ day < DayNumber(z + 1, 1, 1)
<1> SUFFICES ASSUME day < DayNumber(2201, 1, 1) PROVE YearOf(day) \in 1970 .. 2200 /\ Is(YearOf(day))
  OBVIOUS
<1>3. Is(y)
  BY <1>1, <1>2
<1>4. y >= 1970
  <2> SUFFICES ASSUME y < 1970 PROVE FALSE
    OBVIOUS
  <2>1. DayNumber(y + 1, 1, 1) <= 0
    BY DEF DayNumber
  <2>2. DayNumber(y + 1, 1, 1) \in Int
    BY MonthLength
  <2>3. QED
    BY <1>3, <2>1, <2>2
<1>5. y \in 1970 .. 2200
  BY <1>1, <1>2, <1>4
<1>6. YearOf(day) = CHOOSE z \in 1970 .. 2200 : Is(z)
  BY SMTT(30) DEF YearOf
<1> HIDE DEF Is
<1>7. YearOf(day) \in 1970 .. 2200 /\ Is(YearOf(day))
  BY <1>3, <1>5, <1>6
<1>8. QED
  BY <1>7

LEMMA MonthIs ==
  ASSUME NEW day \in Nat, day < DayNumber(2201, 1, 1)
  PROVE  /\ MonthOf(day) \in 1 .. 12
         /\ DayNumber(YearOf(day), MonthOf(day), 1) \in Int
         /\ day + 1 - DayNumber(YearOf(day), MonthOf(day), 1) \in 1 .. 31
<1>1. PICK y \in 1970 .. 2200 : y = YearOf(day)
  BY YearIs
<1>2. y \in Nat /\ y > 0 /\ DayNumber(y, 1, 1) <= day /\ day < DayNumber(y + 1, 1, 1)
  BY <1>1, YearIs
<1> DEFINE S == {m \in Nat : m \in 1 .. 12 /\ DayNumber(y, m, 1) <= day}
           Is(m) == DayNumber(y, m, 1) <= day /\ day < DayNumber(y + m \div 12, (m % 12) + 1, 1)
<1>3. PICK m \in S : \A n \in S : n <= m
  <2>1. 1 \in S
    BY <1>2
  <2>2. S \in SUBSET Nat /\ \A n \in S : n <= 12
    OBVIOUS
  <2> HIDE DEF S
  <2>3. QED
    BY <2>1, <2>2, GreatestElement
<1>4. m \in 1 .. 12 /\ DayNumber(y, m, 1) <= day
  OBVIOUS
<1>5. ASSUME NEW n \in 1 .. 11
      PROVE  DayNumber(y + n \div 12, (n % 12) + 1, 1) = DayNumber(y, n + 1, 1)
  <2>1. n \div 12 = 0 /\ n % 12 = n
    OBVIOUS
  <2>2. QED
    BY <1>1, <2>1
<1>6. DayNumber(y + 12 \div 12, (12 % 12) + 1, 1) = DayNumber(y + 1, 1, 1)
  <2>1. 12 \div 12 = 1 /\ 12 % 12 = 0 /\ 0 + 1 = 1
    OBVIOUS
  <2>2. QED
    BY <2>1
<1>7. Is(m)
  <2>1. CASE m = 12
    BY <1>2, <1>4, <1>6, <2>1
  <2>2. CASE m # 12
    <3>1. m \in 1 .. 11 /\ m + 1 \in 1 .. 12 /\ m + 1 \in Nat
      BY <1>4, <2>2
    <3>2. m + 1 \notin S
      BY <1>3, <3>1
    <3>3. DayNumber(y, m + 1, 1) \in Int /\ ~ (DayNumber(y, m + 1, 1) <= day)
      BY <1>2, <3>1, <3>2, MonthLength
    <3>4. QED
      BY <1>4, <1>5, <3>1, <3>3
  <2>3. QED
    BY <2>1, <2>2
<1>8. MonthOf(day) = CHOOSE n \in 1 .. 12 : Is(n)
  BY <1>1 DEF MonthOf
<1>9. MonthOf(day) \in 1 .. 12 /\ Is(MonthOf(day))
  BY <1>4, <1>7, <1>8
<1>10. ASSUME NEW n \in 1 .. 12, Is(n)
       PROVE  DayNumber(y, n, 1) \in Int /\ day + 1 - DayNumber(y, n, 1) \in 1 .. 31
  <2>1. DayNumber(y, n, 1) \in Int /\ DayNumber(y, n, 1) <= day
    BY <1>2, <1>10, MonthLength
  <2>2. CASE n = 12
    <3>1. day < DayNumber(y, n, 1) + 31
      BY <1>2, <2>2, MonthLength
    <3>2. QED
      BY <2>1, <3>1
  <2>3. CASE n # 12
    <3>1. n \in 1 .. 11
      BY <2>3
    <3>2. DayNumber(y, n + 1, 1) = DayNumber(y, n, 1) + days_in_month(n, y) /\ days_in_month(n, y) \in 28 .. 31
      BY <1>2, <3>1, MonthLength
    <3>3. day < DayNumber(y, n + 1, 1)
      BY <1>5, <1>10, <3>1
    <3>4. QED
      BY <2>1, <3>2, <3>3
  <2>4. QED
    BY <2>2, <2>3
<1> HIDE DEF Is
<1>11. QED
  BY <1>1, <1>9, <1>10

\* unix_time gives back the day that the date was made from.
LEMMA UnixDays ==
  ASSUME NEW day \in Nat, day < DayNumber(2201, 1, 1)
  PROVE  unix_days(day + 1 - DayNumber(YearOf(day), MonthOf(day), 1), MonthOf(day), YearOf(day)) = day
<1>1. PICK y \in 1970 .. 2200 : y = YearOf(day)
  BY YearIs
<1>2. PICK m \in 1 .. 12 : m = MonthOf(day)
  BY MonthIs
<1>3. y \in Nat /\ y > 0 /\ y >= 1970
  OBVIOUS
<1>4. DayNumber(y, m, 1) \in Int /\ DayNumber(y, 1, 1) \in Int
  BY <1>3, MonthLength
<1>5. YearDays[y] = DayNumber(y, 1, 1)
  BY <1>3, YearDaysAre
<1>6. MonthDays(m, y) = DayNumber(y, m, 1) - DayNumber(y, 1, 1)
  BY <1>3, MonthDaysAre
<1>7. unix_days(day + 1 - DayNumber(y, m, 1), m, y) = day
  BY <1>4, <1>5, <1>6 DEF unix_days
<1>8. QED
  BY <1>1, <1>2, <1>7

\* Zeller's congruence is the day of the week, but for Saturday, which it numbers 0.
LEMMA Zeller ==
  ASSUME NEW y \in Nat, y > 0, NEW m \in 1 .. 12, NEW d \in 1 .. 31, NEW day \in Nat,
         day = DayNumber(y, m, 1) + d - 1
  PROVE  WeekdayOf(day) = "Sat" \/ day_of_week(d, m, y) = WeekdayOf(day)
<1> DEFINE Y == IF m < 3 THEN y - 1 ELSE y
           M == IF m < 3 THEN m + 12 ELSE m
           leaps == Y \div 4 - Y \div 100 + Y \div 400
           h == (d + (13 * (M + 1)) \div 5 + Y + leaps) % 7
<1>1. Y \in Nat /\ leaps \in Int
  OBVIOUS
<1>2. day = 365 * Y + leaps + (153 * ((m + 9) % 12) + 2) \div 5 + d - 719469
  BY DEF DayNumber
<1>3. day_of_week(d, m, y) = IF h = 0 THEN Outside ELSE Weekdays[h]
  BY DEF day_of_week
<1> HIDE DEF Y, leaps
<1>4. h = (day + 5) % 7
  <2>1. (13 * (M + 1)) \div 5 \in Int /\ (153 * ((m + 9) % 12) + 2) \div 5 \in Int
    OBVIOUS
  <2>2. ((153 * ((m + 9) % 12) + 2) \div 5 - (13 * (M + 1)) \div 5) % 7 = 4
    OBVIOUS
  <2>3. QED
    BY <1>1, <1>2, <2>1, <2>2
<1> HIDE DEF h
<1>5. QED
  BY <1>3, <1>4 DEF WeekdayOf, Weekdays

------------------------------------------------------------------------------
\* The registers and their conversion.

\* The instants that the clock can show.
Instants == {at \in Nat \X Seconds : at[1] < DayNumber(2201, 1, 1)}

LEMMA InstantIs ==
  ASSUME NEW at \in Instants
  PROVE  at[1] \in Nat /\ at[2] \in Seconds /\ at[1] < DayNumber(2201, 1, 1) /\ at = <<at[1], at[2]>>
<1>1. at \in Nat \X Seconds /\ at[1] < DayNumber(2201, 1, 1)
  BY DEF Instants
<1>2. PICK a \in Nat, b \in Seconds : at = <<a, b>>
  BY <1>1
<1>3. QED
  BY <1>1, <1>2

\* Binary undoes the format of a register.
Coded(n, mode) == IF "binary" \in mode THEN n ELSE Bcd(n)
LEMMA Decoded ==
  ASSUME NEW mode, NEW n \in 0 .. 99
  PROVE  Coded(n, mode) \in 0 .. 153 /\ Binary(Coded(n, mode), mode) = n
<1>1. Bcd(n) \in 0 .. 153 /\ (Bcd(n) % 16) + (Bcd(n) \div 16) * 10 = n
  BY DEF Bcd
<1>2. QED
  BY <1>1 DEF Coded, Binary

\* What the registers hold.
LEMMA RegisterIs ==
  ASSUME NEW at, NEW mode
  PROVE  /\ Register("second", at, mode) = 0 + Coded(at[2] % 60, mode)
         /\ Register("minute", at, mode) = 0 + Coded((at[2] \div 60) % 60, mode)
         /\ Register("hour", at, mode) = (IF "24h" \notin mode /\ at[2] \div 3600 >= 12 THEN 128 ELSE 0)
                                         + Coded(Hours(at[2] \div 3600, mode), mode)
         /\ Register("day", at, mode) =
              0 + Coded(at[1] + 1 - DayNumber(YearOf(at[1]), MonthOf(at[1]), 1), mode)
         /\ Register("month", at, mode) = 0 + Coded(MonthOf(at[1]), mode)
         /\ Register("year", at, mode) = 0 + Coded(YearOf(at[1]) % 100, mode)
BY DEF Register, Coded

\* hour finds the hour, but for those it takes for noon and midnight.
LEMMA HourIs ==
  ASSUME NEW at \in Instants, NEW mode, "24h" \in mode \/ at[2] \div 3600 \notin {0, 12}
  PROVE  hour(Register("hour", at, mode), mode) = at[2] \div 3600
<1> DEFINE h == at[2] \div 3600
           H == Hours(h, mode)
           x == Coded(H, mode)
           r == Register("hour", at, mode)
<1>1. h \in 0 .. 23
  <2>1. PICK s \in Seconds : s = at[2]
    BY InstantIs
  <2>2. s \div 3600 \in 0 .. 23
    BY DEF Seconds
  <2>3. QED
    BY <2>1, <2>2
<1>2. r = (IF "24h" \notin mode /\ h >= 12 THEN 128 ELSE 0) + x
  BY RegisterIs
<1> HIDE DEF h, r
<1>3. /\ "24h" \in mode => H = h
      /\ "24h" \notin mode => H = ((h + 11) % 12) + 1
  BY DEF Hours
<1>4. H \in 0 .. 23 /\ H \in 0 .. 99
  BY <1>1, <1>3
<1> HIDE DEF H
<1>5. x \in 0 .. 35
  BY <1>4 DEF Coded, Bcd
<1>6. Binary(x, mode) = H
  BY <1>4, Decoded
<1> HIDE DEF x
<1>7. CASE "24h" \in mode
  <2>1. r = x /\ x % 128 = x
    BY <1>2, <1>5, <1>7
  <2>2. QED
    BY <1>3, <1>6, <1>7, <2>1 DEF hour, h, r
<1>8. CASE "24h" \notin mode
  <2>1. h # 0 /\ h # 12
    BY <1>8 DEF h
  <2>2. CASE h >= 12
    <3>1. r = 128 + x /\ r >= 128 /\ r % 128 = x
      BY <1>2, <1>5, <1>8, <2>2
    <3>2. (H + 12) % 24 = h
      BY <1>1, <1>3, <1>8, <2>1, <2>2
    <3>3. hour(r, mode) = (H + 12) % 24
      BY <1>6, <1>8, <3>1 DEF hour
    <3>4. QED
      BY <3>2, <3>3 DEF h, r
  <2>3. CASE ~ (h >= 12)
    <3>1. r = x /\ ~ (r >= 128) /\ r % 128 = x
      BY <1>2, <1>5, <1>8, <2>3
    <3>2. H = h
      BY <1>1, <1>3, <1>8, <2>1, <2>3
    <3>3. hour(r, mode) = H
      BY <1>6, <1>8, <3>1 DEF hour
    <3>4. QED
      BY <3>2, <3>3 DEF h, r
  <2>4. QED
    BY <2>2, <2>3
<1>9. QED
  BY <1>7, <1>8

\* year finds the year within a century from CURRENT_YEAR on.
LEMMA FullYear ==
  ASSUME NEW y \in 1970 .. 2200, y >= CURRENT_YEAR, y <= (CURRENT_YEAR \div 100) * 100 + 99, NEW mode
  PROVE  year(0 + Coded(y % 100, mode), mode) = y
<1>1. y % 100 \in 0 .. 99
  OBVIOUS
<1>2. Coded(y % 100, mode) \in Int /\ Binary(Coded(y % 100, mode), mode) = y % 100
  BY <1>1, Decoded, SMTT(30)
<1>3. (y % 100) + (CURRENT_YEAR \div 100) * 100 = y
  <2>1. PICK c \in Nat : c = CURRENT_YEAR
    BY ClockAssumption
  <2>2. (y % 100) + (c \div 100) * 100 = y
    BY <2>1
  <2>3. QED
    BY <2>1, <2>2
<1>4. Binary(0 + Coded(y % 100, mode), mode) = y % 100
  BY <1>2
<1>5. ~ (y < CURRENT_YEAR)
  BY ClockAssumption
<1>6. QED
  BY <1>3, <1>4, <1>5 DEF year

\* The weekday of an instant is that of its date.
LEMMA WeekdayFound ==
  ASSUME NEW at \in Instants
  PROVE  LET y == YearOf(at[1])
             m == MonthOf(at[1])
             d == at[1] + 1 - DayNumber(y, m, 1)
         IN  WeekdayOf(at[1]) = "Sat" \/ day_of_week(d, m, y) = WeekdayOf(at[1])
<1>1. PICK day \in Nat : day = at[1] /\ day < DayNumber(2201, 1, 1)
  BY InstantIs
<1>2. YearOf(day) \in Nat /\ YearOf(day) > 0
  <2>1. YearOf(day) \in 1970 .. 2200
    BY <1>1, YearIs
  <2>2. QED
    BY <2>1
<1>3. /\ MonthOf(day) \in 1 .. 12 /\ DayNumber(YearOf(day), MonthOf(day), 1) \in Int
      /\ day + 1 - DayNumber(YearOf(day), MonthOf(day), 1) \in 1 .. 31
  BY <1>1, MonthIs
<1>4. PICK y \in Nat : y = YearOf(day) /\ y > 0
  BY <1>2
<1>5. PICK m \in 1 .. 12 : m = MonthOf(day)
  BY <1>3
<1>6. PICK d \in 1 .. 31 : d = day + 1 - DayNumber(y, m, 1) /\ day = DayNumber(y, m, 1) + d - 1
  BY <1>3, <1>4, <1>5
<1>7. WeekdayOf(day) = "Sat" \/ day_of_week(d, m, y) = WeekdayOf(day)
  BY <1>4, <1>6, Zeller
<1>8. QED
  BY <1>1, <1>4, <1>5, <1>6, <1>7

\* time and date undo what the clock has made of the instant.
LEMMA Converts ==
  ASSUME NEW at \in Instants, NEW mode,
         YearOf(at[1]) >= CURRENT_YEAR, YearOf(at[1]) <= (CURRENT_YEAR \div 100) * 100 + 99,
         "24h" \in mode \/ at[2] \div 3600 \notin {0, 12},
         NEW c, c = Converted([r \in Fields |-> Register(r, at, mode)], mode)
  PROVE  /\ c.days = at[1] /\ c.seconds = at[2]
         /\ WeekdayOf(at[1]) = "Sat" \/ c.weekday = WeekdayOf(at[1])
<1> DEFINE reg == [r \in Fields |-> Register(r, at, mode)]
           day == at[1]
           s == at[2]
           y == YearOf(day)
           m == MonthOf(day)
           d == day + 1 - DayNumber(y, m, 1)
<1>1. day \in Nat /\ day < DayNumber(2201, 1, 1) /\ s \in Seconds
  BY InstantIs
<1>2. y \in 1970 .. 2200 /\ m \in 1 .. 12 /\ d \in 1 .. 31 /\ DayNumber(y, m, 1) \in Int
  <2>1. y \in 1970 .. 2200
    BY <1>1, YearIs
  <2>2. m \in 1 .. 12 /\ d \in 1 .. 31 /\ DayNumber(y, m, 1) \in Int
    BY <1>1, MonthIs
  <2>3. QED
    BY <2>1, <2>2
<1>3. \A r \in {"second", "minute", "hour", "day", "month", "year"} : reg[r] = Register(r, at, mode)
  <2>1. Fields = {"second", "minute", "hour", "day", "month", "year"}
    BY DEF Fields, Registers
  <2>2. QED
    BY <2>1
<1>4. Binary(reg["day"], mode) = d
  <2>1. reg["day"] = 0 + Coded(d, mode)
    BY <1>3, RegisterIs
  <2>2. d \in 0 .. 99
    BY <1>2
  <2> HIDE DEF d, reg
  <2>3. Coded(d, mode) \in 0 .. 153 /\ Binary(Coded(d, mode), mode) = d
    BY <2>2, Decoded
  <2>4. QED
    BY <2>1, <2>3
<1>5. Binary(reg["month"], mode) = m
  <2>1. reg["month"] = 0 + Coded(m, mode)
    BY <1>3, RegisterIs
  <2>2. m \in 0 .. 99
    BY <1>2
  <2> HIDE DEF m, reg
  <2>3. Coded(m, mode) \in 0 .. 153 /\ Binary(Coded(m, mode), mode) = m
    BY <2>2, Decoded, SMTT(30)
  <2>4. QED
    BY <2>1, <2>3
<1>6. year(reg["year"], mode) = y
  <2>1. reg["year"] = 0 + Coded(y % 100, mode)
    BY <1>3, RegisterIs
  <2>2. QED
    BY <1>2, <2>1, FullYear
<1>7. Binary(reg["minute"], mode) = (s \div 60) % 60 /\ Binary(reg["second"], mode) = s % 60
  <2>1. reg["minute"] = 0 + Coded((s \div 60) % 60, mode) /\ reg["second"] = 0 + Coded(s % 60, mode)
    BY <1>3, RegisterIs
  <2> HIDE DEF reg, s
  <2>2. (s \div 60) % 60 \in 0 .. 99 /\ s % 60 \in 0 .. 99
    BY <1>1 DEF Seconds
  <2>3. /\ Coded((s \div 60) % 60, mode) \in 0 .. 153
        /\ Binary(Coded((s \div 60) % 60, mode), mode) = (s \div 60) % 60
    BY <2>2, Decoded
  <2>4. Coded(s % 60, mode) \in 0 .. 153 /\ Binary(Coded(s % 60, mode), mode) = s % 60
    BY <2>2, Decoded
  <2>5. \A n \in 0 .. 153 : 0 + n = n
    OBVIOUS
  <2>6. QED
    BY <2>1, <2>3, <2>4, <2>5
<1>8. hour(reg["hour"], mode) = s \div 3600
  BY <1>3, HourIs
<1>9. c = [days |-> unix_days(d, m, y),
           seconds |-> (s \div 3600) * 3600 + ((s \div 60) % 60) * 60 + (s % 60),
           weekday |-> day_of_week(d, m, y)]
  BY <1>4, <1>5, <1>6, <1>7, <1>8 DEF Converted
<1>10. unix_days(d, m, y) = day
  BY <1>1, UnixDays
<1>11. (s \div 3600) * 3600 + ((s \div 60) % 60) * 60 + (s % 60) = s
  <2> HIDE DEF s
  <2>1. QED
    BY <1>1 DEF Seconds
<1>12. WeekdayOf(day) = "Sat" \/ day_of_week(d, m, y) = WeekdayOf(day)
  BY WeekdayFound
<1>13. QED
  BY <1>9, <1>10, <1>11, <1>12

------------------------------------------------------------------------------
\* Instants in order.

Pairs == Nat \X Seconds
Num(at) == at[1] * 86400 + at[2]

LEMMA NumIs ==
  ASSUME NEW at \in Pairs
  PROVE  /\ at[1] \in Nat /\ at[2] \in Seconds /\ at = <<at[1], at[2]>>
         /\ Num(at) \in Nat /\ Num(at) \div 86400 = at[1] /\ Num(at) % 86400 = at[2]
<1>1. PICK a \in Nat, b \in Seconds : at = <<a, b>>
  BY DEF Pairs
<1>2. a * 86400 + b \in Nat /\ (a * 86400 + b) \div 86400 = a /\ (a * 86400 + b) % 86400 = b
  BY DEF Seconds
<1>3. QED
  BY <1>1, <1>2 DEF Num

LEMMA AfterIs ==
  ASSUME NEW at \in Pairs
  PROVE  After(at) \in Pairs /\ Num(After(at)) = Num(at) + 1
<1>1. PICK a \in Nat, b \in Seconds : at = <<a, b>>
  BY DEF Pairs
<1>2. CASE b = 86399
  BY <1>1, <1>2 DEF After, Num, Pairs, Seconds
<1>3. CASE b # 86399
  <2>1. b + 1 \in Seconds /\ (a * 86400 + (b + 1)) = (a * 86400 + b) + 1
    BY <1>3 DEF Seconds
  <2>2. QED
    BY <1>1, <1>3, <2>1 DEF After, Num, Pairs
<1>4. QED
  BY <1>2, <1>3

\* A call that starts in these years ends in them.
LEMMA InTime ==
  ASSUME NEW at \in Pairs, Num(at) < (DayNumber(2200, 1, 1) + 2) * 86400
  PROVE  at \in Instants
<1>1. DayNumber(2200, 1, 1) = 84006 /\ DayNumber(2201, 1, 1) = 84371
  BY DEF DayNumber
<1>2. PICK a \in Nat, b \in Seconds : at = <<a, b>>
  BY DEF Pairs
<1>3. a * 86400 + b < (84006 + 2) * 86400
  BY <1>1, <1>2 DEF Num
<1>4. a < 84371
  BY <1>3 DEF Seconds
<1>5. QED
  BY <1>1, <1>2, <1>4 DEF Instants

\* The seconds that a register shows tell instants within a minute apart.
LEMMA SecondIs ==
  ASSUME NEW s \in Instants, NEW t \in Instants, NEW mode,
         Register("second", s, mode) = Register("second", t, mode)
  PROVE  Num(s) % 60 = Num(t) % 60
<1>1. PICK a \in Nat, b \in Seconds : s = <<a, b>>
  BY DEF Instants
<1>2. PICK c \in Nat, d \in Seconds : t = <<c, d>>
  BY DEF Instants
<1>3. Register("second", s, mode) = 0 + Coded(b % 60, mode) /\ Register("second", t, mode) = 0 + Coded(d % 60, mode)
  BY <1>1, <1>2, RegisterIs
<1>4. b % 60 \in 0 .. 99 /\ d % 60 \in 0 .. 99
  BY DEF Seconds
<1>5. /\ Coded(b % 60, mode) \in 0 .. 153 /\ Binary(Coded(b % 60, mode), mode) = b % 60
      /\ Coded(d % 60, mode) \in 0 .. 153 /\ Binary(Coded(d % 60, mode), mode) = d % 60
  BY <1>4, Decoded
<1>6. Coded(b % 60, mode) = Coded(d % 60, mode)
  BY <1>3, <1>5
<1>7. b % 60 = d % 60
  BY <1>5, <1>6
<1>8. (a * 86400 + b) % 60 = b % 60 /\ (c * 86400 + d) % 60 = d % 60
  BY DEF Seconds
<1>9. QED
  BY <1>1, <1>2, <1>7, <1>8 DEF Num

\* The other registers do not change within a minute.
LEMMA SameMinute ==
  ASSUME NEW s \in Instants, NEW t \in Instants, Num(s) \div 60 = Num(t) \div 60,
         NEW mode, NEW r \in Fields, r # "second"
  PROVE  Register(r, s, mode) = Register(r, t, mode)
<1>1. PICK a \in Nat, b \in Seconds : s = <<a, b>>
  BY DEF Instants
<1>2. PICK c \in Nat, d \in Seconds : t = <<c, d>>
  BY DEF Instants
<1>3. (a * 86400 + b) \div 60 = (c * 86400 + d) \div 60
  BY <1>1, <1>2 DEF Num
<1>4. a = c
  BY <1>3 DEF Seconds
<1>5. b \div 60 = d \div 60
  BY <1>3, <1>4 DEF Seconds
<1>6. b \div 3600 = d \div 3600
  BY <1>5 DEF Seconds
<1>7. s[1] = t[1] /\ s[2] \div 60 = t[2] \div 60 /\ s[2] \div 3600 = t[2] \div 3600
  BY <1>1, <1>2, <1>4, <1>5, <1>6
<1>8. r \in {"minute", "hour", "day", "month", "year"}
  BY DEF Fields, Registers
<1>9. QED
  BY <1>7, <1>8, RegisterIs

------------------------------------------------------------------------------
\* The reading.

\* The first instant of the call, and the latest that a register can show.
Ahead == IF uip THEN 1 ELSE 0
High == Num(now) + Ahead
Origin == Num(now) - ticks

Typed ==
  /\ now \in Pairs /\ uip \in BOOLEAN /\ ticks \in Nat
  /\ k \in 1 .. 6 /\ pc \in {"idle", "wait", "read", "compare", "done"}
  /\ Origin \in Nat /\ Origin < (DayNumber(2200, 1, 1) + 1) * 86400
  /\ ticks + Ahead <= 59
  /\ rtc = [r \in Fields |-> rtc[r]] /\ last = [r \in Fields |-> last[r]]

\* The last pass is over by the instant n, and none of its registers is older than the
\* seconds by more than an update in progress.
Passed(n) ==
  \/ last = NoPass
  \/ \E s \in Instants :
       /\ last["second"] = Register("second", s, registerB)
       /\ Origin <= Num(s) /\ Num(s) <= n
       /\ \A r \in Fields : \E at \in Instants :
            last[r] = Register(r, at, registerB) /\ Num(s) - 1 <= Num(at) /\ Num(at) <= n

\* This pass begins after it.
HasRead(j) == pc = "compare" \/ (pc = "read" /\ j < k)
Reading(n) ==
  /\ Origin <= n /\ n <= High
  /\ pc = "read" => n <= Num(now)
  /\ HasRead(1) => /\ seen \in Instants /\ n <= Num(seen) /\ Num(seen) <= High
                   /\ rtc["second"] = Register("second", seen, registerB)
  /\ \A j \in 1 .. 6 : HasRead(j) => \E at \in Instants :
       /\ rtc[Registers[j]] = Register(Registers[j], at, registerB)
       /\ n <= Num(at) /\ Num(seen) - 1 <= Num(at) /\ Num(at) <= High

Passes == pc # "done" => \E n \in Int : Passed(n) /\ Reading(n)

\* What is converted are the registers of one instant.
OneInstant ==
  pc = "done" => /\ seen \in Instants
                 /\ rtc = [r \in Fields |-> Register(r, seen, registerB)]
                 /\ result = Converted(rtc, registerB)

ClockInv == Typed /\ Passes /\ OneInstant

\* A register shows an instant between now and the end of the update.
LEMMA Readable ==
  ASSUME Typed, NEW at \in {now} \cup (IF uip THEN {After(now)} ELSE {})
  PROVE  /\ at \in Instants /\ Num(at) \in Nat /\ Num(now) \in Nat
         /\ Num(now) <= Num(at) /\ Num(at) <= High /\ High <= Num(now) + 1
<1>1. at \in Pairs /\ Num(now) \in Nat /\ Num(now) <= Num(at) /\ Num(at) <= High /\ High <= Num(now) + 1
  <2>1. now \in Pairs /\ Num(now) \in Nat /\ After(now) \in Pairs /\ Num(After(now)) = Num(now) + 1
    BY NumIs, AfterIs DEF Typed
  <2>2. CASE uip
    BY <2>1, <2>2 DEF High, Ahead
  <2>3. CASE ~ uip
    BY <2>1, <2>3 DEF High, Ahead
  <2>4. QED
    BY <2>2, <2>3
<1>2. Num(at) \in Nat
  BY <1>1, NumIs
<1>3. Num(at) < (DayNumber(2200, 1, 1) + 2) * 86400
  <2>1. DayNumber(2200, 1, 1) = 84006
    BY DEF DayNumber
  <2>2. ticks \in Nat /\ Ahead \in 0 .. 1 /\ Num(now) - ticks < (84006 + 1) * 86400 /\ ticks + Ahead <= 59
    BY <2>1 DEF Typed, Origin, Ahead
  <2>3. Num(at) <= Num(now) + Ahead
    BY <1>1 DEF High
  <2>4. QED
    BY <1>1, <1>2, <2>1, <2>2, <2>3
<1>4. QED
  BY <1>1, <1>2, <1>3, InTime

\* Two passes that agree show one instant: their seconds are the same one, and the other
\* registers were read on either side of it, on one side within its minute.
LEMMA Agree ==
  ASSUME Typed, NEW n \in Int, Passed(n), Reading(n), pc = "compare", rtc = last
  PROVE  seen \in Instants /\ rtc = [r \in Fields |-> Register(r, seen, registerB)]
<1>1. /\ seen \in Instants /\ n <= Num(seen) /\ Num(seen) <= High
      /\ rtc["second"] = Register("second", seen, registerB)
  BY DEF Reading, HasRead
<1>2. \A at \in Instants : at \in Pairs /\ Num(at) \in Nat
  BY NumIs DEF Instants, Pairs
<1>3. last # NoPass
  <2>1. NoPass["second"] = -1
    BY DEF NoPass, Fields, Registers
  <2>2. seen[2] % 60 \in 0 .. 99
    <3>1. PICK a \in Seconds : a = seen[2]
      BY <1>1, InstantIs
    <3>2. a % 60 \in 0 .. 99
      BY DEF Seconds
    <3>3. QED
      BY <3>1, <3>2
  <2>3. Register("second", seen, registerB) \in Nat
    <3>1. Coded(seen[2] % 60, registerB) \in 0 .. 153
      BY <2>2, Decoded
    <3>2. QED
      BY <3>1, RegisterIs
  <2>4. QED
    BY <1>1, <2>1, <2>3
<1>4. PICK s \in Instants :
        /\ last["second"] = Register("second", s, registerB)
        /\ Origin <= Num(s) /\ Num(s) <= n
        /\ \A r \in Fields : \E at \in Instants :
             last[r] = Register(r, at, registerB) /\ Num(s) - 1 <= Num(at) /\ Num(at) <= n
  BY <1>3 DEF Passed
<1>5. Num(s) = Num(seen) /\ n = Num(seen) /\ High <= Num(seen) + 59
  <2>1. Num(s) % 60 = Num(seen) % 60
    BY <1>1, <1>4, SecondIs
  <2>2. PICK a \in Nat, b \in Nat : a = Num(s) /\ b = Num(seen)
    BY <1>1, <1>2
  <2>3. High <= Origin + 59 /\ Origin \in Nat /\ High \in Int
    <3>1. Num(now) \in Nat /\ ticks \in Nat /\ Ahead \in 0 .. 1 /\ ticks + Ahead <= 59
      BY NumIs DEF Typed, Ahead
    <3>2. QED
      BY <3>1 DEF High, Origin, Typed
  <2>4. a % 60 = b % 60 /\ Origin <= a /\ a <= n /\ n <= b /\ b <= High
    BY <1>1, <1>4, <2>1, <2>2
  <2>5. a = b
    <3>1. b - a <= 59 /\ a <= b
      BY <2>3, <2>4
    <3>2. QED
      BY <2>4, <3>1
  <2>6. QED
    BY <2>2, <2>3, <2>4, <2>5
<1>6. ASSUME NEW r \in Fields PROVE rtc[r] = Register(r, seen, registerB)
  <2>1. CASE r = "second"
    BY <1>1, <2>1
  <2>2. CASE r # "second"
    <3>1. PICK before \in Instants :
            rtc[r] = Register(r, before, registerB) /\ Num(s) - 1 <= Num(before) /\ Num(before) <= n
      BY <1>4
    <3>2. PICK after \in Instants :
            rtc[r] = Register(r, after, registerB) /\ n <= Num(after) /\ Num(after) <= High
      <4>1. PICK j \in 1 .. 6 : r = Registers[j]
        BY DEF Fields, Registers
      <4>2. QED
        BY <4>1 DEF Reading, HasRead
    <3>3. PICK a \in Nat, b \in Nat, c \in Nat : a = Num(before) /\ b = Num(seen) /\ c = Num(after)
      BY <1>1, <1>2, <3>1, <3>2
    <3>4. b - 1 <= a /\ a <= b /\ b <= c /\ c <= b + 59
      <4>1. High \in Int
        BY NumIs DEF Typed, High, Ahead
      <4>2. QED
        BY <1>5, <3>1, <3>2, <3>3, <4>1
    <3>5. a \div 60 = b \div 60 \/ b \div 60 = c \div 60
      BY <3>4
    <3>6. QED
      BY <1>1, <2>2, <3>1, <3>2, <3>3, <3>5, SameMinute, ZenonT(40)
  <2>3. QED
    BY <2>1, <2>2
<1>7. QED
  BY <1>1, <1>6 DEF Typed

\* The clock goes on, and the passes stay where they are.
LEMMA DeviceStep ==
  ASSUME Typed, Passes, UNCHANGED <<registerB, pc, k, rtc, last, result, seen>>,
         Origin' = Origin, Num(now)' \in Int, High' \in Int, Num(now) <= Num(now)', High <= High'
  PROVE  Passes'
<1> SUFFICES ASSUME pc # "done" PROVE \E n \in Int : Passed(n)' /\ Reading(n)'
  BY DEF Passes
<1>1. PICK n \in Int : Passed(n) /\ Reading(n)
  BY DEF Passes
<1>2. Num(now) \in Int /\ High \in Int /\ \A at \in Instants : Num(at) \in Int
  <2>1. now \in Pairs /\ \A at \in Instants : at \in Pairs
    BY DEF Typed, Instants, Pairs
  <2>2. Num(now) \in Nat /\ \A at \in Instants : Num(at) \in Nat
    BY <2>1, NumIs
  <2>3. QED
    BY <2>2 DEF High, Ahead
<1>3. Passed(n)'
  BY <1>1 DEF Passed
<1>4. Reading(n)'
  <2>1. Origin' <= n /\ n <= High' /\ (pc = "read" => n <= Num(now)')
    BY <1>1, <1>2 DEF Reading
  <2>2. HasRead(1) => /\ seen \in Instants /\ n <= Num(seen) /\ Num(seen) <= High'
                      /\ rtc["second"] = Register("second", seen, registerB)
    BY <1>1, <1>2 DEF Reading
  <2>3. ASSUME NEW j \in 1 .. 6, HasRead(j)
        PROVE  \E at \in Instants :
                 /\ rtc[Registers[j]] = Register(Registers[j], at, registerB)
                 /\ n <= Num(at) /\ Num(seen) - 1 <= Num(at) /\ Num(at) <= High'
    BY <1>1, <1>2, <2>3 DEF Reading
  <2>4. (Num(seen) = Num(seen)') /\ \A j \in 1 .. 6 : HasRead(j)' <=> HasRead(j)
    BY DEF Num, HasRead
  <2>5. QED
    BY <2>1, <2>2, <2>3, <2>4 DEF Reading
<1>5. QED
  BY <1>3, <1>4

LEMMA ClockInit == Init => ClockInv
<1> SUFFICES ASSUME Init PROVE ClockInv
  OBVIOUS
<1>1. PICK a \in 0 .. DayNumber(2200, 1, 1), b \in Seconds : now = <<a, b>>
  BY StartsAssumption, SMTT(30) DEF Init
<1>2. DayNumber(2200, 1, 1) = 84006
  BY DEF DayNumber
<1>3. now \in Pairs /\ Num(now) \in Nat /\ Num(now) < (DayNumber(2200, 1, 1) + 1) * 86400
  <2>1. a \in Nat /\ a <= 84006 /\ a * 86400 + b \in Nat /\ a * 86400 + b < (84006 + 1) * 86400
    <3>1. DayNumber(2200, 1, 1) \in Nat
      BY <1>2
    <3>2. a \in Nat /\ a <= DayNumber(2200, 1, 1)
      BY <3>1
    <3>3. QED
      BY <1>2, <3>2 DEF Seconds
  <2>2. QED
    BY <1>1, <1>2, <2>1 DEF Num, Pairs
<1>4. Typed
  <2>1. Origin = Num(now)
    BY <1>3 DEF Init, Origin
  <2>2. ticks \in Nat /\ ticks + Ahead <= 59
    BY DEF Init, Ahead
  <2>3. rtc = [r \in Fields |-> rtc[r]] /\ last = [r \in Fields |-> last[r]]
    BY DEF Init, NoPass
  <2>4. QED
    BY <1>3, <2>1, <2>2, <2>3 DEF Init, Typed
<1>5. Passed(Num(now)) /\ Reading(Num(now))
  <2>1. Origin <= Num(now) /\ Num(now) <= High
    BY <1>3 DEF Init, Origin, High, Ahead
  <2>2. \A j \in 1 .. 6 : ~ HasRead(j)
    BY DEF Init, HasRead
  <2>3. ~ HasRead(1)
    BY DEF Init, HasRead
  <2>4. QED
    BY <2>1, <2>2, <2>3 DEF Init, Passed, Reading
<1>6. QED
  BY <1>3, <1>4, <1>5 DEF Init, ClockInv, Passes, OneInstant

\* A step of the device.
LEMMA ClockUpdate == ASSUME ClockInv, StartUpdate \/ EndUpdate PROVE ClockInv'
<1>1. now \in Pairs /\ Num(now) \in Nat /\ After(now) \in Pairs /\ Num(After(now)) = Num(now) + 1
  BY NumIs, AfterIs DEF ClockInv, Typed
<1>2. ticks \in Nat /\ ticks + Ahead <= 59
  BY DEF ClockInv, Typed
<1>3. UNCHANGED <<registerB, pc, k, rtc, last, result, seen>>
  BY DEF StartUpdate, EndUpdate
<1>4. /\ now' \in Pairs /\ uip' \in BOOLEAN /\ ticks' \in Nat /\ ticks' + Ahead' <= 59
      /\ Origin' = Origin /\ Num(now)' \in Int /\ High' \in Int /\ Num(now) <= Num(now)' /\ High <= High'
  <2>1. CASE StartUpdate
    <3>1. ~ uip /\ uip' = TRUE /\ now' = now /\ ticks' = ticks /\ ticks < MaxTicks /\ MaxTicks \in 0 .. 59
      BY <2>1, ClockAssumption DEF StartUpdate
    <3>2. Num(now)' = Num(now) /\ Ahead = 0 /\ Ahead' = 1
      BY <3>1 DEF Num, Ahead
    <3>3. QED
      BY <1>1, <1>2, <3>1, <3>2 DEF High, Origin
  <2>2. CASE EndUpdate
    <3>1. uip /\ uip' = FALSE /\ now' = After(now) /\ ticks' = ticks + 1
      BY <2>2 DEF EndUpdate
    <3>2. Num(now)' = Num(now) + 1 /\ Ahead = 1 /\ Ahead' = 0
      BY <1>1, <3>1 DEF Num, Ahead
    <3>3. now' \in Pairs /\ uip' \in BOOLEAN
      BY <1>1, <3>1
    <3>4. ticks' \in Nat /\ ticks' + Ahead' <= 59
      BY <1>2, <3>1, <3>2
    <3>5. /\ Num(now)' - ticks' = Num(now) - ticks /\ Num(now)' \in Int
          /\ Num(now)' + Ahead' \in Int /\ Num(now) <= Num(now)' /\ Num(now) + Ahead <= Num(now)' + Ahead'
      BY <1>1, <1>2, <3>1, <3>2
    <3>6. QED
      BY <3>3, <3>4, <3>5 DEF High, Origin
  <2>3. QED
    BY <2>1, <2>2
<1>5. Typed'
  BY <1>3, <1>4 DEF ClockInv, Typed
<1>6. Passes'
  BY <1>3, <1>4, DeviceStep DEF ClockInv
<1>7. OneInstant'
  BY <1>3 DEF ClockInv, OneInstant
<1>8. QED
  BY <1>5, <1>6, <1>7 DEF ClockInv

\* Waiting for the end of an update, from which a pass starts.
LEMMA ClockWait == ASSUME ClockInv, read_rtc \/ WaitForUpdate PROVE ClockInv'
<1>1. /\ UNCHANGED <<now, uip, registerB, ticks, rtc, last, result, seen>>
      /\ pc \in {"idle", "wait"} /\ pc' \in {"wait", "read"} /\ k' \in 1 .. 6
      /\ pc' = "read" => ~ uip /\ k' = 1
  BY DEF read_rtc, WaitForUpdate, device, ClockInv, Typed
<1>2. Ahead' = Ahead /\ Num(now)' = Num(now) /\ Origin' = Origin /\ High' = High
  BY <1>1 DEF Ahead, Num, Origin, High
<1>3. Typed'
  BY <1>1, <1>2 DEF ClockInv, Typed
<1>4. PICK n \in Int : Passed(n) /\ Reading(n)
  BY <1>1 DEF ClockInv, Passes
<1>5. Passed(n)'
  BY <1>1, <1>2, <1>4 DEF Passed
<1>6. Reading(n)'
  <2>1. \A j \in 1 .. 6 : ~ HasRead(j)'
    BY <1>1 DEF HasRead
  <2>2. ~ HasRead(1)'
    BY <1>1 DEF HasRead
  <2>3. Origin' <= n /\ n <= High' /\ (pc' = "read" => n <= Num(now)')
    <3>1. Num(now) \in Nat
      BY NumIs DEF ClockInv, Typed
    <3>2. ~ uip => High = Num(now)
      BY <3>1 DEF High, Ahead
    <3>3. QED
      BY <1>1, <1>2, <1>4, <3>2 DEF Reading
  <2>4. QED
    BY <2>1, <2>2, <2>3 DEF Reading
<1>7. QED
  BY <1>1, <1>3, <1>5, <1>6 DEF ClockInv, Passes, OneInstant

\* Reading a register.
LEMMA ClockRead == ASSUME ClockInv, get_rtc_register PROVE ClockInv'
<1>1. PICK at \in {now} \cup (IF uip THEN {After(now)} ELSE {}) :
        /\ rtc' = [rtc EXCEPT ![Registers[k]] = Register(Registers[k], at, registerB)]
        /\ seen' = IF k = 1 THEN at ELSE seen
  BY DEF get_rtc_register
<1>2. /\ UNCHANGED <<now, uip, registerB, ticks, last, result>> /\ pc = "read"
      /\ IF k = 6 THEN pc' = "compare" /\ k' = 1 ELSE pc' = pc /\ k' = k + 1
  BY DEF get_rtc_register, device, Registers
<1>3. Ahead' = Ahead /\ Num(now)' = Num(now) /\ Origin' = Origin /\ High' = High
  BY <1>2 DEF Ahead, Num, Origin, High
<1>4. k \in 1 .. 6 /\ Registers[k] \in Fields
  BY DEF ClockInv, Typed, Fields, Registers
<1>5. Typed'
  <2>1. k' \in 1 .. 6 /\ pc' \in {"idle", "wait", "read", "compare", "done"}
    BY <1>2, <1>4
  <2>2. rtc' = [r \in Fields |-> rtc'[r]]
    BY <1>1, <1>4 DEF ClockInv, Typed
  <2>3. QED
    BY <1>2, <1>3, <2>1, <2>2 DEF ClockInv, Typed
<1>6. PICK n \in Int : Passed(n) /\ Reading(n)
  BY <1>2 DEF ClockInv, Passes
<1>7. Passed(n)'
  BY <1>2, <1>3, <1>6 DEF Passed
<1>8. /\ at \in Instants /\ Num(at) \in Nat /\ Num(now) \in Nat
      /\ Num(now) <= Num(at) /\ Num(at) <= High /\ High <= Num(now) + 1
  BY Readable DEF ClockInv
<1>9. High \in Int
  BY <1>8 DEF High, Ahead
<1>10. \A r \in Fields : rtc'[r] = IF r = Registers[k] THEN Register(r, at, registerB) ELSE rtc[r]
  BY <1>1, <1>4 DEF ClockInv, Typed
<1>11. n <= Num(now) /\ n <= High /\ Origin <= n
  BY <1>2, <1>6 DEF Reading
<1>12. /\ seen' \in Instants /\ Num(seen)' \in Int /\ n <= Num(seen)' /\ Num(seen)' <= High
       /\ rtc'["second"] = Register("second", seen', registerB)
  <2>1. "second" \in Fields /\ Registers[1] = "second"
    BY DEF Fields, Registers
  <2>2. CASE k = 1
    <3>1. seen' = at /\ Num(seen)' = Num(at)
      BY <1>1, <2>2 DEF Num
    <3>2. QED
      BY <1>8, <1>10, <1>11, <2>1, <2>2, <3>1
  <2>3. CASE k # 1
    <3>1. HasRead(1) /\ Registers[k] # "second"
      BY <1>2, <1>4, <2>3 DEF HasRead, Registers
    <3>2. seen' = seen /\ Num(seen)' = Num(seen)
      BY <1>1, <2>3 DEF Num
    <3>3. /\ seen \in Instants /\ n <= Num(seen) /\ Num(seen) <= High
          /\ rtc["second"] = Register("second", seen, registerB)
      BY <1>6, <3>1 DEF Reading
    <3>4. Num(seen) \in Int
      BY <3>3, NumIs DEF Instants, Pairs
    <3>5. QED
      BY <1>10, <2>1, <3>1, <3>2, <3>3, <3>4
  <2>4. QED
    BY <2>2, <2>3
<1>13. ASSUME NEW j \in 1 .. 6, HasRead(j)'
       PROVE  \E x \in Instants :
                /\ rtc'[Registers[j]] = Register(Registers[j], x, registerB)
                /\ n <= Num(x) /\ Num(seen)' - 1 <= Num(x) /\ Num(x) <= High
  <2>1. CASE j = k
    <3>1. rtc'[Registers[j]] = Register(Registers[j], at, registerB)
      BY <1>4, <1>10, <2>1
    <3>2. n <= Num(at) /\ Num(seen)' - 1 <= Num(at)
      BY <1>8, <1>9, <1>11, <1>12
    <3>3. QED
      BY <1>8, <3>1, <3>2
  <2>2. CASE j # k
    <3>1. HasRead(j) /\ k # 1
      BY <1>2, <1>4, <1>13, <2>2 DEF HasRead
    <3>2. Registers[j] \in Fields /\ Registers[j] # Registers[k]
      BY <1>4, <2>2 DEF Registers, Fields
    <3>3. Num(seen)' = Num(seen)
      BY <1>1, <3>1 DEF Num
    <3>4. rtc'[Registers[j]] = rtc[Registers[j]]
      BY <1>10, <3>2
    <3>5. QED
      BY <1>6, <3>1, <3>3, <3>4 DEF Reading
  <2>3. QED
    BY <2>1, <2>2
<1>14. Reading(n)'
  <2>1. Origin' <= n /\ n <= High' /\ (pc' = "read" => n <= Num(now)')
    BY <1>3, <1>11
  <2>2. QED
    BY <1>2, <1>3, <1>12, <1>13, <2>1 DEF Reading
<1>15. QED
  BY <1>2, <1>5, <1>7, <1>14 DEF ClockInv, Passes, OneInstant

\* Another pass: this one becomes the last.
LEMMA ClockAgain == ASSUME ClockInv, Again PROVE ClockInv'
<1>1. /\ UNCHANGED <<now, uip, registerB, ticks, k, rtc, result, seen>>
      /\ pc = "compare" /\ pc' = "wait" /\ last' = rtc
  BY DEF Again, device
<1>2. Ahead' = Ahead /\ Num(now)' = Num(now) /\ Origin' = Origin /\ High' = High
  BY <1>1 DEF Ahead, Num, Origin, High
<1>3. Typed'
  BY <1>1, <1>2 DEF ClockInv, Typed
<1>4. PICK n \in Int : Passed(n) /\ Reading(n)
  BY <1>1 DEF ClockInv, Passes
<1>5. /\ seen \in Instants /\ n <= Num(seen) /\ Num(seen) <= High /\ Origin <= n
      /\ rtc["second"] = Register("second", seen, registerB)
      /\ \A j \in 1 .. 6 : \E at \in Instants :
           /\ rtc[Registers[j]] = Register(Registers[j], at, registerB)
           /\ Num(seen) - 1 <= Num(at) /\ Num(at) <= High
  BY <1>1, <1>4 DEF Reading, HasRead
<1>6. Num(now) \in Nat /\ High \in Int /\ Origin \in Int /\ Num(seen) \in Int
  <2>1. Num(now) \in Nat /\ Num(seen) \in Nat
    BY <1>5, NumIs DEF ClockInv, Typed, Instants, Pairs
  <2>2. QED
    BY <2>1 DEF High, Ahead, Origin, ClockInv, Typed
<1>7. Passed(High)'
  <2>1. \A r \in Fields : \E j \in 1 .. 6 : r = Registers[j]
    BY DEF Fields, Registers
  <2>2. \A r \in Fields : \E at \in Instants :
          last'[r] = Register(r, at, registerB) /\ Num(seen) - 1 <= Num(at) /\ Num(at) <= High
    BY <1>1, <1>5, <2>1
  <2>3. Origin <= Num(seen)
    BY <1>5, <1>6
  <2>4. \E s \in Instants :
          /\ last'["second"] = Register("second", s, registerB)
          /\ Origin <= Num(s) /\ Num(s) <= High
          /\ \A r \in Fields : \E at \in Instants :
               last'[r] = Register(r, at, registerB) /\ Num(s) - 1 <= Num(at) /\ Num(at) <= High
    BY <1>1, <1>5, <2>2, <2>3
  <2>5. QED
    BY <1>1, <1>2, <2>4 DEF Passed
<1>8. Reading(High)'
  <2>1. \A j \in 1 .. 6 : ~ HasRead(j)'
    BY <1>1 DEF HasRead
  <2>2. ~ HasRead(1)' /\ pc' # "read"
    BY <1>1 DEF HasRead
  <2>3. Origin <= High
    BY <1>5, <1>6
  <2>4. QED
    BY <1>2, <1>6, <2>1, <2>2, <2>3 DEF Reading
<1>9. Passes'
  <2>1. PICK h \in Int : h = High /\ h = High'
    BY <1>2, <1>6
  <2>2. Passed(h)' /\ Reading(h)'
    BY <1>7, <1>8, <2>1 DEF Passed, Reading
  <2>3. QED
    BY <2>2 DEF Passes
<1>10. QED
  BY <1>1, <1>3, <1>9 DEF ClockInv, OneInstant

LEMMA ClockFinish == ASSUME ClockInv, Finish PROVE ClockInv'
<1>1. /\ UNCHANGED <<now, uip, registerB, ticks, k, rtc, last, seen>>
      /\ pc = "compare" /\ pc' = "done" /\ rtc = last /\ result' = Converted(rtc, registerB)
  BY DEF Finish, device
<1>2. Ahead' = Ahead /\ Num(now)' = Num(now) /\ Origin' = Origin
  BY <1>1 DEF Ahead, Num, Origin
<1>3. Typed'
  BY <1>1, <1>2 DEF ClockInv, Typed
<1>4. seen \in Instants /\ rtc = [r \in Fields |-> Register(r, seen, registerB)]
  <2>1. PICK n \in Int : Passed(n) /\ Reading(n)
    BY <1>1 DEF ClockInv, Passes
  <2>2. QED
    BY <1>1, <2>1, Agree DEF ClockInv
<1>5. OneInstant'
  BY <1>1, <1>4 DEF OneInstant
<1>6. QED
  BY <1>1, <1>3, <1>5 DEF ClockInv, Passes

LEMMA ClockNext == ClockInv /\ [Next]_vars => ClockInv'
<1> SUFFICES ASSUME ClockInv, [Next]_vars PROVE ClockInv'
  OBVIOUS
<1>1. CASE StartUpdate \/ EndUpdate
  BY <1>1, ClockUpdate
<1>2. CASE read_rtc \/ WaitForUpdate
  BY <1>2, ClockWait
<1>3. CASE get_rtc_register
  BY <1>3, ClockRead
<1>4. CASE Again
  BY <1>4, ClockAgain
<1>5. CASE Finish
  BY <1>5, ClockFinish
<1>6. CASE UNCHANGED vars
  <2>1. UNCHANGED <<now, uip, registerB, ticks, pc, k, rtc, last, result, seen>>
    BY <1>6 DEF vars, device
  <2>2. Ahead' = Ahead /\ Num(now)' = Num(now) /\ Origin' = Origin /\ High' = High
    BY <2>1 DEF Ahead, Num, Origin, High
  <2>3. Typed' /\ OneInstant'
    BY <2>1, <2>2 DEF ClockInv, Typed, OneInstant
  <2>4. Num(now) \in Nat
    BY NumIs DEF ClockInv, Typed
  <2>5. Num(now) \in Int /\ High \in Int /\ Num(now) <= Num(now) /\ High <= High
    BY <2>4 DEF High, Ahead
  <2>6. Passes'
    BY <2>1, <2>2, <2>5, DeviceStep DEF ClockInv
  <2>7. QED
    BY <2>3, <2>6 DEF ClockInv
<1>7. QED
  BY <1>1, <1>2, <1>3, <1>4, <1>5, <1>6 DEF Next

\* time and date give the instant at which the last pass over the registers read the seconds
\* (time.c:26-140), for every call that takes less than a minute, whatever updates come between
\* the reads of the registers, in all four formats and for every date from 1970 to 2200 that
\* CURRENT_YEAR covers: its days and seconds since 1970 and, but for Saturday, its weekday.
THEOREM ClockTimeIsTrue == Spec => []TimeIsTrue
<1>1. ClockInv => TimeIsTrue
  <2> SUFFICES ASSUME ClockInv, pc = "done", Covered(seen)
               PROVE  /\ <<result.days, result.seconds>> = seen
                      /\ WeekdayOf(seen[1]) = "Sat" \/ result.weekday = WeekdayOf(seen[1])
    BY DEF TimeIsTrue
  <2>1. seen \in Instants /\ result = Converted([r \in Fields |-> Register(r, seen, registerB)], registerB)
    BY DEF ClockInv, OneInstant
  <2>2. YearOf(seen[1]) \in 1970 .. 2200
    BY <2>1, InstantIs, YearIs
  <2>3. /\ YearOf(seen[1]) >= CURRENT_YEAR /\ YearOf(seen[1]) <= (CURRENT_YEAR \div 100) * 100 + 99
        /\ "24h" \in registerB \/ seen[2] \div 3600 \notin {0, 12}
    BY <2>2, ClockAssumption DEF Covered
  <2>4. /\ result.days = seen[1] /\ result.seconds = seen[2]
        /\ WeekdayOf(seen[1]) = "Sat" \/ result.weekday = WeekdayOf(seen[1])
    BY <2>1, <2>3, Converts
  <2>5. seen = <<seen[1], seen[2]>>
    BY <2>1, InstantIs
  <2>6. QED
    BY <2>4, <2>5
<1>2. QED
  BY <1>1, ClockInit, ClockNext, PTL DEF Spec
==============================================================================
