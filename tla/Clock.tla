---------------------------------- MODULE Clock ---------------------------------
(***************************************************************************)
(* The wall clock: libc/time/time.c, on the CMOS real-time clock.          *)
(*                                                                         *)
(* The clock goes on while read_rtc fetches its registers one by one.  An  *)
(* instant is <<day since 1970, second of the day>>.  While the update     *)
(* flag is set a register may show its old or its new value.               *)
(***************************************************************************)
EXTENDS Integers, Sequences

CONSTANTS
  CURRENT_YEAR,
  Starts,          \* instants a call may begin at
  Modes,           \* register B: subsets of {"binary", "24h"}
  MaxTicks         \* bound: updates during a call, which takes less than a minute

ASSUME ClockAssumption ==
  /\ CURRENT_YEAR \in Nat
  /\ \A m \in Modes : m \subseteq {"binary", "24h"}
  /\ MaxTicks \in 0 .. 59

Registers == <<"second", "minute", "hour", "day", "month", "year">>
Fields == {Registers[k] : k \in DOMAIN Registers}
Weekdays == <<"Sun", "Mon", "Tue", "Wed", "Thu", "Fri", "Sat">>
Outside == "memory before weekdays"

------------------------------------------------------------------------------
\* The calendar, for reference: days since 1970-01-01, counting years from March.
DayNumber(y, m, d) ==
  LET a == IF m <= 2 THEN y - 1 ELSE y
      n == (m + 9) % 12
  IN  365 * a + a \div 4 - a \div 100 + a \div 400 + (153 * n + 2) \div 5 + d - 719469
YearOf(day) == CHOOSE y \in 1970 .. 2200 : DayNumber(y, 1, 1) <= day /\ day < DayNumber(y + 1, 1, 1)
MonthOf(day) ==
  CHOOSE m \in 1 .. 12 : /\ DayNumber(YearOf(day), m, 1) <= day
                         /\ day < DayNumber(YearOf(day) + m \div 12, (m % 12) + 1, 1)
WeekdayOf(day) == Weekdays[((day + 4) % 7) + 1]

\* The seconds of a day; the years of YearOf, as a call does not take a day.
Seconds == {s \in Nat : s < 86400}
ASSUME StartsAssumption == Starts \subseteq (0 .. DayNumber(2200, 1, 1)) \X Seconds

After(at) == IF at[2] = 86399 THEN <<at[1] + 1, 0>> ELSE <<at[1], at[2] + 1>>

------------------------------------------------------------------------------
\* The device: what a register holds at an instant, in the mode of register B.
Bcd(n) == (n \div 10) * 16 + (n % 10)
Hours(h, mode) == IF "24h" \in mode THEN h ELSE ((h + 11) % 12) + 1

Register(r, at, mode) ==
  LET h == at[2] \div 3600
      n == CASE r = "second" -> at[2] % 60
             [] r = "minute" -> (at[2] \div 60) % 60
             [] r = "hour" -> Hours(h, mode)
             [] r = "day" -> at[1] + 1 - DayNumber(YearOf(at[1]), MonthOf(at[1]), 1)
             [] r = "month" -> MonthOf(at[1])
             [] r = "year" -> YearOf(at[1]) % 100
      pm == IF r = "hour" /\ "24h" \notin mode /\ h >= 12 THEN 128 ELSE 0
  IN  pm + IF "binary" \in mode THEN n ELSE Bcd(n)

VARIABLES
  now, uip,        \* the device: the instant, and whether it is being updated
  registerB,       \* its mode
  pc,              \* "idle" | "wait" | "read" | "compare" | "done"
  k,               \* the register to read next
  rtc, last,       \* second, minute, ...: this pass over the registers, and the last
  result,          \* what time and date make of it
  seen,            \* ghost: the instant at which the pass read its seconds
  ticks            \* updates during the call

device == <<now, uip, registerB, ticks>>
vars == <<device, pc, k, rtc, last, result, seen>>

NoPass == [r \in Fields |-> -1]
NoResult == [days |-> -1, seconds |-> -1, weekday |-> Outside]

Init ==
  /\ now \in Starts /\ uip \in BOOLEAN /\ registerB \in Modes
  /\ pc = "idle" /\ k = 1
  /\ rtc = NoPass /\ last = NoPass
  /\ result = NoResult
  /\ seen = now /\ ticks = 0

StartUpdate ==
  /\ ~ uip /\ ticks < MaxTicks
  /\ uip' = TRUE
  /\ UNCHANGED <<now, registerB, ticks, pc, k, rtc, last, result, seen>>

EndUpdate ==
  /\ uip
  /\ uip' = FALSE /\ now' = After(now) /\ ticks' = ticks + 1
  /\ UNCHANGED <<registerB, pc, k, rtc, last, result, seen>>

------------------------------------------------------------------------------
\* time or date is called.
read_rtc ==
  /\ pc = "idle"
  /\ pc' = "wait"
  /\ UNCHANGED <<device, k, rtc, last, result, seen>>

\* get_update_in_progress_flag is polled until it is clear.
WaitForUpdate ==
  /\ pc = "wait" /\ ~ uip
  /\ pc' = "read" /\ k' = 1
  /\ UNCHANGED <<device, rtc, last, result, seen>>

get_rtc_register ==
  /\ pc = "read"
  /\ \E at \in {now} \cup (IF uip THEN {After(now)} ELSE {}) :
       /\ rtc' = [rtc EXCEPT ![Registers[k]] = Register(Registers[k], at, registerB)]
       /\ seen' = IF k = 1 THEN at ELSE seen
  /\ IF k = Len(Registers) THEN pc' = "compare" /\ k' = 1 ELSE pc' = pc /\ k' = k + 1
  /\ UNCHANGED <<device, last, result>>

------------------------------------------------------------------------------
\* From the registers to numbers: hour keeps its PM bit until it is converted.
Binary(x, mode) == IF "binary" \in mode THEN x ELSE (x % 16) + (x \div 16) * 10

hour(x, mode) ==
  LET pm == x >= 128
      h == Binary(x % 128, mode)
  IN  IF "24h" \notin mode /\ pm THEN (h + 12) % 24 ELSE h

year(x, mode) ==
  LET y == Binary(x, mode) + (CURRENT_YEAR \div 100) * 100
  IN  IF y < CURRENT_YEAR THEN y + 100 ELSE y

is_leap_year(y) == (y % 4 = 0 /\ y % 100 # 0) \/ y % 400 = 0

days_in_month(m, y) ==
  IF m = 2 /\ is_leap_year(y) THEN 29
  ELSE <<31, 28, 31, 30, 31, 30, 31, 31, 30, 31, 30, 31>>[m]

\* unix_time, as days and seconds of the day: the years from 1970 on and the months
\* before this one are added up.
YearDays[y \in Nat] ==
  IF y <= 1970 THEN 0 ELSE YearDays[y - 1] + IF is_leap_year(y - 1) THEN 366 ELSE 365
MonthDays(m, y) ==
  LET sum[i \in 1 .. 12] == IF i = 1 THEN 0 ELSE sum[i - 1] + days_in_month(i - 1, y) IN sum[m]
unix_days(d, m, y) == YearDays[y] + MonthDays(m, y) + d - 1

\* Zeller's congruence counts from Saturday, the table from Sunday.
day_of_week(d, month, year_) ==
  LET m == IF month < 3 THEN month + 12 ELSE month
      Y == IF month < 3 THEN year_ - 1 ELSE year_
      h == (d + (13 * (m + 1)) \div 5 + Y + Y \div 4 - Y \div 100 + Y \div 400) % 7
  IN  IF h = 0 THEN Outside ELSE Weekdays[h]

\* What time returns and the weekday that date prints.
Converted(reg, mode) ==
  LET d == Binary(reg["day"], mode)
      m == Binary(reg["month"], mode)
      y == year(reg["year"], mode)
  IN  [days |-> unix_days(d, m, y),
       seconds |-> hour(reg["hour"], mode) * 3600 + Binary(reg["minute"], mode) * 60
                   + Binary(reg["second"], mode),
       weekday |-> day_of_week(d, m, y)]

\* The end of a pass: another one unless it read what the last one did.
Again ==
  /\ pc = "compare" /\ rtc # last
  /\ last' = rtc
  /\ pc' = "wait"
  /\ UNCHANGED <<device, k, rtc, result, seen>>

\* One pass is enough.
FinishFirst ==
  /\ pc = "compare"
  /\ pc' = "done"
  /\ result' = Converted(rtc, registerB)
  /\ UNCHANGED <<device, k, rtc, last, seen>>

Finish ==
  /\ pc = "compare" /\ rtc = last
  /\ pc' = "done"
  /\ result' = Converted(rtc, registerB)
  /\ UNCHANGED <<device, k, rtc, last, seen>>

Next == StartUpdate \/ EndUpdate \/ read_rtc \/ WaitForUpdate \/ get_rtc_register \/ Again \/ Finish

Spec == Init /\ [][Next]_vars

------------------------------------------------------------------------------
\* Where the conversion is right: years from CURRENT_YEAR on for a century, and not
\* the hours after noon and midnight of a clock that counts to twelve.
Covered(at) ==
  /\ YearOf(at[1]) \in CURRENT_YEAR .. (CURRENT_YEAR \div 100) * 100 + 99
  /\ "24h" \in registerB \/ at[2] \div 3600 \notin {0, 12}

\* time and date give the instant at which the last pass over the registers read the
\* seconds, however many updates came between the reads of this pass and of the one
\* before: no mixture of two instants gets through.  The weekday is claimed except
\* for Saturday, which the table misses.
TimeIsTrue ==
  pc = "done" /\ Covered(seen) =>
    /\ <<result.days, result.seconds>> = seen
    /\ WeekdayOf(seen[1]) = "Sat" \/ result.weekday = WeekdayOf(seen[1])
==============================================================================
