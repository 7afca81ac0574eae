------------------------------ MODULE Calendar ------------------------------
(***************************************************************************)
(* The conversions between a date and a number of seconds (rtc.c), checked *)
(* against a calendar over the whole range of the code. A number of        *)
(* seconds is [days, rest], standing for days * SECONDS_IN_A_DAY + rest:   *)
(* it may be more than 2^31.                                               *)
(***************************************************************************)
EXTENDS Integers, Sequences, FiniteSets, FiniteSetsExt

YEAR_RANGE_START == 1970
YEAR_RANGE_END == 2099
SECONDS_IN_A_DAY == 86400
SECONDS_IN_A_HOUR == 3600
SECONDS_IN_A_MINUTE == 60
DAYS_IN_A_YEAR == 365

-----------------------------------------------------------------------------
rtc_is_leap_year(y) == y % 400 = 0 \/ (y % 4 = 0 /\ y % 100 # 0)

\* Days before each month of a common year, and of each month.
monthdays == <<0, 31, 59, 90, 120, 151, 181, 212, 243, 273, 304, 334>>
daysPerMonth == <<31, 28, 31, 30, 31, 30, 31, 31, 30, 31, 30, 31>>

Years == YEAR_RANGE_START .. YEAR_RANGE_END + 1

\* What the loop over the years adds up before y is reached: DAYS_IN_A_YEAR for
\* each year, and 1 for each leap year.
DaysBefore ==
  [y \in Years |-> DAYS_IN_A_YEAR * (y - YEAR_RANGE_START)
                     + Cardinality({z \in YEAR_RANGE_START .. y - 1 : rtc_is_leap_year(z)})]

\* Mutated form: the day of February 29 is counted from February on.
rtc_data_to_secondEarly(d) ==
  [days |-> DaysBefore[d.year] + monthdays[d.month]
              + (IF rtc_is_leap_year(d.year) /\ d.month >= 2 THEN 1 ELSE 0) + d.day - 1,
   rest |-> d.hour * SECONDS_IN_A_HOUR + d.minute * SECONDS_IN_A_MINUTE + d.second]

rtc_data_to_second(d) ==
  [days |-> DaysBefore[d.year] + monthdays[d.month]
              + (IF rtc_is_leap_year(d.year) /\ d.month >= 3 THEN 1 ELSE 0) + d.day - 1,
   rest |-> d.hour * SECONDS_IN_A_HOUR + d.minute * SECONDS_IN_A_MINUTE + d.second]

\* The loop over the years, which takes from the days (counted from 1) as many
\* as the year has.
YearLoop(days) ==
  LET while[year \in Years, left \in 1 .. days, daysInYear \in {DAYS_IN_A_YEAR, DAYS_IN_A_YEAR + 1}] ==
        IF left <= daysInYear THEN [year |-> year, left |-> left]
        ELSE while[year + 1, left - daysInYear,
                   IF ~rtc_is_leap_year(year + 1) THEN DAYS_IN_A_YEAR ELSE DAYS_IN_A_YEAR + 1]
  IN while[YEAR_RANGE_START, days, DAYS_IN_A_YEAR]

\* The loop over the months; February has 29 days in a leap year.
MonthLength(y, m) == IF m = 2 /\ rtc_is_leap_year(y) THEN 29 ELSE daysPerMonth[m]
MonthLoop(y, days) ==
  LET from[m \in 1 .. 13, left \in 1 .. days] ==
        IF m > 12 \/ left <= MonthLength(y, m) THEN [month |-> m, left |-> left]
        ELSE from[m + 1, left - MonthLength(y, m)]
  IN from[1, days]

rtc_second_to_date(s) ==
  LET y == YearLoop(s.days + 1)
      m == MonthLoop(y.year, y.left)
  IN [year |-> y.year, month |-> m.month, day |-> m.left,
      hour |-> s.rest \div SECONDS_IN_A_HOUR,
      minute |-> (s.rest % SECONDS_IN_A_HOUR) \div 60,
      second |-> (s.rest % SECONDS_IN_A_HOUR) % SECONDS_IN_A_MINUTE]

-----------------------------------------------------------------------------
(* The calendar: thirty days hath September, and a day more for February   *)
(* in the years the Gregorian rule says. (No year of the range is a        *)
(* century without one.)                                                   *)
LastDay(y, m) ==
  IF m \in {4, 6, 9, 11} THEN 30
  ELSE IF m # 2 THEN 31
  ELSE IF y % 4 = 0 THEN 29 ELSE 28

DaysSince1970(y, m, day) ==
  365 * (y - 1970) + (y - 1969) \div 4
    + FoldSet(LAMBDA k, sum : sum + LastDay(y, k), 0, 1 .. m - 1) + day - 1

Date(y, m, day, time) ==
  [year |-> y, month |-> m, day |-> day,
   hour |-> time \div 3600, minute |-> (time \div 60) % 60, second |-> time % 60]

\* The days of the range, and seconds at which the parts of a day turn over.
Days == {d \in (YEAR_RANGE_START .. YEAR_RANGE_END) \X (1 .. 12) \X (1 .. 31) :
           d[3] <= LastDay(d[1], d[2])}
TurnsOver == {0, 3599, 86399}

\* Each date has its number of seconds, and comes back from it.
ToSecondsRight(days) ==
  \A d \in days, time \in TurnsOver :
    rtc_data_to_second(Date(d[1], d[2], d[3], time))
      = [days |-> DaysSince1970(d[1], d[2], d[3]), rest |-> time]

ToDateRight(days) ==
  \A d \in days, time \in TurnsOver :
    rtc_second_to_date([days |-> DaysSince1970(d[1], d[2], d[3]), rest |-> time])
      = Date(d[1], d[2], d[3], time)
=============================================================================
