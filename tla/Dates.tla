------------------------------- MODULE Dates -------------------------------
(***************************************************************************)
(* Times and the numbers a spreadsheet stores for them (date.go).          *)
(*                                                                         *)
(* A time is the number of eighths of a day since excelMinTime1900         *)
(* (1899-12-31 00:00 UTC), an Excel time the number of eighths it stands   *)
(* for: eighths are exact in float64, so the arithmetic here is exact too. *)
(***************************************************************************)
EXTENDS Integers

Day == 8

\* external: time.Date, the days from 0001-01-01 to a Gregorian date
LeapYear(y) == y % 4 = 0 /\ (y % 100 # 0 \/ y % 400 = 0)
DaysBefore(y, m) ==
  <<0, 31, 59, 90, 120, 151, 181, 212, 243, 273, 304, 334>>[m]
    + (IF m > 2 /\ LeapYear(y) THEN 1 ELSE 0)
DayNumber(y, m, d) ==
  365 * (y - 1) + (y - 1) \div 4 - (y - 1) \div 100 + (y - 1) \div 400
    + DaysBefore(y, m) + d - 1
Date(y, m, d) == (DayNumber(y, m, d) - DayNumber(1899, 12, 31)) * Day

-----------------------------------------------------------------------------
(* Writing: timeToExcelTime.                                               *)

MaxDuration == 290 * 364 * Day           \* maxDuration of the code
MaxSub      == 106751 * Day              \* external: where time.Sub saturates
Sub(t)      == IF t > MaxSub THEN MaxSub ELSE t
BuggyPeriodStart == Date(1900, 3, 1)     \* less a nanosecond

\* the loop over stretches of 290 * 364 days, on the rest tt of the time
DurationOf[tt \in Nat] ==
  IF Sub(tt) >= MaxDuration THEN MaxDuration + DurationOf[tt - MaxDuration]
  ELSE Sub(tt)

\* mutant: one subtraction, which saturates
DurationOfOnce(t) == Sub(t)

Duration(t) == DurationOf[t]

TimeToExcelTime(t) ==
  IF t < 0 THEN 0
  ELSE Duration(t) + (IF t >= BuggyPeriodStart THEN Day ELSE 0)

-----------------------------------------------------------------------------
(* Reading: timeFromExcelTime.                                             *)

\* the algorithm of Fliegel and Van Flandern
Gregorian(jd) ==
  LET l1 == jd + 68569
      n  == (4 * l1) \div 146097
      l2 == l1 - (146097 * n + 3) \div 4
      i  == (4000 * (l2 + 1)) \div 1461001
      l3 == l2 - (1461 * i) \div 4 + 31
      j  == (80 * l3) \div 2447
      l4 == j \div 11
  IN  [day   |-> l3 - (2447 * j) \div 80,
       month |-> j + 2 - 12 * l4,
       year  |-> 100 * (n - 49) + i + l4]

\* math.Modf: the whole part towards zero, and what is left
Whole(x) == IF x < 0 THEN -((-x) \div Day) ELSE x \div Day
Fraction(x) == x - Whole(x) * Day

\* mutant: half a day is not carried into the days
ShiftJulianToNoonLate(days, fraction) == [days |-> days, fraction |-> fraction % Day]

\* half of Day is 4
ShiftJulianToNoon(days, fraction) ==
  CASE -4 < fraction /\ fraction < 4 -> [days |-> days, fraction |-> fraction + 4]
    [] fraction >= 4                 -> [days |-> days + 1, fraction |-> fraction - 4]
    [] fraction <= -4                -> [days |-> days - 1, fraction |-> fraction + 12]

JulianDateToGregorianTime(part1, part2) ==
  LET noon == ShiftJulianToNoon(Whole(part1) + Whole(part2),
                                Fraction(part1) + Fraction(part2))
      date == Gregorian(noon.days)
  IN  Date(date.year, date.month, date.day) + noon.fraction

MDD == 106750
Offset1900 == 15018
Offset1904 == 16480
MJD0 == 2400000 * Day + 4

\* the loop over stretches of MDD days
AddDays[days \in Nat] ==
  IF days > MDD THEN MDD * Day + AddDays[days - MDD] ELSE days * Day

TimeFromExcelTime(x, date1904) ==
  IF Whole(x) <= 61
  THEN JulianDateToGregorianTime(MJD0,
         x + (IF date1904 THEN Offset1904 ELSE Offset1900) * Day)
  ELSE (IF date1904 THEN Date(1904, 1, 1) ELSE Date(1899, 12, 30))
         + AddDays[Whole(x)] + Fraction(x)
============================================================================
