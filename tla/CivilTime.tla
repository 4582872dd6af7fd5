------------------------------ MODULE CivilTime ------------------------------
(***************************************************************************)
(* The calendar and the local time zone as date.rs uses them of the chrono *)
(* crate: the Gregorian calendar, of years without end, and a zone whose   *)
(* offset from UTC changes at some instants.                               *)
(*                                                                         *)
(* Time is counted in half hours. A wall is a reading of the local clock,  *)
(* in half hours since the first day's midnight; an instant is the same    *)
(* count of UTC; a day is counted from the first.                          *)
(***************************************************************************)
EXTENDS Integers, Sequences

LOCAL INSTANCE FiniteSetsExt

CONSTANTS
  FirstYear,   \* a year whose 1 January is day 0
  FirstMonday  \* its first Monday

ASSUME CalendarAssumption == FirstYear \in Int /\ FirstMonday \in Int

DayTicks == 48

DateOf(wall) == wall \div DayTicks
TimeOf(wall) == wall % DayTicks
Midnight(day) == day * DayTicks

-----------------------------------------------------------------------------
(* The calendar: months are counted from 0 *)

IsLeap(year) == year % 4 = 0 /\ (year % 100 = 0 => year % 400 = 0)

MonthDays(month) ==
  CASE month % 12 = 1 -> IF IsLeap(FirstYear + month \div 12) THEN 29 ELSE 28
    [] month % 12 \in {3, 5, 8, 10} -> 30
    [] OTHER -> 31

\* Days of a year before each of its months, but for the leap day
DaysBefore == <<0, 31, 59, 90, 120, 151, 181, 212, 243, 273, 304, 334>>

\* Days from a fixed day to 1 January of a year
YearStart(year) ==
  365 * year + (year - 1) \div 4 - (year - 1) \div 100 + (year - 1) \div 400

MonthStart(month) ==
  LET year == FirstYear + month \div 12
      n == month % 12
  IN  YearStart(year) - YearStart(FirstYear) + DaysBefore[n + 1]
        + IF n > 1 /\ IsLeap(year) THEN 1 ELSE 0

Least(m, n) == IF m < n THEN m ELSE n
Greatest(m, n) == IF m < n THEN n ELSE m

Month(day) ==
  CHOOSE month \in Least(day \div 31, day \div 28)..Greatest(day \div 31, day \div 28) :
    MonthStart(month) <= day /\ day < MonthStart(month + 1)

Year(day) == Month(day) \div 12
DayOfMonth(day) == day - MonthStart(Month(day)) + 1

\* NaiveDate::from_ymd_opt, for days that exist
DayAt(month, n) == MonthStart(month) + n - 1

\* checked_add_months and checked_sub_months clamp to the month's last day.
AddMonths(wall, n) ==
  LET month == Month(DateOf(wall)) + n
  IN  Midnight(DayAt(month, Least(DayOfMonth(DateOf(wall)), MonthDays(month)))) + TimeOf(wall)

AddDays(wall, n) == wall + n * DayTicks

\* The days of ISO weeks: 0 is Monday.
Weekday(day) == (day - FirstMonday) % 7
DayOfWeek(day, weekday) == day - Weekday(day) + weekday

\* NaiveDate::years_since for from <= to: the anniversary has been reached.
YearsSince(from, to) ==
  LET InYear(day) == <<Month(day) % 12, DayOfMonth(day)>>
      IsBefore(a, b) == a[1] < b[1] \/ (a[1] = b[1] /\ a[2] < b[2])
  IN  Year(to) - Year(from) - IF IsBefore(InYear(to), InYear(from)) THEN 1 ELSE 0

-----------------------------------------------------------------------------
(* The zone: its first offset and a sequence of changes [at, offset] *)

Offsets(zone) == {zone.base} \cup {zone.changes[k].offset : k \in DOMAIN zone.changes}

OffsetAt(zone, instant) ==
  LET past == {k \in DOMAIN zone.changes : zone.changes[k].at <= instant}
  IN  IF past = {} THEN zone.base ELSE zone.changes[Max(past)].offset

\* Local.offset_from_utc_datetime
LocalWall(zone, instant) == instant + OffsetAt(zone, instant)

\* Local.offset_from_local_datetime: none, one or two.
LocalOffsets(zone, wall) ==
  {offset \in Offsets(zone) : OffsetAt(zone, wall - offset) = offset}
==============================================================================
