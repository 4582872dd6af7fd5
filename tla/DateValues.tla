------------------------------ MODULE DateValues ------------------------------
(***************************************************************************)
(* Dates, date-times and what moves them (src/src/date.rs). A Date is a    *)
(* day of no zone; a DateTime is an instant, shown and moved by days or    *)
(* more on the local clock and by hours as an instant; a DatePoint is      *)
(* either one, with the wall and the instant of both and the precision it  *)
(* was given in.                                                           *)
(*                                                                         *)
(* The ends of what chrono represents are left out: no step here overflows.*)
(***************************************************************************)
EXTENDS CivilTime, Durations

LOCAL INSTANCE FiniteSetsExt

CONSTANT Unresolved    \* DateError::LocalZoneLookup

-----------------------------------------------------------------------------
(* The local clock *)

Hour == 2

\* resolve_gap_offset: of the readings one to 25 hours back the nearest that
\* exists. Of two the code takes the first that chrono names.
Probes == 1..25

GapOffset(zone, wall) ==
  LET hits == {k \in Probes : LocalOffsets(zone, wall - k * Hour) # {}}
  IN  IF hits = {} THEN Unresolved
      ELSE CHOOSE offset \in LocalOffsets(zone, wall - Min(hits) * Hour) : TRUE

\* Mutant of ResolvedOffset: the later of two readings.
LatestOffset(zone, wall) ==
  LET offsets == LocalOffsets(zone, wall)
  IN  IF offsets # {} THEN Min(offsets) ELSE GapOffset(zone, wall)

\* local_naive_to_utc: the larger offset is the earlier reading.
ResolvedOffset(zone, wall) ==
  LET offsets == LocalOffsets(zone, wall)
  IN  IF offsets # {} THEN Max(offsets) ELSE GapOffset(zone, wall)

LocalToUtc(zone, wall) == wall - ResolvedOffset(zone, wall)

-----------------------------------------------------------------------------
(* Values *)

Date(day) == [kind |-> "date", at |-> day]
DateTime(instant) == [kind |-> "datetime", at |-> instant]

HasTime(value) == value.kind = "datetime"

\* A date has an instant at the local midnight.
InstantOf(zone, value) ==
  IF HasTime(value) THEN value.at ELSE LocalToUtc(zone, Midnight(value.at))

WallOf(zone, value) ==
  IF HasTime(value) THEN LocalWall(zone, value.at) ELSE Midnight(value.at)

-----------------------------------------------------------------------------
(* Moving by whole units *)

\* shift_wall
ShiftWall(wall, n, unit) ==
  CASE unit = "y"  -> AddMonths(wall, 12 * n)
    [] unit = "mo" -> AddMonths(wall, n)
    [] unit = "w"  -> AddDays(wall, 7 * n)
    [] unit = "d"  -> AddDays(wall, n)
    [] OTHER       -> wall + n * FixedSeconds(unit)

ShiftDate(day, n, unit) == DateOf(ShiftWall(Midnight(day), n, unit))

\* Mutant of ShiftInstant: a week is a number of hours.
ShiftInstantWeeks(zone, instant, n, unit) ==
  CASE unit \in FixedUnits \cup {"w"} -> instant + n * FixedSeconds(unit)
    [] OTHER -> LocalToUtc(zone, ShiftWall(LocalWall(zone, instant), n, unit))

\* DateTimeValue::shift
ShiftInstant(zone, instant, n, unit) ==
  IF unit \in FixedUnits
  THEN instant + n * FixedSeconds(unit)
  ELSE LocalToUtc(zone, ShiftWall(LocalWall(zone, instant), n, unit))

-----------------------------------------------------------------------------
(* Moving by durations *)

Rest(part) == (Fract(part.mag, 2) * FixedSeconds(part.unit)) \div 2

\* DateValue::apply_part: whole units, then what is left from midnight on.
ApplyPartToDate(day, part) ==
  IF part.unit \in FixedUnits
  THEN DateOf(Midnight(day) + PartSeconds(part))
  ELSE DateOf(Midnight(ShiftDate(day, Trunc(part.mag, 2), part.unit)) + Rest(part))

ApplyToDate(day, duration) ==
  IF duration.parts = <<>> THEN DateOf(Midnight(day) + duration.seconds)
  ELSE LET parts == duration.parts[1]
           after[k \in 0..Len(parts)] ==
             IF k = 0 THEN day ELSE ApplyPartToDate(after[k - 1], parts[k])
       IN  after[Len(parts)]

\* DateTimeValue::apply_part: the rest moves the local clock as well.
ApplyPartToInstant(zone, instant, part) ==
  IF part.unit \in FixedUnits THEN instant + PartSeconds(part)
  ELSE LET whole == Trunc(part.mag, 2)
           moved == IF whole = 0 THEN instant ELSE ShiftInstant(zone, instant, whole, part.unit)
       IN  IF Rest(part) = 0 THEN moved ELSE LocalToUtc(zone, LocalWall(zone, moved) + Rest(part))

ApplyToInstant(zone, instant, duration) ==
  IF duration.parts = <<>> THEN instant + duration.seconds
  ELSE LET parts == duration.parts[1]
           after[k \in 0..Len(parts)] ==
             IF k = 0 THEN instant ELSE ApplyPartToInstant(zone, after[k - 1], parts[k])
       IN  after[Len(parts)]

-----------------------------------------------------------------------------
(* Points *)

Point(wall, instant, precision) == [wall |-> wall, instant |-> instant, precision |-> precision]

IsTimed(point) == point.precision = "datetime"

PointOf(zone, value, precision) == Point(WallOf(zone, value), InstantOf(zone, value), precision)

\* A timed point at an instant, and a point of a day.
AtInstant(zone, instant, precision) == Point(LocalWall(zone, instant), instant, precision)
OnWall(zone, wall, precision) ==
  Point(wall, LocalToUtc(zone, Midnight(DateOf(wall))), precision)

ShiftPoint(zone, point, n, unit) ==
  IF IsTimed(point)
  THEN AtInstant(zone, ShiftInstant(zone, point.instant, n, unit), point.precision)
  ELSE OnWall(zone, ShiftWall(point.wall, n, unit), point.precision)

ApplyToPoint(zone, point, duration) ==
  IF IsTimed(point)
  THEN AtInstant(zone, ApplyToInstant(zone, point.instant, duration), point.precision)
  ELSE OnWall(zone, Midnight(ApplyToDate(DateOf(point.wall), duration)), point.precision)

\* Mutant of OnDay: the instant is that of the day.
OnDayAtMidnight(zone, point, day) ==
  Point(Midnight(day) + TimeOf(point.wall), LocalToUtc(zone, Midnight(day)), point.precision)

\* Another day at the same time, on the local clock.
OnDay(zone, point, day) ==
  LET wall == Midnight(day) + TimeOf(point.wall)
  IN  IF IsTimed(point) THEN Point(wall, LocalToUtc(zone, wall), point.precision)
                        ELSE OnWall(zone, wall, point.precision)

\* The first or the last day of the month, the ISO week or the year.
Boundary(period, end, day) ==
  LET month == Month(day)
      first == 12 * Year(day)
  IN  CASE period = "month" -> IF end THEN DayAt(month, MonthDays(month)) ELSE DayAt(month, 1)
        [] period = "week"  -> DayOfWeek(day, IF end THEN 6 ELSE 0)
        [] period = "year"  -> IF end THEN DayAt(first + 11, 31) ELSE DayAt(first, 1)

BoundaryPoint(zone, point, period, end) ==
  OnDay(zone, point, Boundary(period, end, DateOf(point.wall)))

-----------------------------------------------------------------------------
(* Differences *)

\* From the earlier to the later, with a sign.
Signed(from, to, Count(_, _)) == IF to >= from THEN Count(from, to) ELSE -Count(to, from)

MonthsSince(from, to) ==
  Month(to) - Month(from) - IF DayOfMonth(to) < DayOfMonth(from) THEN 1 ELSE 0

\* Mutant of SignedMonthsSince: the months on the calendar are counted.
SignedMonthsTouched(from, to) == Month(to) - Month(from)

SignedMonthsSince(from, to) == Signed(from, to, MonthsSince)
SignedYearsSince(from, to) == Signed(from, to, YearsSince)

\* DatePoint::diff of two fixed units: <<n, d>> stands for n / d.
Elapsed(from, to, unit) ==
  IF IsTimed(from) /\ IsTimed(to)
  THEN <<to.instant - from.instant, FixedSeconds(unit)>>
  ELSE <<Trunc(to.wall - from.wall, FixedSeconds(unit)), 1>>

Diff(from, to, unit) ==
  CASE unit = "y"  -> <<SignedYearsSince(DateOf(from.wall), DateOf(to.wall)), 1>>
    [] unit = "mo" -> <<SignedMonthsSince(DateOf(from.wall), DateOf(to.wall)), 1>>
    [] OTHER       -> Elapsed(from, to, unit)
==============================================================================
