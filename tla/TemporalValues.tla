---------------------------- MODULE TemporalValues ----------------------------
(***************************************************************************)
(* One date worked on in two places: as a value in the expressions of a    *)
(* query's filter (src/src/query/grammar/filter.rs), and as a text that    *)
(* every filter of a template reads and writes again                       *)
(* (src/src/template/engine/date.rs). Each step is taken in both, by the   *)
(* function of each front end that is documented to do the same.           *)
(*                                                                         *)
(* Texts are read and written in the zone of the process. A template's     *)
(* text is formatted at the precision it was given in.                     *)
(***************************************************************************)
EXTENDS DateValues

LOCAL INSTANCE FiniteSetsExt

CONSTANTS
  Inputs,    \* [zone, text, duration] to begin with
  Amounts,   \* whole numbers to move by
  Literals,  \* texts of durations
  Others,    \* dates and date-times to subtract from, and to measure to
  MaxSteps

\* Less than a day on either side of UTC, as chrono's FixedOffset
FixedOffset == (1 - DayTicks)..(DayTicks - 1)

HasOffsets(zone) ==
  /\ zone.base \in FixedOffset
  /\ zone.changes \in Seq([at : Int, offset : FixedOffset])

OffsetBefore(zone, k) == IF k = 1 THEN zone.base ELSE zone.changes[k - 1].offset

\* The changes are two days apart and put the clock forward by 25 hours at most,
\* which is as far as resolve_gap_offset looks back.
IsZone(zone) ==
  /\ HasOffsets(zone)
  /\ \A j, k \in DOMAIN zone.changes : j < k => zone.changes[k].at - zone.changes[j].at >= 2 * DayTicks
  /\ \A k \in DOMAIN zone.changes : zone.changes[k].offset - OffsetBefore(zone, k) <= 25 * Hour

WrittenParts == [sign : {"", "-"}, mag : Int, unit : Units]

\* What scan_duration accepts, in whole half hours
IsLiteral(text) ==
  /\ text \in Seq(WrittenParts) /\ IsDuration(text)
  /\ \A k \in DOMAIN text : text[k].unit = "m" => text[k].mag % 2 = 0

IsValue(v) == v \in [kind : {"date", "datetime"}, at : Int]

ASSUME InputsAssumption ==
  /\ \A input \in Inputs :
       /\ IsZone(input.zone)
       /\ input.text \in [shape : {"month", "day", "wall", "rfc3339"}, at : Int]
       /\ IsLiteral(input.duration)
  /\ Amounts \subseteq Int \ {0}
  /\ \A literal \in Literals : IsLiteral(literal) /\ literal[1].sign = ""
  /\ \A other \in Others : IsValue(other)
  /\ MaxSteps \in Nat

VARIABLES zone, value, text, duration, lost, steps
vars == <<zone, value, text, duration, lost, steps>>

-----------------------------------------------------------------------------
(* Texts of dates *)

Text(shape, at) == [shape |-> shape, at |-> at]

\* A month, a day, a reading of the local clock, or an RFC 3339 instant.
Precision(t) == IF t.shape \in {"wall", "rfc3339"} THEN "datetime" ELSE t.shape

\* DateValue::classify: a month begins at its first day.
Classify(t) ==
  CASE t.shape = "month"   -> Date(DayAt(Month(t.at), 1))
    [] t.shape = "day"     -> Date(t.at)
    [] t.shape = "wall"    -> DateTime(LocalToUtc(zone, t.at))
    [] t.shape = "rfc3339" -> DateTime(t.at)

\* Precision::format_pattern
Format(point) ==
  CASE point.precision = "month"    -> Text("month", DayAt(Month(DateOf(point.wall)), 1))
    [] point.precision = "day"      -> Text("day", DateOf(point.wall))
    [] point.precision = "datetime" -> Text("wall", point.wall)

Recognized(t) == PointOf(zone, Classify(t), Precision(t))

-----------------------------------------------------------------------------
(* Value expressions of a query *)

PointOfValue(v) == PointOf(zone, v, IF HasTime(v) THEN "datetime" ELSE "day")

ValueOf(v, point) == IF HasTime(v) THEN DateTime(point.instant) ELSE Date(DateOf(point.wall))

\* value + duration and value - duration
Plus(v, d) ==
  IF HasTime(v) THEN DateTime(ApplyToInstant(zone, v.at, d)) ELSE Date(ApplyToDate(v.at, d))
Minus(v, d) == Plus(v, Times(d, -1))

\* to - from: diff in seconds
Between(from, to) ==
  FromSeconds(Diff(PointOfValue(from), PointOfValue(to), "m")[1])

DateAdd(v, n, unit) == ValueOf(v, ShiftPoint(zone, PointOfValue(v), n, unit))

DateBoundary(v, period, end) == ValueOf(v, BoundaryPoint(zone, PointOfValue(v), period, end))

-----------------------------------------------------------------------------
(* Filters and shorthands of a template *)

DateShiftUnit(t, n, unit) == Format(ShiftPoint(zone, Recognized(t), n, unit))

BoundaryOf(t, period, end) == Format(BoundaryPoint(zone, Recognized(t), period, end))

\* translate_iso_offset: a sign before the P and one behind it cancel out.
TranslateIso(lead, inner, literal) ==
  [literal EXCEPT ![1].sign = IF lead # inner THEN "-" ELSE ""]

\* resolve_shorthand with the text as its reference and the format of its
\* precision
WithOffset(t, offset) == Format(ApplyToPoint(zone, Recognized(t), ParseDuration(offset)))

-----------------------------------------------------------------------------
(* Steps *)

\* The instants at which the local clock reads a wall
Showing(wall) == {i \in {wall - offset : offset \in Offsets(zone)} : LocalWall(zone, i) = wall}

\* A text does not tell the second of two instants with one reading, and a
\* month does not tell its days.
Loses(v, precision) ==
  IF HasTime(v) THEN v.at # Min(Showing(LocalWall(zone, v.at)))
                ELSE precision = "month" /\ DayOfMonth(v.at) # 1

Init ==
  /\ \E input \in Inputs :
       zone = input.zone /\ text = input.text /\ duration = ParseDuration(input.duration)
  /\ value = Classify(text)
  /\ lost = FALSE
  /\ steps = 0

Work(newValue, newText) ==
  /\ value' = newValue
  /\ text' = newText
  /\ UNCHANGED duration

IsLost(newValue) == lost \/ Loses(newValue, Precision(text))

\* Hours, minutes or seconds that take a text of no time to another day.
LeavesDay(n, unit) ==
  /\ unit \in FixedUnits /\ Precision(text) # "datetime"
  /\ DateShiftUnit(text, n, unit) # text

Shift ==
  \E n \in Amounts, unit \in Units :
    LET newValue == DateAdd(value, n, unit)
    IN  /\ Work(newValue, DateShiftUnit(text, n, unit))
        /\ lost' = (IsLost(newValue) \/ LeavesDay(n, unit))

MoveToBoundary ==
  \E period \in {"week", "month", "year"}, end \in BOOLEAN :
    LET newValue == DateBoundary(value, period, end)
    IN  Work(newValue, BoundaryOf(text, period, end)) /\ lost' = IsLost(newValue)

Offset ==
  \E literal \in Literals, lead, inner \in {"", "-"} :
    LET offset   == ParseDuration(literal)
        newValue == IF lead = inner THEN Plus(value, offset) ELSE Minus(value, offset)
    IN  /\ Work(newValue, WithOffset(text, TranslateIso(lead, inner, literal)))
        /\ lost' = IsLost(newValue)

\* The text of the value itself: a template shows a row of the query.
ShowRow(newValue) ==
  /\ value' = newValue
  /\ text' = Format(PointOfValue(newValue))
  /\ lost' = Loses(newValue, "day")
  /\ UNCHANGED duration

\* The query adds its duration, and a template goes on from the result.
AddDuration == ShowRow(Plus(value, duration)) \/ ShowRow(Minus(value, duration))

\* The note that a template wrote is indexed.
Index ==
  /\ value' = Classify(text)
  /\ lost' = FALSE
  /\ UNCHANGED <<text, duration>>

Calculate ==
  /\ \/ \E literal \in Literals, sign \in {1, -1} :
          duration' = Combine(duration, ParseDuration(literal), sign)
     \/ \E n \in Amounts : duration' = Times(duration, n)
     \/ \E other \in Others : duration' = Between(other, value)
  /\ UNCHANGED <<value, text, lost>>

Next ==
  /\ steps < MaxSteps /\ steps' = steps + 1 /\ UNCHANGED zone
  /\ Shift \/ MoveToBoundary \/ Offset \/ AddDuration \/ Index \/ Calculate

Spec == Init /\ [][Next]_vars

-----------------------------------------------------------------------------
(* Properties *)

\* What a wall means: of the instants at which the local clock reads it the
\* first; and if the clock skips it, as much later as the clock is put forward.
Means(wall, instant) ==
  LET Skips(k) == LET at == zone.changes[k].at
                  IN  at + OffsetBefore(zone, k) <= wall /\ wall < at + zone.changes[k].offset
  IN  IF Showing(wall) # {} THEN instant = Min(Showing(wall))
      ELSE \E k \in DOMAIN zone.changes :
             Skips(k) /\ LocalWall(zone, instant) = wall + zone.changes[k].offset - OffsetBefore(zone, k)

\* Every reading of a clock has an instant, and it is the one that is meant:
\* local_naive_to_utc, with the offsets it is given and those it searches for.
WallsResolve ==
  steps = 0 =>
    LET wall == WallOf(zone, value)
    IN  \A w \in (wall - DayTicks)..(wall + DayTicks) : Means(w, LocalToUtc(zone, w))

\* A shift by days or more keeps the time on the clock, also across changes of
\* the offset, and the opposite undoes it unless the day had to give way to a
\* shorter month, or the time to a change; a shift by hours is elapsed time.
\* What moves a date by a number of units and what moves it by a duration, or
\* with a point, agree.
ShiftsAgree ==
  \A n \in Amounts, unit \in Units :
    LET wall == WallOf(zone, value)
        there == ShiftWall(wall, n, unit)
        moved == DateAdd(value, n, unit)
        IsExact == WallOf(zone, moved) = there /\ ~Loses(value, "day")
    IN  /\ moved = Plus(value, FromParts(<<Part(2 * n, unit)>>))
        /\ moved.at = ApplyToPoint(zone, PointOfValue(value), FromParts(<<Part(2 * n, unit)>>)).instant
           \/ ~HasTime(value)
        /\ HasTime(value) /\ unit \in FixedUnits => moved.at - value.at = n * FixedSeconds(unit)
        /\ HasTime(value) /\ unit \in CalendarUnits => Means(there, moved.at)
        /\ unit \in CalendarUnits /\ IsExact /\ DayOfMonth(DateOf(there)) >= DayOfMonth(DateOf(wall))
             => DateAdd(moved, -n, unit) = value

\* The difference in months or years moves the earlier date up to the later one
\* and one more would move it past that, save for days cut off; it turns its
\* sign with the order, and years are twelve months. What is elapsed between
\* two values of a kind leads from one to the other.
DiffsMeasure ==
  \A other \in Others :
    LET here == PointOfValue(value)
        there == PointOfValue(other)
        InMonths(from, to) == Diff(from, to, "mo")[1]
        Reaches(from, to) ==
          LET n == InMonths(from, to)
              day == DateOf(to.wall)
              After(k) == ShiftDate(DateOf(from.wall), k, "mo")
          IN  /\ After(n) <= day /\ day <= After(n + 1)
              /\ day = After(n + 1) => DayOfMonth(day) < DayOfMonth(DateOf(from.wall))
    IN  /\ IF DateOf(here.wall) <= DateOf(there.wall) THEN Reaches(here, there) ELSE Reaches(there, here)
        /\ InMonths(here, there) = -InMonths(there, here)
        /\ Diff(here, there, "y")[1] = Trunc(InMonths(here, there), 12)
        /\ HasTime(value) = HasTime(other) => Plus(value, Between(value, other)) = other
        /\ HasTime(other) /\ ~HasTime(value) => Plus(value, Between(value, other)) = Date(DateOf(there.wall))

\* A duration is as long as its text says and as its parts say together, also
\* after sums, differences and products of written and of measured ones: it is
\* stored as that text and compared by its length.
DurationsFold ==
  /\ IsDuration(duration.raw) /\ ParseDuration(duration.raw).seconds = duration.seconds
  /\ duration.parts # <<>> => FoldParts(duration.parts[1]) = duration.seconds
  /\ \A literal \in Literals, sign \in {1, -1} :
       LET other == ParseDuration(literal)
       IN  Combine(duration, other, sign).seconds = duration.seconds + sign * other.seconds

\* As long as no step came upon what a text cannot tell, the template's text
\* says what the query's value is, whatever the steps and the changes of the
\* offset on the way. Nothing is said once date_add or date_sub took a text of
\* no time to another day by hours, which their docs rule out.
FrontEndsAgree == ~lost => Classify(text) = value
==============================================================================
