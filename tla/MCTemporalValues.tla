--------------------------- MODULE MCTemporalValues ---------------------------
(***************************************************************************)
(* Dates of 2023 to 2025 around leap days, ends of months and years, in    *)
(* zones that change their offset by an hour at night, at midnight, by     *)
(* half an hour, and by a whole day.                                       *)
(***************************************************************************)
EXTENDS TemporalValues

\* 1 January 2020, a Wednesday, is day 0: day 5 is a Monday.
Day(y, m, d) == DayAt(12 * (y - FirstYear) + m - 1, d)
At(day, hour) == Midnight(day) + 2 * hour

Zone(base, changes) == [base |-> base, changes |-> changes]
Change(at, offset) == [at |-> at, offset |-> offset]

Spring == Day(2024, 3, 31)
Autumn == Day(2024, 10, 27)

\* Instants of changes: an hour at 2 and 3 o'clock, an hour at midnight, half
\* an hour at 2 o'clock, and a day left out at midnight.
Night == Zone(2, <<Change(At(Spring, 1), 4), Change(At(Autumn, 1), 2)>>)
AtMidnight == Zone(-6, <<Change(At(Spring, 3), -4), Change(At(Autumn, 2), -6)>>)
HalfHour == Zone(21, <<Change(At(Spring, 2) - 21, 22), Change(At(Autumn, 2) - 22, 21)>>)
Skipped == Zone(-22, <<Change(At(Spring, 11), 26)>>)

Zones == {Night, AtMidnight, HalfHour, Skipped}

D(y, m, d) == [shape |-> "day", at |-> Day(y, m, d)]
M(y, m) == [shape |-> "month", at |-> Day(y, m, 1)]
W(day, ticks) == [shape |-> "wall", at |-> Midnight(day) + ticks]
R(day, ticks) == [shape |-> "rfc3339", at |-> Midnight(day) + ticks]

Texts == { D(2024, 1, 31), D(2024, 2, 29), M(2024, 2), W(Spring, 4), W(Spring - 31, 1),
           W(Autumn, 5), W(Autumn - 1, 47), W(Day(2024, 12, 31), 5), R(Autumn, 3) }

Part1(sign, mag, unit) == Written(sign, mag, unit)

MCLiterals == { <<Part1("", 3, "mo")>>,
                <<Part1("", 2, "y"), Part1("", 2, "d")>>,
                <<Part1("", 1, "d"), Part1("", 2, "h")>>,
                <<Part1("", 3, "w"), Part1("", 1, "h")>> }

MCInputs ==
  {[zone |-> z, text |-> t, duration |-> d] :
     z \in Zones, t \in Texts, d \in {<<Part1("-", 2, "mo"), Part1("", 6, "d")>>}}

MCAmounts == {-1, 5}

MCOthers == { Date(Day(2024, 1, 31)), Date(Day(2024, 3, 30)), Date(Day(2025, 2, 28)),
              DateTime(At(Spring, 1)), DateTime(At(Autumn, 1)), DateTime(At(Day(2024, 2, 29), 12)) }
==============================================================================
