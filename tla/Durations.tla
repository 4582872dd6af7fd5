------------------------------ MODULE Durations ------------------------------
(***************************************************************************)
(* Durations (src/src/duration.rs): a written duration keeps its parts, a  *)
(* magnitude and a unit each, by which dates move by the calendar; one     *)
(* that was measured has none and is a number of seconds. Both compare by  *)
(* their seconds, in which a month counts 30 days and a year 365, and both *)
(* are stored as the text in raw.                                          *)
(*                                                                         *)
(* Magnitudes are counted in halves and seconds in half hours, so that     *)
(* half a unit is the finest a text says. The unit "m" is thirty minutes.  *)
(***************************************************************************)
EXTENDS Integers, Sequences

CalendarUnits == {"y", "mo", "w", "d"}
FixedUnits == {"h", "m"}
Units == CalendarUnits \cup FixedUnits

\* DurationUnit::fixed_seconds
FixedSeconds(unit) ==
  CASE unit = "y"  -> 365 * 48
    [] unit = "mo" -> 30 * 48
    [] unit = "w"  -> 7 * 48
    [] unit = "d"  -> 48
    [] unit = "h"  -> 2
    [] unit = "m"  -> 1

Part(mag, unit) == [mag |-> mag, unit |-> unit]

\* Integer parts and remainders of halves, both with the sign of the whole.
Abs(n) == IF n < 0 THEN -n ELSE n
Sign(n) == IF n < 0 THEN -1 ELSE 1
Trunc(n, d) == Sign(n) * (Abs(n) \div d)
Fract(n, d) == Sign(n) * (Abs(n) % d)

\* Every unit that a text gives halves of has an even number of half hours.
PartSeconds(part) == (part.mag * FixedSeconds(part.unit)) \div 2

FoldParts(parts) ==
  LET total[k \in 0..Len(parts)] == IF k = 0 THEN 0 ELSE total[k - 1] + PartSeconds(parts[k])
  IN  total[Len(parts)]

-----------------------------------------------------------------------------
(* Texts: a sign, or none, a magnitude and a unit for each part *)

Written(sign, mag, unit) == [sign |-> sign, mag |-> mag, unit |-> unit]

Scaled(parts, n) == [k \in DOMAIN parts |-> Part(parts[k].mag * n, parts[k].unit)]

\* scan_duration: the first part alone may be negative, and then all are.
IsDuration(text) == text # <<>> /\ \A k \in DOMAIN text : text[k].sign = "-" => k = 1

\* Mutant of ParsedParts: the sign is that of the first part only.
ParsedPartsApart(text) ==
  [k \in DOMAIN text |-> Part(IF text[k].sign = "-" THEN -text[k].mag ELSE text[k].mag, text[k].unit)]

ParsedParts(text) ==
  Scaled([k \in DOMAIN text |-> Part(text[k].mag, text[k].unit)], IF text[1].sign = "-" THEN -1 ELSE 1)

\* DurationValue: <<parts>> if written, <<>> if measured.
DurationValue(raw, seconds, parts) == [raw |-> raw, seconds |-> seconds, parts |-> parts]

ParseDuration(text) ==
  DurationValue(text, FoldParts(ParsedParts(text)), <<ParsedParts(text)>>)

\* canonical_raw: weeks and less, as a month and a year are not always as long.
Decomposition == <<"w", "d", "h", "m">>

\* The part of the k-th unit, if it has any.
Counted(seconds, k) ==
  LET above == IF k = 1 THEN seconds ELSE seconds % FixedSeconds(Decomposition[k - 1])
      count == above \div FixedSeconds(Decomposition[k])
  IN  IF count = 0 THEN <<>> ELSE <<Written("", 2 * count, Decomposition[k])>>

CanonicalRaw(seconds) ==
  LET size == Abs(seconds)
      raw == Counted(size, 1) \o Counted(size, 2) \o Counted(size, 3) \o Counted(size, 4)
  IN  IF seconds = 0 THEN <<Written("", 0, "m")>>
      ELSE [raw EXCEPT ![1].sign = IF seconds < 0 THEN "-" ELSE ""]

FromSeconds(seconds) == DurationValue(CanonicalRaw(seconds), seconds, <<>>)
FromParts(parts) == DurationValue(CanonicalRaw(FoldParts(parts)), FoldParts(parts), <<parts>>)

-----------------------------------------------------------------------------
(* Arithmetic *)

\* combine: the sum is written if both are.
Combine(lhs, rhs, sign) ==
  IF lhs.parts # <<>> /\ rhs.parts # <<>>
  THEN FromParts(lhs.parts[1] \o Scaled(rhs.parts[1], sign))
  ELSE FromSeconds(lhs.seconds + sign * rhs.seconds)

Times(duration, n) ==
  IF duration.parts # <<>> THEN FromParts(Scaled(duration.parts[1], n))
                           ELSE FromSeconds(duration.seconds * n)
==============================================================================
