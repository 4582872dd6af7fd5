------------------------ MODULE TemporalValues_proofs ------------------------
(***************************************************************************)
(* What every zone, every day of the calendar and every duration keep: a   *)
(* reading of the clock stands for the instant that is meant; shifts and   *)
(* differences undo and measure each other; a duration is as long as it    *)
(* says; and the two front ends agree.                                     *)
(***************************************************************************)
EXTENDS TemporalValues, TLAPS

LOCAL INSTANCE FiniteSetsExt

Orders == INSTANCE WellFoundedInduction

-----------------------------------------------------------------------------
(* Greatest members *)

\* A set of natural numbers has a least one.
LEMMA LeastNatural ==
  ASSUME NEW T, T \subseteq Nat, T # {}
  PROVE  \E x \in T : \A y \in T : x <= y
<1> DEFINE R == Orders!OpToRel(<, Nat)
<1>0. \A x, y \in Nat : <<x, y>> \in R <=> x < y
  BY DEF Orders!OpToRel
<1>1. Orders!IsWellFoundedOn(R, Nat)
  BY ONLY Orders!NatLessThanWellFounded
<1> HIDE DEF R
<1>2. PICK x \in T : \A y \in T : <<y, x>> \notin R
  BY <1>1, Orders!WFMin
<1>3. \A y \in T : x <= y
  <2> TAKE y \in T
  <2>1. x \in Nat /\ y \in Nat
    OBVIOUS
  <2>2. ~(y < x)
    BY <1>0, <1>2, <2>1
  <2> QED  BY <2>1, <2>2
<1> QED
  BY <1>3

\* Max chooses the greatest of a set of bounded integers.
LEMMA MaxIsGreatest ==
  ASSUME NEW S, S \subseteq Int, S # {}, NEW b \in Int, \A x \in S : x <= b
  PROVE  Max(S) \in S /\ \A y \in S : y <= Max(S)
<1> DEFINE T == {b - x : x \in S}
<1>1. T \subseteq Nat
  <2> SUFFICES ASSUME NEW x \in S PROVE b - x \in Nat
    OBVIOUS
  <2> x \in Int /\ x <= b
    OBVIOUS
  <2> QED  OBVIOUS
<1>2. T # {}
  OBVIOUS
<1>3. PICK t \in T : \A y \in T : t <= y
  <2> HIDE DEF T
  <2> QED  BY <1>1, <1>2, LeastNatural
<1>4. PICK x \in S : t = b - x
  BY <1>3
<1>5. \A y \in S : x >= y
  <2> TAKE y \in S
  <2>1. b - x <= b - y
    BY <1>3, <1>4
  <2>2. x \in Int /\ y \in Int
    OBVIOUS
  <2> QED  BY <2>1, <2>2
<1>6. Max(S) \in S /\ \A y \in S : Max(S) >= y
  BY <1>5 DEF Max
<1>7. ASSUME NEW y \in S PROVE y <= Max(S)
  <2>1. y \in Int /\ Max(S) \in Int
    BY <1>6
  <2> QED  BY <1>6, <2>1
<1> QED
  BY <1>6, <1>7

\* Min chooses the least.
LEMMA MinIsLeast ==
  ASSUME NEW S, NEW least \in S, \A y \in S : y \in Int /\ least <= y
  PROVE  Min(S) = least
<1>1. Min(S) \in S /\ \A y \in S : Min(S) <= y
  <2>1. \E x \in S : \A y \in S : x <= y
    OBVIOUS
  <2> QED  BY <2>1 DEF Min
<1>2. Min(S) \in Int /\ least \in Int /\ least <= Min(S) /\ Min(S) <= least
  BY <1>1
<1> QED
  BY <1>2

-----------------------------------------------------------------------------
\* The clock is at any instant on one of the offsets of its zone.
LEMMA OffsetAtIsOffset ==
  ASSUME NEW z, HasOffsets(z), NEW instant \in Int
  PROVE  /\ OffsetAt(z, instant) \in Offsets(z)
         /\ Offsets(z) \subseteq FixedOffset
<1> DEFINE past == {k \in DOMAIN z.changes : z.changes[k].at <= instant}
           Change == [at : Int, offset : FixedOffset]
<1>1. \A k \in DOMAIN z.changes :
        k \in Int /\ k <= Len(z.changes) /\ z.changes[k].offset \in FixedOffset
  <2>1. z.changes \in Seq(Change)
    BY DEF HasOffsets
  <2>2. \A k \in DOMAIN z.changes : k \in 1..Len(z.changes) /\ z.changes[k] \in Change
    <3> HIDE DEF Change
    <3> QED  BY <2>1
  <2>3. Len(z.changes) \in Nat
    <3> HIDE DEF Change
    <3> QED  BY <2>1
  <2> QED  BY <2>2, <2>3
<1>2. past # {} => Max(past) \in past
  <2>1. past \subseteq Int /\ Len(z.changes) \in Int /\ \A k \in past : k <= Len(z.changes)
    BY <1>1 DEF HasOffsets
  <2> HIDE DEF past
  <2> QED  BY <2>1, MaxIsGreatest
<1> QED
  BY <1>1, <1>2 DEF OffsetAt, Offsets, HasOffsets

\* A reading the clock does show is given the first instant that shows it
\* (local_naive_to_utc, of an ambiguous reading as of a single one).
THEOREM ReadingsResolve ==
  ASSUME NEW z, HasOffsets(z), NEW wall \in Int, LocalOffsets(z, wall) # {}
  PROVE  /\ LocalToUtc(z, wall) \in Int
         /\ LocalWall(z, LocalToUtc(z, wall)) = wall
         /\ \A i \in Int : LocalWall(z, i) = wall => LocalToUtc(z, wall) <= i
<1> DEFINE offsets == LocalOffsets(z, wall)
           latest == Max(offsets)
<1>1. Offsets(z) \subseteq FixedOffset /\ \A i \in Int : OffsetAt(z, i) \in Offsets(z)
  BY OffsetAtIsOffset, 0 \in Int
<1>2. offsets \subseteq Offsets(z) /\ \A o \in offsets : OffsetAt(z, wall - o) = o
  BY DEF LocalOffsets
<1>3. offsets \subseteq Int /\ \A o \in offsets : o <= 47
  BY <1>1, <1>2 DEF FixedOffset, DayTicks
<1>4. latest \in offsets /\ \A o \in offsets : o <= latest
  BY <1>3, MaxIsGreatest
<1>5. LocalToUtc(z, wall) = wall - latest
  BY DEF LocalToUtc, ResolvedOffset
<1>6. ASSUME NEW i \in Int, LocalWall(z, i) = wall
      PROVE  wall - latest <= i
  <2>1. OffsetAt(z, i) \in offsets
    <3>1. OffsetAt(z, i) \in FixedOffset
      BY <1>1
    <3>2. wall - OffsetAt(z, i) = i
      BY <1>6, <3>1 DEF LocalWall, FixedOffset, DayTicks
    <3> QED  BY <1>1, <3>2 DEF LocalOffsets
  <2> QED
    BY <2>1, <1>3, <1>4, <1>6 DEF LocalWall
<1>7. wall - latest \in Int /\ LocalWall(z, wall - latest) = wall
  BY <1>2, <1>3, <1>4 DEF LocalWall
<1> QED
  BY <1>5, <1>6, <1>7

-----------------------------------------------------------------------------
\* What a date-time shows is read back as an instant that shows the same, and
\* never a later one (Display and parse of DateTimeValue).
THEOREM ShownReadsBack ==
  ASSUME NEW z, HasOffsets(z), NEW instant \in Int
  PROVE  LET read == LocalToUtc(z, LocalWall(z, instant))
         IN  /\ read \in Int /\ read <= instant
             /\ LocalWall(z, read) = LocalWall(z, instant)
<1> DEFINE wall == LocalWall(z, instant)
           offset == OffsetAt(z, instant)
<1>1. offset \in Offsets(z) /\ offset \in FixedOffset
  BY OffsetAtIsOffset
<1>2. offset \in Int
  BY <1>1 DEF FixedOffset, DayTicks
<1>3. wall \in Int /\ wall - offset = instant
  BY <1>2 DEF LocalWall
<1>4. LocalOffsets(z, wall) # {}
  BY <1>1, <1>3 DEF LocalOffsets
<1> QED
  BY <1>3, <1>4, ReadingsResolve

\* A shift by days that ends on a reading the clock shows keeps the time of day
\* whatever the zone does in between, and the opposite shift comes back to what
\* the clock showed, at the first instant of it (DateTimeValue::shift).
THEOREM DaysKeepTheClock ==
  ASSUME NEW z, HasOffsets(z), NEW instant \in Int, NEW n \in Int,
         LocalOffsets(z, LocalWall(z, instant) + n * DayTicks) # {}
  PROVE  LET there == ShiftInstant(z, instant, n, "d")
             back == ShiftInstant(z, there, -n, "d")
         IN  /\ there \in Int
             /\ LocalWall(z, there) = LocalWall(z, instant) + n * DayTicks
             /\ LocalWall(z, back) = LocalWall(z, instant)
             /\ back <= instant
<1> DEFINE wall == LocalWall(z, instant)
           there == ShiftInstant(z, instant, n, "d")
           back == ShiftInstant(z, there, -n, "d")
<1>1. wall \in Int
  BY OffsetAtIsOffset DEF LocalWall, FixedOffset, DayTicks
<1>2. \A i, m \in Int : ShiftInstant(z, i, m, "d") = LocalToUtc(z, LocalWall(z, i) + m * DayTicks)
  BY DEF ShiftInstant, ShiftWall, AddDays, FixedUnits
<1>3. /\ there \in Int
      /\ LocalWall(z, there) = wall + n * DayTicks
  <2> DEFINE target == wall + n * DayTicks
  <2>1. target \in Int
    BY <1>1 DEF DayTicks
  <2>2. there = LocalToUtc(z, target)
    BY <1>2
  <2> HIDE DEF there
  <2> QED  BY <2>1, <2>2, ReadingsResolve
<1>4. back = LocalToUtc(z, wall)
  <2>1. -n \in Int /\ (wall + n * DayTicks) + (-n) * DayTicks = wall
    BY <1>1 DEF DayTicks
  <2> QED  BY <1>2, <1>3, <2>1
<1> QED
  BY <1>3, <1>4, ShownReadsBack

-----------------------------------------------------------------------------
(* Readings that the clock skips *)

\* What a zone is made of, in numbers.
LEMMA ZoneFacts ==
  ASSUME NEW z, IsZone(z)
  PROVE  /\ Len(z.changes) \in Nat /\ DOMAIN z.changes = 1..Len(z.changes)
         /\ \A k \in DOMAIN z.changes :
              /\ z.changes[k].at \in Int
              /\ z.changes[k].offset \in FixedOffset /\ z.changes[k].offset \in Offsets(z)
              /\ OffsetBefore(z, k) \in FixedOffset /\ OffsetBefore(z, k) \in Offsets(z)
              /\ z.changes[k].offset - OffsetBefore(z, k) <= 50
         /\ \A j, k \in DOMAIN z.changes : j < k => z.changes[k].at - z.changes[j].at >= 96
<1> DEFINE Change == [at : Int, offset : FixedOffset]
<1>1. z.changes \in Seq(Change) /\ z.base \in FixedOffset
  BY DEF IsZone, HasOffsets
<1>2. /\ Len(z.changes) \in Nat /\ DOMAIN z.changes = 1..Len(z.changes)
      /\ \A k \in DOMAIN z.changes : z.changes[k] \in Change
  <2> HIDE DEF Change
  <2> QED  BY <1>1
<1>3. \A k \in DOMAIN z.changes :
        /\ z.changes[k].at \in Int
        /\ z.changes[k].offset \in FixedOffset /\ z.changes[k].offset \in Offsets(z)
  BY <1>2 DEF Offsets
<1>4. ASSUME NEW k \in DOMAIN z.changes
      PROVE  OffsetBefore(z, k) \in FixedOffset /\ OffsetBefore(z, k) \in Offsets(z)
  <2>1. CASE k = 1
    BY <1>1, <2>1 DEF OffsetBefore, Offsets
  <2>2. CASE k # 1
    <3>1. k - 1 \in DOMAIN z.changes
      BY <1>2, <2>2
    <3> QED  BY <1>3, <2>2, <3>1 DEF OffsetBefore
  <2> QED  BY <2>1, <2>2
<1>5. \A k \in DOMAIN z.changes : z.changes[k].offset - OffsetBefore(z, k) <= 50
  BY DEF IsZone, Hour
<1>6. \A j, k \in DOMAIN z.changes : j < k => z.changes[k].at - z.changes[j].at >= 96
  BY DEF IsZone, DayTicks
<1> QED
  BY <1>2, <1>3, <1>4, <1>5, <1>6

LEMMA ChangeFacts ==
  ASSUME NEW z, IsZone(z), NEW k \in DOMAIN z.changes
  PROVE  /\ z.changes[k].at \in Int
         /\ z.changes[k].offset \in Int /\ z.changes[k].offset \in Offsets(z)
         /\ OffsetBefore(z, k) \in Int /\ OffsetBefore(z, k) \in Offsets(z)
         /\ z.changes[k].offset >= -47 /\ z.changes[k].offset <= 47
         /\ OffsetBefore(z, k) >= -47 /\ OffsetBefore(z, k) <= 47
         /\ z.changes[k].offset - OffsetBefore(z, k) <= 50
<1>1. /\ z.changes[k].at \in Int
      /\ z.changes[k].offset \in FixedOffset /\ z.changes[k].offset \in Offsets(z)
      /\ OffsetBefore(z, k) \in FixedOffset /\ OffsetBefore(z, k) \in Offsets(z)
      /\ z.changes[k].offset - OffsetBefore(z, k) <= 50
  BY ZoneFacts
<1>2. \A o \in FixedOffset : o \in Int /\ o >= -47 /\ o <= 47
  BY DEF FixedOffset, DayTicks
<1> QED
  BY <1>1, <1>2

\* The offset of a change holds for two days, the one before held for two days.
LEMMA OffsetNear ==
  ASSUME NEW z, IsZone(z), NEW k \in DOMAIN z.changes, NEW i \in Int
  PROVE  /\ z.changes[k].at <= i /\ i < z.changes[k].at + 96 => OffsetAt(z, i) = z.changes[k].offset
         /\ z.changes[k].at - 96 <= i /\ i < z.changes[k].at => OffsetAt(z, i) = OffsetBefore(z, k)
<1> DEFINE At(j) == z.changes[j].at
           past == {j \in DOMAIN z.changes : At(j) <= i}
           N == Len(z.changes)
<1>1. N \in Nat /\ DOMAIN z.changes = 1..N /\ \A j \in 1..N : At(j) \in Int
  BY ZoneFacts
<1>2. \A j, m \in 1..N : j < m => At(m) - At(j) >= 96
  BY <1>1, ZoneFacts
<1>3. OffsetAt(z, i) = IF past = {} THEN z.base ELSE z.changes[Max(past)].offset
  BY DEF OffsetAt
<1>4. k \in 1..N
  BY <1>1
<1>5. past = {j \in 1..N : At(j) <= i}
  BY <1>1
<1> HIDE DEF At, past, N
<1>6. past # {} => Max(past) \in past /\ \A j \in past : j <= Max(past)
  <2>1. past \subseteq Int /\ N \in Int /\ \A j \in past : j <= N
    BY <1>1, <1>5
  <2> QED  BY <2>1, MaxIsGreatest
<1>7. ASSUME At(k) <= i, i < At(k) + 96
      PROVE  OffsetAt(z, i) = z.changes[k].offset
  <2>1. k \in past
    BY <1>4, <1>5, <1>7
  <2>2. \A j \in past : j <= k
    BY <1>1, <1>2, <1>4, <1>5, <1>7
  <2>3. Max(past) \in Int /\ k \in Int /\ Max(past) <= k /\ k <= Max(past)
    BY <1>5, <1>6, <2>1, <2>2
  <2> QED  BY <1>3, <2>1, <2>3
<1>8. ASSUME At(k) - 96 <= i, i < At(k)
      PROVE  OffsetAt(z, i) = OffsetBefore(z, k)
  <2>1. \A j \in past : j < k
    BY <1>1, <1>2, <1>4, <1>5, <1>8
  <2>2. CASE k = 1
    <3>1. past = {}
      BY <1>5, <2>1, <2>2
    <3> QED  BY <1>3, <2>2, <3>1 DEF OffsetBefore
  <2>3. CASE k # 1
    <3>1. k - 1 \in 1..N /\ At(k) - At(k - 1) >= 96 /\ At(k - 1) \in Int /\ At(k) \in Int
      BY <1>1, <1>2, <1>4, <2>3
    <3>2. k - 1 \in past
      BY <1>5, <1>8, <3>1
    <3>3. Max(past) = k - 1
      BY SMTT(90), <1>1, <1>4, <1>5, <1>6, <2>1, <3>2
    <3> QED  BY <1>3, <2>3, <3>2, <3>3 DEF OffsetBefore
  <2> QED  BY <2>2, <2>3
<1> QED
  BY <1>7, <1>8 DEF At

\* The offset is that of half an hour ago unless it changes just now.
LEMMA OffsetChanges ==
  ASSUME NEW z, IsZone(z), NEW i \in Int, OffsetAt(z, i) # OffsetAt(z, i - 1)
  PROVE  \E k \in DOMAIN z.changes : z.changes[k].at = i
<1>1. SUFFICES ASSUME \A k \in DOMAIN z.changes : z.changes[k].at # i
               PROVE  FALSE
  OBVIOUS
<1>2. \A k \in DOMAIN z.changes : z.changes[k].at <= i <=> z.changes[k].at <= i - 1
  BY <1>1, ZoneFacts
<1>3. {k \in DOMAIN z.changes : z.changes[k].at <= i} = {k \in DOMAIN z.changes : z.changes[k].at <= i - 1}
  BY <1>2
<1> QED
  BY <1>3 DEF OffsetAt

\* A reading that the clock skips lies in one of its changes: the clock shows
\* less two days ago and more in two days, and where it comes to show more it
\* is put forward.
LEMMA SkippedInChange ==
  ASSUME NEW z, IsZone(z), NEW wall \in Int, LocalOffsets(z, wall) = {}
  PROVE  \E k \in DOMAIN z.changes :
           /\ z.changes[k].at + OffsetBefore(z, k) <= wall
           /\ wall < z.changes[k].at + z.changes[k].offset
<1> DEFINE Shown(i) == LocalWall(z, i)
           late == {j \in Nat : Shown(wall - 48 + j) > wall}
<1>1. HasOffsets(z)
  BY DEF IsZone
<1>2. \A i \in Int : OffsetAt(z, i) \in FixedOffset /\ OffsetAt(z, i) \in Offsets(z)
  BY <1>1, OffsetAtIsOffset
<1>3. \A i \in Int : Shown(i) \in Int /\ Shown(i) >= i - 47 /\ Shown(i) <= i + 47
  BY <1>2 DEF LocalWall, FixedOffset, DayTicks
<1>4. ASSUME NEW i \in Int, Shown(i) = wall
      PROVE  FALSE
  <2>1. OffsetAt(z, i) \in Int /\ wall - OffsetAt(z, i) = i
    BY <1>2, <1>4 DEF LocalWall, FixedOffset, DayTicks
  <2>2. OffsetAt(z, i) \in LocalOffsets(z, wall)
    BY <1>2, <2>1 DEF LocalOffsets
  <2> QED  BY <2>2
<1>5. 96 \in late
  <2>1. wall - 48 + 96 = wall + 48
    OBVIOUS
  <2>2. Shown(wall + 48) > wall
    BY <1>3
  <2> QED  BY <2>1, <2>2
<1>6. PICK j \in late : \A n \in late : j <= n
  <2>1. late \subseteq Nat
    OBVIOUS
  <2> HIDE DEF late
  <2> QED  BY <1>5, <2>1, LeastNatural
<1>7. j # 0
  BY <1>3, <1>6
<1> DEFINE i == wall - 48 + j
<1>8. i \in Int /\ Shown(i) > wall /\ Shown(i - 1) < wall
  <2>1. j \in Nat /\ j - 1 \in Nat /\ wall - 48 + (j - 1) = i - 1 /\ i \in Int /\ i - 1 \in Int
    BY <1>6, <1>7
  <2>2. ~(Shown(i - 1) > wall)
    <3>1. j - 1 \notin late
      BY <1>6, <2>1
    <3> QED  BY <2>1, <3>1
  <2>3. Shown(i - 1) # wall /\ Shown(i - 1) \in Int
    BY <1>3, <1>4, <2>1
  <2> QED  BY <1>6, <2>1, <2>2, <2>3
<1> HIDE DEF i, late
<1>9. PICK k \in DOMAIN z.changes : z.changes[k].at = i
  <2>1. OffsetAt(z, i) # OffsetAt(z, i - 1)
    BY <1>2, <1>8 DEF LocalWall, FixedOffset, DayTicks
  <2> QED  BY <1>8, <2>1, OffsetChanges
<1>10. OffsetAt(z, i) = z.changes[k].offset /\ OffsetAt(z, i - 1) = OffsetBefore(z, k)
  <2>1. /\ i - 1 \in Int /\ i \in Int
        /\ z.changes[k].at <= i /\ i < z.changes[k].at + 96
        /\ z.changes[k].at - 96 <= i - 1 /\ i - 1 < z.changes[k].at
    BY <1>8, <1>9
  <2> QED  BY <2>1, OffsetNear
<1>11. z.changes[k].offset \in Int /\ OffsetBefore(z, k) \in Int
  BY ChangeFacts
<1>12. i + z.changes[k].offset > wall /\ i - 1 + OffsetBefore(z, k) < wall
  BY <1>8, <1>10 DEF LocalWall
<1> QED
  BY <1>8, <1>9, <1>11, <1>12

\* Around a change by which the clock is put forward, the readings it skips
\* stand for nothing and the hour before them for instants before the change.
LEMMA OffsetsAroundSkip ==
  ASSUME NEW z, IsZone(z), NEW k \in DOMAIN z.changes, NEW v \in Int,
         v < z.changes[k].at + z.changes[k].offset,
         z.changes[k].at + OffsetBefore(z, k) - 2 <= v
  PROVE  LocalOffsets(z, v) = IF z.changes[k].at + OffsetBefore(z, k) <= v THEN {} ELSE {OffsetBefore(z, k)}
<1> DEFINE at == z.changes[k].at
           offset == z.changes[k].offset
           before == OffsetBefore(z, k)
<1>1. /\ at \in Int /\ offset \in Int /\ before \in Int /\ before \in Offsets(z)
      /\ before >= -47 /\ before <= 47 /\ offset >= -47 /\ offset <= 47
  BY ChangeFacts
<1>2. \A i \in Int : /\ at <= i /\ i < at + 96 => OffsetAt(z, i) = offset
                     /\ at - 96 <= i /\ i < at => OffsetAt(z, i) = before
  BY OffsetNear
<1>3. Offsets(z) \subseteq FixedOffset
  BY OffsetAtIsOffset, 0 \in Int DEF IsZone
<1>0. v < at + offset /\ at + before - 2 <= v
  OBVIOUS
<1> HIDE DEF at, offset, before
<1>4. ASSUME NEW x \in LocalOffsets(z, v)
      PROVE  x = before /\ v - before < at
  <2>1. x \in Int /\ x >= -47 /\ x <= 47 /\ OffsetAt(z, v - x) = x
    BY <1>3 DEF LocalOffsets, FixedOffset, DayTicks
  <2> DEFINE i == v - x
  <2>2. i \in Int /\ at - 96 <= i /\ i < at + 96
    BY <1>0, <1>1, <2>1
  <2>3. CASE at <= i
    <3>1. x = offset
      BY <1>2, <2>1, <2>2, <2>3
    <3> QED  BY <1>0, <1>1, <2>3, <3>1
  <2>4. CASE i < at
    <3>1. x = before
      BY <1>2, <2>1, <2>2, <2>4
    <3> QED  BY <2>4, <3>1
  <2> QED  BY <1>1, <2>2, <2>3, <2>4
<1>5. CASE at + before <= v
  <2>1. ~(v - before < at)
    BY <1>1, <1>5
  <2>2. LocalOffsets(z, v) = {}
    BY <1>4, <2>1
  <2> QED  BY <1>5, <2>2 DEF at, before
<1>6. CASE ~(at + before <= v)
  <2>1. v - before \in Int /\ at - 96 <= v - before /\ v - before < at
    BY <1>0, <1>1, <1>6
  <2>2. before \in LocalOffsets(z, v)
    BY <1>1, <1>2, <2>1 DEF LocalOffsets
  <2>3. LocalOffsets(z, v) = {before}
    BY <1>4, <2>2
  <2> QED  BY <1>6, <2>3 DEF at, before
<1> QED
  BY <1>5, <1>6

\* Out of a gap: the nearest full hour back that the clock shows has the offset
\* from before the change (resolve_gap_offset).
LEMMA GapResolves ==
  ASSUME NEW z, IsZone(z), NEW wall \in Int, NEW k \in DOMAIN z.changes,
         z.changes[k].at + OffsetBefore(z, k) <= wall,
         wall < z.changes[k].at + z.changes[k].offset
  PROVE  GapOffset(z, wall) = OffsetBefore(z, k)
<1> DEFINE first == z.changes[k].at + OffsetBefore(z, k)
           offset == z.changes[k].offset
           before == OffsetBefore(z, k)
           nearest == (wall - first) \div 2 + 1
           hits == {n \in Probes : LocalOffsets(z, wall - n * Hour) # {}}
<1>1. z.changes[k].at \in Int /\ offset \in Int /\ before \in Int /\ offset - before <= 50
  BY ChangeFacts
<1>2. first \in Int /\ wall - first \in 0..49
  BY <1>1
<1>3. nearest \in 1..25 /\ first - 2 <= wall - nearest * 2 /\ wall - nearest * 2 < first
  BY SMTT(90), <1>2
<1>4. \A n \in 1..25 : n < nearest => first <= wall - n * 2
  BY <1>2
<1>5. \A v \in Int : v <= wall /\ first - 2 <= v =>
        LocalOffsets(z, v) = IF first <= v THEN {} ELSE {before}
  BY <1>1, OffsetsAroundSkip
<1> HIDE DEF first, offset, before, nearest
<1>6. LocalOffsets(z, wall - nearest * Hour) = {before}
  <2>1. nearest \in Int /\ wall - nearest * 2 \in Int
    BY <1>3
  <2> QED  BY <1>2, <1>3, <1>5, <2>1 DEF Hour
<1>7. nearest \in hits
  BY <1>3, <1>6 DEF Probes
<1>8. ASSUME NEW n \in hits
      PROVE  nearest <= n
  <2>1. n \in 1..25 /\ LocalOffsets(z, wall - n * 2) # {}
    BY DEF Probes, Hour
  <2>2. n < nearest => LocalOffsets(z, wall - n * 2) = {}
    <3>1. wall - n * 2 \in Int /\ wall - n * 2 <= wall
      BY <2>1
    <3> QED  BY <1>2, <1>4, <1>5, <2>1, <3>1
  <2> QED  BY <1>3, <2>1, <2>2
<1>9. Min(hits) = nearest
  <2>1. \A n \in hits : n \in Int
    BY DEF Probes
  <2> HIDE DEF hits
  <2> QED  BY <1>7, <1>8, <2>1, MinIsLeast
<1>10. GapOffset(z, wall) = CHOOSE o \in LocalOffsets(z, wall - nearest * Hour) : TRUE
  BY <1>7, <1>9 DEF GapOffset
<1> QED
  BY <1>6, <1>10 DEF before

\* Every reading of any clock has an instant, the one it means.
LEMMA WallMeans ==
  ASSUME IsZone(zone), NEW wall \in Int
  PROVE  LocalToUtc(zone, wall) \in Int /\ Means(wall, LocalToUtc(zone, wall))
<1> DEFINE instant == LocalToUtc(zone, wall)
<1>1. HasOffsets(zone)
  BY DEF IsZone
<1>2. Offsets(zone) \subseteq FixedOffset /\ \A i \in Int : OffsetAt(zone, i) \in Offsets(zone)
  BY <1>1, OffsetAtIsOffset, 0 \in Int
<1>3. \A i : i \in Showing(wall) <=> i \in Int /\ LocalWall(zone, i) = wall
  <2> SUFFICES ASSUME NEW i PROVE i \in Showing(wall) <=> i \in Int /\ LocalWall(zone, i) = wall
    OBVIOUS
  <2>1. ASSUME i \in Int, LocalWall(zone, i) = wall PROVE i \in Showing(wall)
    <3>1. OffsetAt(zone, i) \in Offsets(zone) /\ wall - OffsetAt(zone, i) = i
      BY <1>2, <2>1 DEF LocalWall, FixedOffset, DayTicks
    <3> QED  BY <2>1, <3>1 DEF Showing
  <2>2. ASSUME i \in Showing(wall) PROVE i \in Int /\ LocalWall(zone, i) = wall
    BY <1>2, <2>2 DEF Showing, FixedOffset, DayTicks
  <2> QED  BY <2>1, <2>2
<1>4. CASE LocalOffsets(zone, wall) # {}
  <2>1. instant \in Int /\ LocalWall(zone, instant) = wall /\ \A i \in Int : LocalWall(zone, i) = wall => instant <= i
    BY <1>1, <1>4, ReadingsResolve
  <2>2. instant \in Showing(wall) /\ \A i \in Showing(wall) : i \in Int /\ instant <= i
    BY <1>3, <2>1
  <2>3. instant = Min(Showing(wall))
    <3> HIDE DEF instant
    <3> QED  BY <2>2, MinIsLeast
  <2> QED  BY <2>1, <2>2, <2>3 DEF Means
<1>5. CASE LocalOffsets(zone, wall) = {}
  <2>1. Showing(wall) = {}
    <3> SUFFICES ASSUME NEW i, i \in Int, LocalWall(zone, i) = wall PROVE FALSE
      BY <1>3
    <3>1. OffsetAt(zone, i) \in Offsets(zone) /\ wall - OffsetAt(zone, i) = i
      BY <1>2 DEF LocalWall, FixedOffset, DayTicks
    <3> QED  BY <1>5, <3>1 DEF LocalOffsets
  <2>2. PICK k \in DOMAIN zone.changes :
          /\ zone.changes[k].at + OffsetBefore(zone, k) <= wall
          /\ wall < zone.changes[k].at + zone.changes[k].offset
    BY <1>5, SkippedInChange
  <2> DEFINE at == zone.changes[k].at
             offset == zone.changes[k].offset
             before == OffsetBefore(zone, k)
  <2>3. at \in Int /\ offset \in Int /\ before \in Int /\ offset - before <= 50
    BY ChangeFacts
  <2>4. instant = wall - before
    BY <1>5, <2>2, GapResolves DEF LocalToUtc, ResolvedOffset
  <2>5. instant \in Int /\ at <= instant /\ instant < at + 96
    BY <2>2, <2>3, <2>4
  <2>6. LocalWall(zone, instant) = wall + offset - before
    <3>1. OffsetAt(zone, instant) = offset
      BY <2>5, OffsetNear
    <3> QED  BY <2>3, <2>4, <3>1 DEF LocalWall
  <2> QED  BY <2>1, <2>2, <2>5, <2>6 DEF Means
<1> QED
  BY <1>4, <1>5

-----------------------------------------------------------------------------
(* Induction *)

\* A set that holds 0, and with each number below N the next, holds all to N.
LEMMA UpTo ==
  ASSUME NEW N \in Nat, NEW G, 0 \in G, \A n \in 0..(N - 1) : n \in G => n + 1 \in G
  PROVE  \A n \in 0..N : n \in G
<1> DEFINE T == {n \in 0..N : n \notin G}
<1> SUFFICES ASSUME T # {} PROVE FALSE
  OBVIOUS
<1>1. PICK x \in T : \A y \in T : x <= y
  <2>1. T \subseteq Nat
    OBVIOUS
  <2> HIDE DEF T
  <2> QED  BY <2>1, LeastNatural
<1>2. x \in Nat /\ x # 0 /\ x <= N
  OBVIOUS
<1>3. x - 1 \in 0..(N - 1) /\ x - 1 \in 0..N /\ ~(x <= x - 1)
  BY <1>2
<1>4. x - 1 \in G
  BY <1>1, <1>3
<1>5. x - 1 + 1 \in G
  BY <1>3, <1>4
<1> QED
  BY <1>2, <1>5

-----------------------------------------------------------------------------
(* The calendar *)

\* A year is as long as its months: a day longer in a leap year.
LEMMA YearStep ==
  ASSUME NEW y \in Int
  PROVE  YearStart(y) \in Int /\ YearStart(y + 1) = YearStart(y) + 365 + IF IsLeap(y) THEN 1 ELSE 0
<1> DEFINE Multiple(d) == IF y % d = 0 THEN 1 ELSE 0
<1>1. y \div 4 = (y - 1) \div 4 + Multiple(4)
  OBVIOUS
<1>2. y \div 100 = (y - 1) \div 100 + Multiple(100)
  OBVIOUS
<1>3. y \div 400 = (y - 1) \div 400 + Multiple(400)
  OBVIOUS
<1>4. (y % 100 = 0 => y % 4 = 0) /\ (y % 400 = 0 => y % 100 = 0)
  OBVIOUS
<1>5. (IF IsLeap(y) THEN 1 ELSE 0) = Multiple(4) - Multiple(100) + Multiple(400)
  BY <1>4 DEF IsLeap
<1>6. /\ YearStart(y) = 365 * y + (y - 1) \div 4 - (y - 1) \div 100 + (y - 1) \div 400
      /\ YearStart(y + 1) = 365 * (y + 1) + y \div 4 - y \div 100 + y \div 400
  BY DEF YearStart
<1>7. /\ (y - 1) \div 4 \in Int /\ (y - 1) \div 100 \in Int /\ (y - 1) \div 400 \in Int
      /\ Multiple(4) \in Int /\ Multiple(100) \in Int /\ Multiple(400) \in Int
  OBVIOUS
<1> HIDE DEF Multiple
<1> QED
  BY <1>1, <1>2, <1>3, <1>5, <1>6, <1>7

\* Each month begins where the one before ends.
LEMMA MonthStep ==
  ASSUME NEW m \in Int
  PROVE  /\ MonthStart(m) \in Int
         /\ MonthStart(m + 1) = MonthStart(m) + MonthDays(m)
         /\ MonthDays(m) \in 28..31
<1> DEFINE y == FirstYear + m \div 12
           n == m % 12
           leap == IF IsLeap(y) THEN 1 ELSE 0
           Start(k) == DaysBefore[k + 1] + IF k > 1 THEN leap ELSE 0
           base == YearStart(y) - YearStart(FirstYear)
<1>1. y \in Int /\ n \in 0..11 /\ leap \in 0..1
  BY CalendarAssumption
<1>2. base \in Int /\ YearStart(y + 1) - YearStart(FirstYear) = base + 365 + leap
  BY <1>1, YearStep, CalendarAssumption
<1>3. /\ DaysBefore[1] = 0 /\ DaysBefore[2] = 31 /\ DaysBefore[3] = 59 /\ DaysBefore[4] = 90
      /\ DaysBefore[5] = 120 /\ DaysBefore[6] = 151 /\ DaysBefore[7] = 181 /\ DaysBefore[8] = 212
      /\ DaysBefore[9] = 243 /\ DaysBefore[10] = 273 /\ DaysBefore[11] = 304 /\ DaysBefore[12] = 334
  BY DEF DaysBefore
<1>4. MonthStart(m) = base + Start(n)
  BY <1>1, <1>2, <1>3 DEF MonthStart
<1>5. MonthStart(m + 1) = IF n = 11 THEN base + 365 + leap ELSE base + Start(n + 1)
  <2>1. CASE n = 11
    <3>1. (m + 1) \div 12 = m \div 12 + 1 /\ (m + 1) % 12 = 0
      BY <2>1
    <3>2. FirstYear + (m + 1) \div 12 = y + 1
      BY <3>1, CalendarAssumption
    <3>3. MonthStart(m + 1) = YearStart(y + 1) - YearStart(FirstYear) + DaysBefore[1] + 0
      BY <3>1, <3>2 DEF MonthStart
    <3> QED  BY <1>1, <1>2, <1>3, <2>1, <3>3
  <2>2. CASE n # 11
    <3>1. (m + 1) \div 12 = m \div 12 /\ (m + 1) % 12 = n + 1
      BY <2>2
    <3> QED  BY <1>1, <1>2, <1>3, <2>2, <3>1 DEF MonthStart
  <2> QED  BY <2>1, <2>2
<1>6. MonthDays(m) = CASE n = 1 -> 28 + leap [] n \in {3, 5, 8, 10} -> 30 [] OTHER -> 31
  BY DEF MonthDays
<1> HIDE DEF y, n, leap, base
<1>7. Start(n) \in Int /\ MonthDays(m) \in 28..31
  BY <1>1, <1>3, <1>6
<1>8. CASE n = 11
  BY <1>1, <1>2, <1>3, <1>4, <1>5, <1>6, <1>7, <1>8
<1>9. CASE n # 11
  <2>1. Start(n + 1) = Start(n) + MonthDays(m)
    BY <1>1, <1>3, <1>6, <1>9
  <2>2. MonthStart(m + 1) = base + Start(n + 1)
    BY <1>5, <1>9
  <2> HIDE DEF Start
  <2> QED  BY <1>2, <1>4, <1>7, <2>1, <2>2
<1> QED
  BY <1>8, <1>9

\* Months have 28 to 31 days, and so many of them.
LEMMA MonthsSpread ==
  ASSUME NEW m \in Int, NEW k \in Nat
  PROVE  /\ MonthStart(m) + 28 * k <= MonthStart(m + k)
         /\ MonthStart(m + k) <= MonthStart(m) + 31 * k
<1> DEFINE G == {j \in Nat : /\ MonthStart(m) + 28 * j <= MonthStart(m + j)
                             /\ MonthStart(m + j) <= MonthStart(m) + 31 * j}
<1>1. 0 \in G
  <2>1. m + 0 = m
    OBVIOUS
  <2> QED  BY <2>1, MonthStep
<1>2. ASSUME NEW j \in 0..(k - 1), j \in G PROVE j + 1 \in G
  <2>1. /\ j \in Nat /\ m + j \in Int /\ m + (j + 1) = (m + j) + 1
        /\ MonthStart(m) + 28 * j <= MonthStart(m + j)
        /\ MonthStart(m + j) <= MonthStart(m) + 31 * j
    BY <1>2
  <2>2. /\ MonthStart(m) \in Int /\ MonthStart(m + j) \in Int /\ MonthDays(m + j) \in 28..31
        /\ MonthStart(m + (j + 1)) = MonthStart(m + j) + MonthDays(m + j)
    BY <2>1, MonthStep
  <2> QED  BY <2>1, <2>2
<1>3. k \in 0..k
  OBVIOUS
<1> HIDE DEF G
<1>4. k \in G
  BY <1>1, <1>2, <1>3, UpTo
<1> QED
  BY <1>4 DEF G

\* The first month begins on the first day.
LEMMA FirstMonth == MonthStart(0) = 0
<1>1. 0 \div 12 = 0 /\ 0 % 12 = 0
  OBVIOUS
<1>2. MonthStart(0) = YearStart(FirstYear + 0) - YearStart(FirstYear) + DaysBefore[1] + 0
  BY <1>1 DEF MonthStart
<1>3. FirstYear + 0 = FirstYear /\ YearStart(FirstYear) \in Int /\ DaysBefore[1] = 0
  BY CalendarAssumption, YearStep DEF DaysBefore
<1> QED
  BY <1>2, <1>3

\* Where a month begins, to within its distance from the first.
LEMMA MonthBounds ==
  ASSUME NEW m \in Int
  PROVE  /\ m >= 0 => 28 * m <= MonthStart(m) /\ MonthStart(m) <= 31 * m
         /\ m <= 0 => 31 * m <= MonthStart(m) /\ MonthStart(m) <= 28 * m
<1>1. CASE m >= 0
  <2>1. m \in Nat /\ 0 + m = m /\ 0 \in Int
    BY <1>1
  <2>2. MonthStart(0) + 28 * m <= MonthStart(0 + m) /\ MonthStart(0 + m) <= MonthStart(0) + 31 * m
    BY <2>1, MonthsSpread
  <2>3. 28 * m <= MonthStart(m) /\ MonthStart(m) <= 31 * m
    BY <2>1, <2>2, FirstMonth
  <2>4. m <= 0 => m = 0
    BY <1>1
  <2> QED  BY <2>3, <2>4
<1>2. CASE ~(m >= 0)
  <2> DEFINE k == -m
  <2>1. k \in Nat /\ m + k = 0
    BY <1>2
  <2>2. MonthStart(m) + 28 * k <= MonthStart(0) /\ MonthStart(0) <= MonthStart(m) + 31 * k
    <3> HIDE DEF k
    <3> QED  BY <2>1, MonthsSpread
  <2>3. MonthStart(m) \in Int
    BY MonthStep
  <2> QED  BY <1>2, <2>2, <2>3, FirstMonth
<1> QED
  BY <1>1, <1>2

\* A later month begins after an earlier one ends.
LEMMA MonthsFollow ==
  ASSUME NEW m \in Int, NEW n \in Int, m < n
  PROVE  MonthStart(m + 1) <= MonthStart(n)
<1> DEFINE k == n - (m + 1)
<1>1. k \in Nat /\ (m + 1) + k = n /\ m + 1 \in Int
  OBVIOUS
<1> HIDE DEF k
<1>2. MonthStart(m + 1) + 28 * k <= MonthStart(n)
  BY <1>1, MonthsSpread
<1>3. MonthStart(m + 1) \in Int /\ MonthStart(n) \in Int
  BY <1>1, MonthStep
<1> QED
  BY <1>1, <1>2, <1>3

\* A day lies in one month, the one that is found.
LEMMA MonthIsExact ==
  ASSUME NEW day \in Int
  PROVE  /\ Month(day) \in Int
         /\ MonthStart(Month(day)) <= day /\ day < MonthStart(Month(day) + 1)
         /\ \A m \in Int : MonthStart(m) <= day /\ day < MonthStart(m + 1) => m = Month(day)
<1> DEFINE low == Least(day \div 31, day \div 28)
           high == Greatest(day \div 31, day \div 28)
           Holds(m) == MonthStart(m) <= day /\ day < MonthStart(m + 1)
           T == {j \in Nat : day < MonthStart(low + j + 1)}
<1>1. low \in Int /\ high \in Int /\ low <= high
  BY DEF Least, Greatest
<1>2. MonthStart(low) <= day
  <2>1. MonthStart(low) \in Int
    BY <1>1, MonthStep
  <2>2. CASE day >= 0
    <3>1. low >= 0 /\ 31 * low <= day
      BY <2>2 DEF Least
    <3>2. MonthStart(low) <= 31 * low
      BY <1>1, <3>1, MonthBounds
    <3> HIDE DEF low
    <3> QED  BY <1>1, <2>1, <3>1, <3>2
  <2>3. CASE ~(day >= 0)
    <3>1. low <= 0 /\ 28 * low <= day
      BY <2>3 DEF Least
    <3>2. MonthStart(low) <= 28 * low
      BY <1>1, <3>1, MonthBounds
    <3> HIDE DEF low
    <3> QED  BY <1>1, <2>1, <3>1, <3>2
  <2> QED  BY <2>2, <2>3
<1>3. day < MonthStart(high + 1)
  <2>1. MonthStart(high + 1) \in Int
    BY <1>1, MonthStep
  <2>2. CASE day >= 0
    <3>1. high + 1 >= 0 /\ day < 28 * (high + 1)
      BY <2>2 DEF Greatest
    <3>2. 28 * (high + 1) <= MonthStart(high + 1)
      BY <1>1, <3>1, MonthBounds
    <3> HIDE DEF high
    <3> QED  BY <1>1, <2>1, <3>1, <3>2
  <2>3. CASE ~(day >= 0)
    <3>1. high + 1 <= 0 /\ day < 31 * (high + 1)
      BY <2>3 DEF Greatest
    <3>2. 31 * (high + 1) <= MonthStart(high + 1)
      BY <1>1, <3>1, MonthBounds
    <3> HIDE DEF high
    <3> QED  BY <1>1, <2>1, <3>1, <3>2
  <2> QED  BY <2>2, <2>3
<1> HIDE DEF low, high
<1>4. high - low \in T
  <2>1. high - low \in Nat /\ low + (high - low) + 1 = high + 1
    BY <1>1
  <2> QED  BY <1>3, <2>1
<1>5. PICK j \in T : \A i \in T : j <= i
  <2>1. T \subseteq Nat
    OBVIOUS
  <2> HIDE DEF T
  <2> QED  BY <1>4, <2>1, LeastNatural
<1>6. j \in Nat /\ j <= high - low /\ day < MonthStart(low + j + 1)
  BY <1>4, <1>5
<1>7. Holds(low + j)
  <2>1. CASE j = 0
    BY <1>1, <1>2, <1>6, <2>1
  <2>2. CASE j # 0
    <3>1. j - 1 \in Nat /\ ~(j <= j - 1) /\ low + (j - 1) + 1 = low + j /\ low + j \in Int
      BY <1>1, <1>6, <2>2
    <3>2. j - 1 \notin T
      BY <1>5, <3>1
    <3>3. ~(day < MonthStart(low + j))
      BY <3>1, <3>2
    <3>4. MonthStart(low + j) \in Int
      BY <3>1, MonthStep
    <3> QED  BY <1>6, <3>3, <3>4
  <2> QED  BY <2>1, <2>2
<1>8. low + j \in low..high
  BY <1>1, <1>6
<1>9. Month(day) \in low..high /\ Holds(Month(day))
  <2>1. Month(day) = CHOOSE m \in low..high : Holds(m)
    BY DEF Month, low, high
  <2> HIDE DEF Holds
  <2> QED  BY <1>7, <1>8, <2>1
<1>10. Month(day) \in Int
  BY <1>1, <1>9
<1>11. ASSUME NEW m \in Int, NEW n \in Int, Holds(m), Holds(n)
       PROVE  ~(m < n)
  <2>1. SUFFICES ASSUME m < n PROVE FALSE
    OBVIOUS
  <2>2. MonthStart(m + 1) <= MonthStart(n)
    BY <2>1, MonthsFollow
  <2>3. MonthStart(m + 1) \in Int /\ MonthStart(n) \in Int
    BY MonthStep
  <2> QED  BY <1>11, <2>2, <2>3
<1> HIDE DEF Holds
<1>12. \A m \in Int : Holds(m) => m = Month(day)
  <2> SUFFICES ASSUME NEW m \in Int, Holds(m) PROVE m = Month(day)
    OBVIOUS
  <2>1. ~(m < Month(day)) /\ ~(Month(day) < m)
    BY <1>9, <1>10, <1>11
  <2> QED  BY <1>10, <2>1
<1> QED
  BY <1>9, <1>10, <1>12 DEF Holds

\* The day of the month is one of the month's, and says with it which day it is;
\* and the n-th day of a month is that.
THEOREM CalendarIsExact ==
  /\ \A day \in Int :
       /\ Month(day) \in Int /\ DayOfMonth(day) \in 1..MonthDays(Month(day))
       /\ DayAt(Month(day), DayOfMonth(day)) = day
  /\ \A m \in Int : \A n \in 1..MonthDays(m) :
       DayAt(m, n) \in Int /\ Month(DayAt(m, n)) = m /\ DayOfMonth(DayAt(m, n)) = n
<1>1. ASSUME NEW day \in Int
      PROVE  /\ Month(day) \in Int /\ DayOfMonth(day) \in 1..MonthDays(Month(day))
             /\ DayAt(Month(day), DayOfMonth(day)) = day
  <2>1. /\ Month(day) \in Int
        /\ MonthStart(Month(day)) <= day /\ day < MonthStart(Month(day) + 1)
    BY MonthIsExact
  <2>2. /\ MonthStart(Month(day)) \in Int /\ MonthDays(Month(day)) \in 28..31
        /\ MonthStart(Month(day) + 1) = MonthStart(Month(day)) + MonthDays(Month(day))
    BY <2>1, MonthStep
  <2> QED  BY <2>1, <2>2 DEF DayOfMonth, DayAt
<1>2. ASSUME NEW m \in Int, NEW n \in 1..MonthDays(m)
      PROVE  DayAt(m, n) \in Int /\ Month(DayAt(m, n)) = m /\ DayOfMonth(DayAt(m, n)) = n
  <2>1. /\ MonthStart(m) \in Int /\ MonthDays(m) \in 28..31
        /\ MonthStart(m + 1) = MonthStart(m) + MonthDays(m)
    BY MonthStep
  <2> DEFINE day == DayAt(m, n)
  <2>2. day \in Int /\ MonthStart(m) <= day /\ day < MonthStart(m + 1) /\ day - MonthStart(m) + 1 = n
    BY <2>1 DEF DayAt
  <2> HIDE DEF day
  <2>3. m = Month(day)
    BY <2>2, MonthIsExact
  <2>4. DayOfMonth(day) = n
    BY <2>2, <2>3 DEF DayOfMonth
  <2> QED  BY <2>2, <2>3, <2>4 DEF day
<1> QED
  BY <1>1, <1>2

-----------------------------------------------------------------------------
(* Steps over a sequence *)

\* A number that is carried from one place to the next has a value at each.
LEMMA StepsExist ==
  ASSUME NEW N \in Nat, NEW start \in Int, NEW step \in [(1..N) \X Int -> Int]
  PROVE  \E f : f = [k \in 0..N |-> IF k = 0 THEN start ELSE step[<<k, f[k - 1]>>]]
<1> DEFINE At(f, k) == IF k = 0 THEN start ELSE step[<<k, f[k - 1]>>]
           G == {n \in 0..N : \E f : f = [k \in 0..n |-> At(f, k)]}
<1>1. 0 \in G
  <2> DEFINE f == [k \in 0..0 |-> start]
  <2>1. \A k \in 0..0 : f[k] = At(f, k)
    OBVIOUS
  <2>2. f = [k \in 0..0 |-> At(f, k)]
    <3> HIDE DEF At
    <3> QED  BY <2>1
  <2> HIDE DEF f, At
  <2> QED  BY <2>2
<1>2. ASSUME NEW n \in 0..(N - 1), n \in G PROVE n + 1 \in G
  <2>1. PICK f : f = [k \in 0..n |-> At(f, k)]
    BY <1>2
  <2>2. \A k \in 0..n : f[k] = At(f, k)
    <3> HIDE DEF At
    <3> QED  BY <2>1
  <2> DEFINE g == [k \in 0..(n + 1) |-> IF k <= n THEN f[k] ELSE At(f, k)]
  <2>3. \A k \in 0..(n + 1) : g[k] = At(g, k)
    <3> TAKE k \in 0..(n + 1)
    <3>1. k # 0 => g[k - 1] = f[k - 1]
      OBVIOUS
    <3>2. At(g, k) = At(f, k)
      <4> HIDE DEF g
      <4>1. CASE k = 0
        BY <4>1
      <4>2. CASE k # 0
        BY <3>1, <4>2
      <4> QED  BY <4>1, <4>2
    <3>3. CASE k <= n
      <4>1. k \in 0..n /\ g[k] = f[k]
        BY <3>3
      <4> HIDE DEF At, g
      <4> QED  BY <2>2, <3>2, <4>1
    <3>4. CASE ~(k <= n)
      BY <3>2, <3>4
    <3> QED  BY <3>3, <3>4
  <2>4. g = [k \in 0..(n + 1) |-> At(g, k)]
    <3> HIDE DEF At
    <3> QED  BY <2>3
  <2>5. n + 1 \in 0..N
    OBVIOUS
  <2> HIDE DEF g, At
  <2> QED  BY <2>4, <2>5
<1>3. N \in G
  <2> HIDE DEF G
  <2> QED  BY <1>1, <1>2, UpTo
<1> QED
  BY <1>3

\* Two such numbers that take the same steps are the same.
LEMMA StepsAgree ==
  ASSUME NEW N \in Nat, NEW f, NEW g, f[0] = g[0],
         \A k \in 1..N : f[k - 1] = g[k - 1] => f[k] = g[k]
  PROVE  \A k \in 0..N : f[k] = g[k]
<1> DEFINE G == {k \in 0..N : f[k] = g[k]}
<1>1. 0 \in G
  OBVIOUS
<1>2. ASSUME NEW n \in 0..(N - 1), n \in G PROVE n + 1 \in G
  <2>1. n + 1 \in 1..N /\ (n + 1) - 1 = n
    OBVIOUS
  <2>2. f[n] = g[n]
    BY <1>2
  <2>3. f[n + 1] = g[n + 1]
    BY <2>1, <2>2
  <2> QED  BY <2>1, <2>3
<1> HIDE DEF G
<1>3. \A k \in 0..N : k \in G
  BY <1>1, <1>2, UpTo
<1> QED
  BY <1>3 DEF G

-----------------------------------------------------------------------------
(* Sums of parts *)

\* Parts that are whole half hours, as all that a text gives are.
Parts == {part \in [mag : Int, unit : Units] : part.unit = "m" => part.mag % 2 = 0}

\* The half hours in half a unit, but for the unit that is one.
Halves(unit) ==
  CASE unit = "y" -> 8760 [] unit = "mo" -> 720 [] unit = "w" -> 168 [] unit = "d" -> 24 [] unit = "h" -> 1

LEMMA PartLength ==
  ASSUME NEW part \in Parts
  PROVE  /\ PartSeconds(part) \in Int
         /\ part.unit # "m" => Halves(part.unit) \in Nat /\ PartSeconds(part) = part.mag * Halves(part.unit)
         /\ part.unit = "m" => part.mag = 2 * PartSeconds(part)
<1>1. part.mag \in Int /\ part.unit \in {"y", "mo", "w", "d", "h", "m"} /\ (part.unit = "m" => part.mag % 2 = 0)
  BY DEF Parts, Units, CalendarUnits, FixedUnits
<1>2. CASE part.unit = "y"
  BY <1>1, <1>2 DEF PartSeconds, FixedSeconds, Halves
<1>3. CASE part.unit = "mo"
  BY <1>1, <1>3 DEF PartSeconds, FixedSeconds, Halves
<1>4. CASE part.unit = "w"
  BY <1>1, <1>4 DEF PartSeconds, FixedSeconds, Halves
<1>5. CASE part.unit = "d"
  BY <1>1, <1>5 DEF PartSeconds, FixedSeconds, Halves
<1>6. CASE part.unit = "h"
  BY <1>1, <1>6 DEF PartSeconds, FixedSeconds, Halves
<1>7. CASE part.unit = "m"
  BY <1>1, <1>7 DEF PartSeconds, FixedSeconds
<1> QED
  BY <1>1, <1>2, <1>3, <1>4, <1>5, <1>6, <1>7

\* A multiple of a part is as many times as long.
LEMMA PartScales ==
  ASSUME NEW part \in Parts, NEW n \in Int
  PROVE  /\ Part(part.mag * n, part.unit) \in Parts
         /\ PartSeconds(Part(part.mag * n, part.unit)) = n * PartSeconds(part)
<1> DEFINE more == Part(part.mag * n, part.unit)
<1>1. part.mag \in Int /\ part.unit \in Units /\ (part.unit = "m" => part.mag % 2 = 0)
  BY DEF Parts
<1>2. more.mag = part.mag * n /\ more.unit = part.unit /\ more \in [mag : Int, unit : Units]
  BY <1>1 DEF Part
<1>3. CASE part.unit = "m"
  <2> DEFINE half == PartSeconds(part)
  <2>1. half \in Int /\ part.mag = 2 * half
    BY <1>3, PartLength
  <2> HIDE DEF half
  <2>2. part.mag * n = 2 * (half * n) /\ half * n \in Int
    BY <2>1
  <2>3. more.mag % 2 = 0
    BY <1>2, <2>2
  <2>4. more \in Parts
    BY <1>2, <2>3 DEF Parts
  <2>5. more.mag = 2 * PartSeconds(more) /\ PartSeconds(more) \in Int
    BY <1>2, <1>3, <2>4, PartLength
  <2>6. PartSeconds(more) = half * n
    BY <1>2, <2>2, <2>5
  <2> QED  BY <2>1, <2>4, <2>6 DEF half
<1>4. CASE part.unit # "m"
  <2>1. more \in Parts
    BY <1>2, <1>4 DEF Parts
  <2> DEFINE h == Halves(part.unit)
  <2>2. h \in Nat /\ PartSeconds(part) = part.mag * h /\ PartSeconds(more) = (part.mag * n) * h
    BY <1>2, <1>4, <2>1, PartLength
  <2> HIDE DEF h
  <2>3. (part.mag * n) * h = n * (part.mag * h)
    BY <1>1, <2>2
  <2> QED  BY <2>1, <2>2, <2>3
<1> QED
  BY <1>3, <1>4

\* Whether f adds up parts, one after the other.
AddsUp(f, parts) ==
  f[0] = 0 /\ \A k \in 1..Len(parts) : f[k] = f[k - 1] + PartSeconds(parts[k])

\* fold_parts adds up.
LEMMA FoldAddsUp ==
  ASSUME NEW parts \in Seq(Parts)
  PROVE  \E f \in [0..Len(parts) -> Int] : AddsUp(f, parts) /\ FoldParts(parts) = f[Len(parts)]
<1> DEFINE N == Len(parts)
           At(f, k) == IF k = 0 THEN 0 ELSE f[k - 1] + PartSeconds(parts[k])
           step == [p \in (1..N) \X Int |-> p[2] + PartSeconds(parts[p[1]])]
           total == CHOOSE f : f = [k \in 0..N |-> At(f, k)]
<1>1. N \in Nat /\ \A k \in 1..N : parts[k] \in Parts /\ PartSeconds(parts[k]) \in Int
  <2>1. \A k \in 1..N : parts[k] \in Parts
    OBVIOUS
  <2> QED  BY <2>1, PartLength
<1>2. FoldParts(parts) = total[N]
  BY DEF FoldParts
<1>3. step \in [(1..N) \X Int -> Int] /\ \A k \in 1..N, x \in Int : step[<<k, x>>] = x + PartSeconds(parts[k])
  BY <1>1
<1> HIDE DEF step, N
<1>4. PICK f : f = [k \in 0..N |-> IF k = 0 THEN 0 ELSE step[<<k, f[k - 1]>>]]
  <2>1. 0 \in Int /\ N \in Nat /\ step \in [(1..N) \X Int -> Int]
    BY <1>1, <1>3
  <2> QED  BY ONLY ZenonT(90), <2>1, StepsExist
<1>5. f[0] = 0 /\ \A k \in 1..N : f[k] = step[<<k, f[k - 1]>>]
  BY <1>1, <1>4
<1>6. \A k \in 0..N : f[k] \in Int
  <2> DEFINE G == {k \in 0..N : f[k] \in Int}
  <2>1. 0 \in G
    BY <1>1, <1>5
  <2>2. ASSUME NEW n \in 0..(N - 1), n \in G PROVE n + 1 \in G
    <3>1. n + 1 \in 1..N /\ (n + 1) - 1 = n /\ f[n] \in Int
      BY <1>1, <2>2
    <3>2. f[n + 1] = step[<<n + 1, f[n]>>] /\ <<n + 1, f[n]>> \in (1..N) \X Int
      BY <1>5, <3>1
    <3> QED  BY <1>1, <1>3, <3>1, <3>2
  <2> HIDE DEF G
  <2>3. \A k \in 0..N : k \in G
    BY <1>1, <2>1, <2>2, UpTo
  <2> QED  BY <2>3 DEF G
<1>7. ASSUME NEW k \in 1..N
      PROVE  k - 1 \in 0..N /\ f[k] = f[k - 1] + PartSeconds(parts[k])
  <2>1. k - 1 \in 0..N
    BY <1>1
  <2>2. f[k - 1] \in Int /\ f[k] = step[<<k, f[k - 1]>>]
    BY <1>5, <1>6, <2>1
  <2> QED  BY <1>3, <2>1, <2>2
<1>8. f = [k \in 0..N |-> At(f, k)]
  <2>1. \A k \in 0..N : f[k] = At(f, k)
    BY <1>1, <1>5, <1>7
  <2>2. f = [k \in 0..N |-> f[k]]
    BY <1>4
  <2> HIDE DEF At
  <2> QED  BY <2>1, <2>2
<1>9. total = [k \in 0..N |-> At(total, k)]
  <2> HIDE DEF At
  <2> QED  BY <1>8
<1> HIDE DEF total
<1>10. total[0] = 0 /\ \A k \in 1..N : total[k] = total[k - 1] + PartSeconds(parts[k])
  <2>1. \A k \in 0..N : total[k] = At(total, k)
    <3> HIDE DEF At
    <3> QED  BY <1>9
  <2>2. \A k \in 1..N : k \in 0..N /\ k # 0
    BY <1>1
  <2>3. 0 \in 0..N
    BY <1>1
  <2> QED  BY <2>1, <2>2, <2>3
<1>11. \A k \in 0..N : total[k] = f[k]
  <2>1. \A k \in 1..N : total[k - 1] = f[k - 1] => total[k] = f[k]
    BY <1>7, <1>10
  <2>2. total[0] = f[0]
    BY <1>5, <1>10
  <2>3. N \in Nat
    BY <1>1
  <2> QED  BY ONLY ZenonT(90), <2>1, <2>2, <2>3, StepsAgree
<1>12. total \in [0..N -> Int]
  <2>1. total = [k \in 0..N |-> total[k]]
    <3> HIDE DEF At
    <3> QED  BY <1>9
  <2> QED  BY <1>6, <1>11, <2>1
<1> QED
  BY <1>2, <1>10, <1>12 DEF AddsUp, N

\* What adds up ends at fold_parts.
LEMMA FoldIsSum ==
  ASSUME NEW parts \in Seq(Parts), NEW f, AddsUp(f, parts)
  PROVE  FoldParts(parts) = f[Len(parts)]
<1>1. PICK g : AddsUp(g, parts) /\ FoldParts(parts) = g[Len(parts)]
  BY FoldAddsUp
<1>2. Len(parts) \in Nat
  OBVIOUS
<1>3. \A k \in 0..Len(parts) : f[k] = g[k]
  <2>1. f[0] = g[0] /\ \A k \in 1..Len(parts) : f[k - 1] = g[k - 1] => f[k] = g[k]
    BY <1>1 DEF AddsUp
  <2> QED  BY ZenonT(90), <1>2, <2>1, StepsAgree
<1> QED
  BY <1>1, <1>2, <1>3

LEMMA FoldIsInt ==
  ASSUME NEW parts \in Seq(Parts)
  PROVE  FoldParts(parts) \in Int
<1>1. Len(parts) \in 0..Len(parts)
  OBVIOUS
<1> QED
  BY <1>1, FoldAddsUp

LEMMA FoldEmpty == FoldParts(<<>>) = 0
<1>1. <<>> \in Seq(Parts) /\ Len(<<>>) = 0
  OBVIOUS
<1> QED
  BY <1>1, FoldAddsUp DEF AddsUp

LEMMA FoldOne ==
  ASSUME NEW part \in Parts
  PROVE  FoldParts(<<part>>) = PartSeconds(part)
<1>1. <<part>> \in Seq(Parts) /\ Len(<<part>>) = 1 /\ <<part>>[1] = part
  OBVIOUS
<1>2. PICK f : AddsUp(f, <<part>>) /\ FoldParts(<<part>>) = f[1]
  BY <1>1, FoldAddsUp
<1>3. f[0] = 0 /\ f[1] = f[1 - 1] + PartSeconds(part)
  BY <1>1, <1>2 DEF AddsUp
<1> QED
  BY <1>2, <1>3, PartLength

\* Parts of a sum are as long together as the sums of each.
LEMMA FoldConcat ==
  ASSUME NEW a \in Seq(Parts), NEW b \in Seq(Parts)
  PROVE  a \o b \in Seq(Parts) /\ FoldParts(a \o b) = FoldParts(a) + FoldParts(b)
<1> DEFINE m == Len(a)
           n == Len(b)
<1>1. /\ m \in Nat /\ n \in Nat /\ a \o b \in Seq(Parts) /\ Len(a \o b) = m + n
      /\ \A k \in 1..m : (a \o b)[k] = a[k]
      /\ \A k \in 1..(m + n) : k > m => (a \o b)[k] = b[k - m]
  OBVIOUS
<1>2. PICK f \in [0..m -> Int] : AddsUp(f, a) /\ FoldParts(a) = f[m]
  BY FoldAddsUp
<1>3. PICK g \in [0..n -> Int] : AddsUp(g, b) /\ FoldParts(b) = g[n]
  BY FoldAddsUp
<1> HIDE DEF m, n
<1> DEFINE h == [k \in 0..(m + n) |-> IF k <= m THEN f[k] ELSE f[m] + g[k - m]]
<1>4. /\ f[0] = 0 /\ \A k \in 1..m : f[k] = f[k - 1] + PartSeconds(a[k])
      /\ g[0] = 0 /\ \A k \in 1..n : g[k] = g[k - 1] + PartSeconds(b[k])
  BY <1>2, <1>3 DEF AddsUp, m, n
<1>5. \A k \in 1..n : PartSeconds(b[k]) \in Int
  <2>1. \A k \in 1..n : b[k] \in Parts
    BY DEF n
  <2> QED  BY <2>1, PartLength
<1>6. h[0] = 0
  BY <1>1, <1>4
<1>7. ASSUME NEW k \in 1..(m + n)
      PROVE  h[k] = h[k - 1] + PartSeconds((a \o b)[k])
  <2>0. k \in 0..(m + n) /\ k - 1 \in 0..(m + n)
    BY <1>1
  <2>1. CASE k <= m
    <3>1. k \in 1..m /\ h[k] = f[k] /\ h[k - 1] = f[k - 1]
      BY <1>1, <2>0, <2>1
    <3> HIDE DEF h
    <3> QED  BY <1>1, <1>4, <3>1
  <2>2. CASE k > m
    <3> DEFINE j == k - m
    <3>1. j \in 1..n /\ h[k] = f[m] + g[j] /\ (a \o b)[k] = b[j]
      BY SMTT(90), <1>1, <2>0, <2>2
    <3>2. h[k - 1] = f[m] + g[j - 1]
      <4>1. CASE k - 1 = m
        <5>1. h[k - 1] = f[m] /\ j - 1 = 0
          BY <1>1, <2>0, <4>1
        <5>2. f[m] \in Int
          BY <1>1
        <5> HIDE DEF h, j
        <5> QED  BY <1>4, <5>1, <5>2
      <4>2. CASE k - 1 # m
        <5>1. ~(k - 1 <= m) /\ (k - 1) - m = j - 1
          BY <1>1, <2>2, <4>2
        <5> HIDE DEF j
        <5> QED  BY <2>0, <5>1
      <4> QED  BY <4>1, <4>2
    <3> HIDE DEF h, j
    <3>3. g[j] = g[j - 1] + PartSeconds(b[j])
      BY <1>4, <3>1
    <3>4. f[m] \in Int /\ g[j - 1] \in Int /\ PartSeconds(b[j]) \in Int
      BY <1>1, <1>5, <3>1
    <3> QED  BY <3>1, <3>2, <3>3, <3>4
  <2>3. k <= m \/ k > m
    BY <1>1
  <2> QED  BY <2>1, <2>2, <2>3
<1>8. h[m + n] = FoldParts(a) + FoldParts(b)
  <2>1. CASE n = 0
    <3>1. h[m + n] = f[m] /\ f[m] \in Int
      BY <1>1, <2>1
    <3> HIDE DEF h
    <3> QED  BY <1>2, <1>3, <1>4, <2>1, <3>1
  <2>2. CASE n # 0
    <3>1. ~(m + n <= m) /\ (m + n) - m = n /\ m + n \in 0..(m + n)
      BY <1>1, <2>2
    <3> QED  BY <1>2, <1>3, <3>1
  <2> QED  BY <2>1, <2>2
<1> HIDE DEF h
<1>9. AddsUp(h, a \o b)
  BY <1>1, <1>6, <1>7 DEF AddsUp
<1> QED
  BY <1>1, <1>8, <1>9, FoldIsSum

\* So many times the parts are as many times as long.
LEMMA FoldScaled ==
  ASSUME NEW parts \in Seq(Parts), NEW n \in Int
  PROVE  Scaled(parts, n) \in Seq(Parts) /\ FoldParts(Scaled(parts, n)) = n * FoldParts(parts)
<1> DEFINE N == Len(parts)
           more == Scaled(parts, n)
<1>1. N \in Nat /\ DOMAIN parts = 1..N /\ \A k \in 1..N : parts[k] \in Parts
  OBVIOUS
<1>2. \A k \in 1..N : more[k] = Part(parts[k].mag * n, parts[k].unit)
  BY <1>1 DEF Scaled
<1>3. \A k \in 1..N : more[k] \in Parts /\ PartSeconds(more[k]) = n * PartSeconds(parts[k])
  BY <1>1, <1>2, PartScales
<1>4. more \in Seq(Parts) /\ Len(more) = N
  <2>1. more = [k \in 1..N |-> more[k]]
    BY <1>1 DEF Scaled
  <2>2. more \in [1..N -> Parts]
    <3> HIDE DEF more
    <3> QED  BY <1>3, <2>1
  <2> HIDE DEF more
  <2> QED  BY <1>1, <2>2
<1>5. PICK f \in [0..N -> Int] : AddsUp(f, parts) /\ FoldParts(parts) = f[N]
  BY FoldAddsUp
<1>6. f[0] = 0 /\ \A k \in 1..N : f[k] = f[k - 1] + PartSeconds(parts[k])
  BY <1>5 DEF AddsUp
<1>7. \A k \in 1..N : PartSeconds(parts[k]) \in Int
  BY <1>1, PartLength
<1> HIDE DEF N, more
<1> DEFINE h == [k \in 0..N |-> n * f[k]]
<1>8. h[0] = 0
  BY <1>1, <1>6
<1>9. ASSUME NEW k \in 1..N
      PROVE  h[k] = h[k - 1] + PartSeconds(more[k])
  <2>1. k \in 0..N /\ k - 1 \in 0..N
    BY <1>1
  <2>2. h[k] = n * f[k] /\ h[k - 1] = n * f[k - 1]
    BY <2>1
  <2> HIDE DEF h
  <2>3. f[k - 1] \in Int /\ PartSeconds(parts[k]) \in Int /\ f[k] = f[k - 1] + PartSeconds(parts[k])
    BY <1>6, <1>7, <2>1
  <2>4. n * (f[k - 1] + PartSeconds(parts[k])) = n * f[k - 1] + n * PartSeconds(parts[k])
    BY <2>3
  <2> QED  BY <1>3, <2>2, <2>3, <2>4
<1>10. h[N] = n * FoldParts(parts)
  BY <1>1, <1>5
<1> HIDE DEF h
<1>11. AddsUp(h, more)
  BY <1>4, <1>8, <1>9 DEF AddsUp
<1> QED
  BY <1>4, <1>10, <1>11, FoldIsSum DEF more

-----------------------------------------------------------------------------
(* Texts of durations *)

\* The parts that a text says but for its sign, and texts that have none
Unsigned(written) == [k \in DOMAIN written |-> Part(written[k].mag, written[k].unit)]

EvenParts == {part \in WrittenParts : part.unit = "m" => part.mag % 2 = 0}
PlainParts == {part \in EvenParts : part.sign = ""}

LEMMA UnsignedIsParts ==
  ASSUME NEW written \in Seq(EvenParts)
  PROVE  Unsigned(written) \in Seq(Parts)
<1> DEFINE N == Len(written)
<1>1. N \in Nat /\ DOMAIN written = 1..N /\ \A k \in 1..N : written[k] \in EvenParts
  OBVIOUS
<1>2. ASSUME NEW k \in 1..N PROVE Part(written[k].mag, written[k].unit) \in Parts
  BY <1>1 DEF EvenParts, WrittenParts, Parts, Part
<1>3. Unsigned(written) \in [1..N -> Parts]
  BY <1>1, <1>2 DEF Unsigned
<1> HIDE DEF N
<1> QED
  BY <1>1, <1>3

LEMMA ConcatFacts ==
  ASSUME NEW S, NEW a \in Seq(S), NEW b \in Seq(S)
  PROVE  /\ a \o b \in Seq(S) /\ Len(a \o b) = Len(a) + Len(b)
         /\ \A k \in 1..Len(a) : (a \o b)[k] = a[k]
         /\ \A k \in 1..(Len(a) + Len(b)) : k > Len(a) => (a \o b)[k] = b[k - Len(a)]
OBVIOUS

LEMMA UnsignedConcat ==
  ASSUME NEW a \in Seq(EvenParts), NEW b \in Seq(EvenParts)
  PROVE  a \o b \in Seq(EvenParts) /\ Unsigned(a \o b) = Unsigned(a) \o Unsigned(b)
<1> DEFINE m == Len(a)
           n == Len(b)
           P(w) == Part(w.mag, w.unit)
<1>1. /\ m \in Nat /\ n \in Nat /\ a \o b \in Seq(EvenParts) /\ Len(a \o b) = m + n
      /\ DOMAIN a = 1..m /\ DOMAIN b = 1..n /\ DOMAIN (a \o b) = 1..(m + n)
      /\ \A k \in 1..m : (a \o b)[k] = a[k]
      /\ \A k \in 1..(m + n) : k > m => (a \o b)[k] = b[k - m]
  OBVIOUS
<1>2. Unsigned(a) \in Seq(Parts) /\ Unsigned(b) \in Seq(Parts) /\ Unsigned(a \o b) \in Seq(Parts)
  BY <1>1, UnsignedIsParts
<1>3. /\ DOMAIN Unsigned(a) = 1..m /\ DOMAIN Unsigned(b) = 1..n /\ DOMAIN Unsigned(a \o b) = 1..(m + n)
      /\ \A k \in 1..m : Unsigned(a)[k] = P(a[k])
      /\ \A k \in 1..n : Unsigned(b)[k] = P(b[k])
      /\ \A k \in 1..(m + n) : Unsigned(a \o b)[k] = P((a \o b)[k])
  BY <1>1 DEF Unsigned
<1> HIDE DEF m, n, P
<1>4. Len(Unsigned(a)) = m /\ Len(Unsigned(b)) = n /\ Len(Unsigned(a \o b)) = m + n
  BY <1>1, <1>2, <1>3
<1> DEFINE u == Unsigned(a)
           v == Unsigned(b)
           w == Unsigned(a \o b)
<1> HIDE DEF u, v, w
<1>5. /\ u \o v \in Seq(Parts) /\ Len(u \o v) = m + n
      /\ \A k \in 1..m : (u \o v)[k] = u[k]
      /\ \A k \in 1..(m + n) : k > m => (u \o v)[k] = v[k - m]
  <2>1. u \in Seq(Parts) /\ v \in Seq(Parts) /\ Len(u) = m /\ Len(v) = n
    BY <1>2, <1>4 DEF u, v
  <2> QED  BY ZenonT(90), <2>1, ConcatFacts
<1>6. \A k \in 1..(m + n) : w[k] = (u \o v)[k]
  <2> TAKE k \in 1..(m + n)
  <2>1. CASE k <= m
    <3>1. k \in 1..m
      BY <1>1, <2>1
    <3> QED  BY <1>1, <1>3, <1>5, <3>1 DEF u, w
  <2>2. CASE k > m
    <3>1. k - m \in 1..n
      BY <1>1, <2>2
    <3>2. w[k] = P((a \o b)[k]) /\ (a \o b)[k] = b[k - m]
      BY <1>1, <1>3, <2>2 DEF w
    <3>3. (u \o v)[k] = v[k - m] /\ v[k - m] = P(b[k - m])
      BY <1>3, <1>5, <2>2, <3>1 DEF v
    <3> QED  BY <3>2, <3>3
  <2>3. k <= m \/ k > m
    BY <1>1
  <2> QED  BY <2>1, <2>2, <2>3
<1>7. w \in Seq(Parts) /\ Len(w) = m + n
  BY <1>2, <1>4 DEF w
<1>8. w = u \o v
  BY <1>5, <1>6, <1>7
<1> QED
  BY <1>1, <1>8 DEF u, v, w

\* What a text says, with its sign (scan_duration).
LEMMA LiteralSays ==
  ASSUME NEW written, IsLiteral(written)
  PROVE  /\ written \in Seq(EvenParts) /\ written # <<>>
         /\ ParsedParts(written) = Scaled(Unsigned(written), IF written[1].sign = "-" THEN -1 ELSE 1)
         /\ ParsedParts(written) \in Seq(Parts)
<1>1. written \in Seq(WrittenParts) /\ written # <<>>
  BY DEF IsLiteral, IsDuration
<1>2. \A k \in 1..Len(written) : written[k] \in EvenParts
  BY <1>1 DEF IsLiteral, EvenParts
<1>3. written \in Seq(EvenParts)
  BY <1>1, <1>2
<1>4. ParsedParts(written) = Scaled(Unsigned(written), IF written[1].sign = "-" THEN -1 ELSE 1)
  BY DEF ParsedParts, Unsigned
<1>5. (IF written[1].sign = "-" THEN -1 ELSE 1) \in Int
  OBVIOUS
<1> QED
  BY <1>1, <1>3, <1>4, <1>5, UnsignedIsParts, FoldScaled

LEMMA SeqFacts ==
  ASSUME NEW S, NEW s \in Seq(S), s # <<>>
  PROVE  /\ Len(s) \in Nat /\ Len(s) >= 1 /\ 1 \in 1..Len(s) /\ DOMAIN s = 1..Len(s)
         /\ \A k \in 1..Len(s) : s[k] \in S
OBVIOUS

LEMMA FunctionIsSeq ==
  ASSUME NEW S, NEW N \in Nat, N >= 1, NEW f \in [1..N -> S]
  PROVE  f \in Seq(S) /\ f # <<>> /\ Len(f) = N
OBVIOUS

LEMMA RecordFields ==
  \A s, m, u : /\ [sign |-> s, mag |-> m, unit |-> u].sign = s
               /\ [sign |-> s, mag |-> m, unit |-> u].mag = m
               /\ [sign |-> s, mag |-> m, unit |-> u].unit = u
OBVIOUS

LEMMA WrittenFields ==
  ASSUME NEW p \in WrittenParts
  PROVE  p.mag \in Int /\ p.unit \in Units /\ p = [sign |-> p.sign, mag |-> p.mag, unit |-> p.unit]
<1>1. p.mag \in Int
  BY DEF WrittenParts
<1>2. p.unit \in Units
  BY DEF WrittenParts
<1>3. p = [sign |-> p.sign, mag |-> p.mag, unit |-> p.unit]
  BY DEF WrittenParts
<1> QED
  BY <1>1, <1>2, <1>3

\* Another sign leaves what else a text says.
LEMMA SignedLiteral ==
  ASSUME NEW written, IsLiteral(written), NEW sign \in {"", "-"}
  PROVE  LET signed == [written EXCEPT ![1].sign = sign]
         IN  IsLiteral(signed) /\ signed[1].sign = sign /\ Unsigned(signed) = Unsigned(written)
<1> DEFINE signed == [written EXCEPT ![1].sign = sign]
           N == Len(written)
<1>1. written \in Seq(WrittenParts) /\ written # <<>>
  BY DEF IsLiteral, IsDuration
<1>2. \A k \in DOMAIN written : written[k].sign = "-" => k = 1
  BY DEF IsLiteral, IsDuration
<1>3. \A k \in DOMAIN written : written[k].unit = "m" => written[k].mag % 2 = 0
  BY DEF IsLiteral
<1>4. /\ N \in Nat /\ N >= 1 /\ 1 \in 1..N /\ DOMAIN written = 1..N /\ \A k \in 1..N : written[k] \in WrittenParts
  BY <1>1, SeqFacts
<1>5. /\ DOMAIN signed = 1..N
      /\ signed[1] = [sign |-> sign, mag |-> written[1].mag, unit |-> written[1].unit]
      /\ \A k \in 1..N : k # 1 => signed[k] = written[k]
  <2>1. signed[1] = [written[1] EXCEPT !.sign = sign]
    BY <1>4
  <2>2. written[1] = [sign |-> written[1].sign, mag |-> written[1].mag, unit |-> written[1].unit]
    BY <1>4, WrittenFields
  <2> QED  BY <1>4, <2>1, <2>2
<1>6. signed = [k \in 1..N |-> signed[k]]
  BY <1>4
<1> HIDE DEF signed, N
<1>7. ASSUME NEW k \in 1..N
      PROVE  /\ signed[k] \in WrittenParts /\ signed[k].mag = written[k].mag /\ signed[k].unit = written[k].unit
             /\ k = 1 => signed[k].sign = sign
  <2>1. CASE k = 1
    <3>1. signed[k] = [sign |-> sign, mag |-> written[k].mag, unit |-> written[k].unit]
      BY <1>5, <2>1
    <3>2. signed[k].mag = written[k].mag /\ signed[k].unit = written[k].unit /\ signed[k].sign = sign
      <4> DEFINE r == signed[k]
                 m == written[k].mag
                 u == written[k].unit
      <4>1. r = [sign |-> sign, mag |-> m, unit |-> u]
        BY <3>1
      <4> HIDE DEF r, m, u
      <4>2. r.mag = m /\ r.unit = u /\ r.sign = sign
        BY <4>1, RecordFields
      <4> QED  BY <4>2 DEF r, m, u
    <3>3. written[k].mag \in Int /\ written[k].unit \in Units
      <4>1. written[k] \in WrittenParts
        BY <1>4
      <4> QED  BY <4>1, WrittenFields
    <3>4. \A mag \in Int, unit \in Units : [sign |-> sign, mag |-> mag, unit |-> unit] \in WrittenParts
      BY DEF WrittenParts
    <3> QED  BY <3>1, <3>2, <3>3, <3>4
  <2>2. CASE k # 1
    BY <1>4, <1>5, <2>2
  <2> QED  BY <2>1, <2>2
<1>8. signed \in Seq(WrittenParts) /\ signed # <<>>
  <2>1. signed \in [1..N -> WrittenParts]
    <3>1. \A k \in 1..N : signed[k] \in WrittenParts
      BY <1>7
    <3> QED  BY <1>6, <3>1
  <2>2. N \in Nat /\ N >= 1
    BY <1>4
  <2> QED  BY <2>1, <2>2, FunctionIsSeq
<1>9. IsLiteral(signed)
  <2>2. \A k \in DOMAIN signed : signed[k].sign = "-" => k = 1
    BY Zenon, <1>2, <1>4, <1>5
  <2>3. \A k \in DOMAIN signed : signed[k].unit = "m" => signed[k].mag % 2 = 0
    BY <1>3, <1>4, <1>5, <1>7
  <2> QED  BY <1>8, <2>2, <2>3 DEF IsLiteral, IsDuration
<1>10. Unsigned(signed) = Unsigned(written)
  BY <1>4, <1>5, <1>7 DEF Unsigned
<1> QED
  BY <1>4, <1>7, <1>9, <1>10 DEF signed

-----------------------------------------------------------------------------
(* Stored texts *)

\* A count of one unit, which is not written if it is none.
LEMMA CountedSays ==
  ASSUME NEW unit \in Units, NEW count \in Nat
  PROVE  LET written == IF count = 0 THEN <<>> ELSE <<Written("", 2 * count, unit)>>
         IN  /\ written \in Seq(PlainParts) /\ written \in Seq(EvenParts)
             /\ FoldParts(Unsigned(written)) = count * FixedSeconds(unit)
<1> DEFINE one == Written("", 2 * count, unit)
<1>1. one \in PlainParts /\ one \in EvenParts /\ one.mag = 2 * count /\ one.unit = unit
  <2>1. one.mag = 2 * count /\ one.unit = unit /\ one.sign = "" /\ one \in WrittenParts
    BY DEF Written, WrittenParts
  <2>2. (2 * count) % 2 = 0
    OBVIOUS
  <2> HIDE DEF one
  <2> QED  BY <2>1, <2>2 DEF EvenParts, PlainParts
<1>2. FixedSeconds(unit) \in Nat
  BY DEF FixedSeconds, Units, CalendarUnits, FixedUnits
<1> HIDE DEF one
<1>3. CASE count = 0
  <2>1. Unsigned(<<>>) = <<>>
    BY DEF Unsigned
  <2> QED  BY <1>2, <1>3, <2>1, FoldEmpty
<1>4. CASE count # 0
  <2> DEFINE part == Part(2 * count, unit)
  <2>1. Unsigned(<<one>>) = <<part>>
    BY <1>1 DEF Unsigned
  <2>2. part \in Parts
    BY DEF Parts, Part
  <2>3. PartSeconds(part) = count * FixedSeconds(unit)
    <3>1. PartSeconds(part) = (2 * count * FixedSeconds(unit)) \div 2
      BY DEF PartSeconds, Part
    <3> DEFINE f == FixedSeconds(unit)
    <3> HIDE DEF f
    <3>2. 2 * count * f = 2 * (count * f) /\ count * f \in Int
      BY <1>2 DEF f
    <3>3. (2 * (count * f)) \div 2 = count * f
      <4> DEFINE q == count * f
      <4> HIDE DEF q
      <4>1. q \in Int => (2 * q) \div 2 = q
        OBVIOUS
      <4> QED  BY <3>2, <4>1 DEF q
    <3> QED  BY <3>1, <3>2, <3>3 DEF f
  <2>4. FoldParts(<<part>>) = PartSeconds(part)
    BY <2>2, FoldOne
  <2>5. <<one>> \in Seq(PlainParts) /\ <<one>> \in Seq(EvenParts)
    BY <1>1
  <2> HIDE DEF part
  <2> QED  BY <1>4, <2>1, <2>3, <2>4, <2>5 DEF one
<1> QED
  BY <1>3, <1>4

LEMMA PlainConcat ==
  ASSUME NEW a, a \in Seq(EvenParts), a \in Seq(PlainParts),
         NEW b, b \in Seq(EvenParts), b \in Seq(PlainParts)
  PROVE  /\ a \o b \in Seq(EvenParts) /\ a \o b \in Seq(PlainParts)
         /\ FoldParts(Unsigned(a \o b)) = FoldParts(Unsigned(a)) + FoldParts(Unsigned(b))
<1>1. a \o b \in Seq(PlainParts)
  BY ConcatFacts
<1>2. a \o b \in Seq(EvenParts) /\ Unsigned(a \o b) = Unsigned(a) \o Unsigned(b)
  BY UnsignedConcat
<1>3. Unsigned(a) \in Seq(Parts) /\ Unsigned(b) \in Seq(Parts)
  BY UnsignedIsParts
<1>4. FoldParts(Unsigned(a) \o Unsigned(b)) = FoldParts(Unsigned(a)) + FoldParts(Unsigned(b))
  BY <1>3, FoldConcat
<1> QED
  BY <1>1, <1>2, <1>4

\* What is stored of so many half hours is a text that says as many.
LEMMA CanonicalSays ==
  ASSUME NEW seconds \in Int
  PROVE  IsLiteral(CanonicalRaw(seconds)) /\ FoldParts(ParsedParts(CanonicalRaw(seconds))) = seconds
<1>1. CASE seconds = 0
  <2> DEFINE none == Written("", 0, "m")
             part == Part(0, "m")
             raw == <<none>>
  <2>1. CanonicalRaw(seconds) = raw
    BY <1>1 DEF CanonicalRaw
  <2>2. none.sign = "" /\ none.unit = "m" /\ none.mag = 0 /\ none \in WrittenParts
    BY DEF Written, WrittenParts, Units, FixedUnits
  <2>3. part \in Parts /\ PartSeconds(part) = 0
    BY DEF Part, Parts, PartSeconds, FixedSeconds, Units, FixedUnits
  <2> HIDE DEF none
  <2>4. IsLiteral(raw)
    <3>1. raw \in Seq(WrittenParts) /\ raw # <<>> /\ DOMAIN raw = {1} /\ raw[1] = none
      <4>0. none \in WrittenParts
        BY <2>2
      <4>1. raw \in Seq(WrittenParts)
        BY <4>0
      <4>2. Len(raw) = 1 /\ DOMAIN raw = 1..1 /\ 1..1 = {1}
        OBVIOUS
      <4>3. raw # <<>> /\ raw[1] = none
        OBVIOUS
      <4> QED  BY <4>1, <4>2, <4>3
    <3>2. 0 % 2 = 0
      OBVIOUS
    <3>3. \A k \in DOMAIN raw : k = 1
      BY <3>1
    <3> HIDE DEF raw
    <3> QED  BY <2>2, <3>1, <3>2, <3>3 DEF IsLiteral, IsDuration
  <2>5. Unsigned(raw) = <<part>>
    <3>1. part = Part(none.mag, none.unit)
      BY <2>2
    <3> HIDE DEF part
    <3> QED  BY <3>1 DEF Unsigned
  <2> HIDE DEF raw
  <2>6. /\ ParsedParts(raw) = Scaled(Unsigned(raw), IF raw[1].sign = "-" THEN -1 ELSE 1)
        /\ (IF raw[1].sign = "-" THEN -1 ELSE 1) \in Int
    BY <2>4, LiteralSays
  <2> HIDE DEF part
  <2>7. <<part>> \in Seq(Parts) /\ FoldParts(<<part>>) = 0
    BY <2>3, FoldOne
  <2> DEFINE n == IF raw[1].sign = "-" THEN -1 ELSE 1
  <2> HIDE DEF n
  <2>8. FoldParts(Scaled(<<part>>, n)) = n * 0 /\ n \in Int
    BY <2>6, <2>7, FoldScaled DEF n
  <2>9. n * 0 = 0
    BY <2>8
  <2> QED  BY <1>1, <2>1, <2>4, <2>5, <2>6, <2>8, <2>9 DEF n
<1>2. CASE seconds # 0
  <2> DEFINE size == Abs(seconds)
             Piece(unit, count) == IF count = 0 THEN <<>> ELSE <<Written("", 2 * count, unit)>>
             weeks == Piece("w", size \div 336)
             days == Piece("d", (size % 336) \div 48)
             hours == Piece("h", (size % 48) \div 2)
             rest == Piece("m", (size % 2) \div 1)
             raw == weeks \o days \o hours \o rest
             sign == IF seconds < 0 THEN "-" ELSE ""
  <2>1. size \in Nat /\ size > 0
    BY <1>2 DEF Abs
  <2> HIDE DEF size
  <2>2. weeks = Counted(size, 1) /\ days = Counted(size, 2) /\ hours = Counted(size, 3) /\ rest = Counted(size, 4)
    <3>1. /\ Decomposition[1] = "w" /\ Decomposition[2] = "d" /\ Decomposition[3] = "h" /\ Decomposition[4] = "m"
          /\ FixedSeconds("w") = 336 /\ FixedSeconds("d") = 48 /\ FixedSeconds("h") = 2 /\ FixedSeconds("m") = 1
      BY DEF Decomposition, FixedSeconds
    <3>2. ASSUME NEW k \in 1..4, NEW above, NEW unit, Decomposition[k] = unit,
                 above = IF k = 1 THEN size ELSE size % FixedSeconds(Decomposition[k - 1])
          PROVE  Counted(size, k) = Piece(unit, above \div FixedSeconds(unit))
      BY Zenon, <3>2 DEF Counted
    <3>3. 2 - 1 = 1 /\ 3 - 1 = 2 /\ 4 - 1 = 3 /\ 1 \in 1..4 /\ 2 \in 1..4 /\ 3 \in 1..4 /\ 4 \in 1..4
      OBVIOUS
    <3> HIDE DEF Piece
    <3>4. Counted(size, 1) = weeks
      BY <3>1, <3>2, <3>3
    <3>5. Counted(size, 2) = days
      BY <3>1, <3>2, <3>3
    <3>6. Counted(size, 3) = hours
      BY <3>1, <3>2, <3>3
    <3>7. Counted(size, 4) = rest
      BY <3>1, <3>2, <3>3
    <3> QED  BY <3>4, <3>5, <3>6, <3>7
  <2>3. CanonicalRaw(seconds) = [raw EXCEPT ![1].sign = sign]
    <3>1. CanonicalRaw(seconds)
            = [Counted(size, 1) \o Counted(size, 2) \o Counted(size, 3) \o Counted(size, 4) EXCEPT ![1].sign = sign]
      BY Zenon, <1>2 DEF CanonicalRaw, size
    <3> HIDE DEF weeks, days, hours, rest, sign
    <3> QED  BY Zenon, <2>2, <3>1
  <2>4. ASSUME NEW unit \in Units, NEW count \in Nat
        PROVE  /\ Piece(unit, count) \in Seq(PlainParts) /\ Piece(unit, count) \in Seq(EvenParts)
               /\ FoldParts(Unsigned(Piece(unit, count))) = count * FixedSeconds(unit)
    BY CountedSays
  <2>5. /\ "w" \in Units /\ "d" \in Units /\ "h" \in Units /\ "m" \in Units
        /\ FixedSeconds("w") = 336 /\ FixedSeconds("d") = 48 /\ FixedSeconds("h") = 2 /\ FixedSeconds("m") = 1
    BY DEF FixedSeconds, Units, CalendarUnits, FixedUnits
  <2>6. /\ size \div 336 \in Nat /\ (size % 336) \div 48 \in Nat /\ (size % 48) \div 2 \in Nat
        /\ (size % 2) \div 1 \in Nat
        /\ (size \div 336) * 336 + ((size % 336) \div 48) * 48 + ((size % 48) \div 2) * 2 + ((size % 2) \div 1) * 1 = size
    BY <2>1
  <2> DEFINE w == size \div 336
             d == (size % 336) \div 48
             h == (size % 48) \div 2
             m == (size % 2) \div 1
  <2> HIDE DEF w, d, h, m, Piece
  <2>7. /\ weeks \in Seq(EvenParts) /\ weeks \in Seq(PlainParts) /\ FoldParts(Unsigned(weeks)) = w * 336
        /\ days \in Seq(EvenParts) /\ days \in Seq(PlainParts) /\ FoldParts(Unsigned(days)) = d * 48
        /\ hours \in Seq(EvenParts) /\ hours \in Seq(PlainParts) /\ FoldParts(Unsigned(hours)) = h * 2
        /\ rest \in Seq(EvenParts) /\ rest \in Seq(PlainParts) /\ FoldParts(Unsigned(rest)) = m * 1
    BY <2>4, <2>5, <2>6 DEF w, d, h, m
  <2> HIDE DEF weeks, days, hours, rest
  <2>8. raw \in Seq(EvenParts) /\ raw \in Seq(PlainParts) /\ FoldParts(Unsigned(raw)) = size
    <3>1. /\ weeks \o days \in Seq(EvenParts) /\ weeks \o days \in Seq(PlainParts)
          /\ FoldParts(Unsigned(weeks \o days)) = w * 336 + d * 48
      BY <2>7, PlainConcat
    <3> DEFINE two == weeks \o days
               three == two \o hours
    <3> HIDE DEF two
    <3>2. /\ three \in Seq(EvenParts) /\ three \in Seq(PlainParts)
          /\ FoldParts(Unsigned(three)) = (w * 336 + d * 48) + h * 2
      <4>1. two \in Seq(EvenParts) /\ two \in Seq(PlainParts) /\ FoldParts(Unsigned(two)) = w * 336 + d * 48
        BY <3>1 DEF two
      <4> QED  BY <2>7, <4>1, PlainConcat
    <3>3. raw = three \o rest
      BY DEF two
    <3> HIDE DEF three, raw
    <3>4. /\ raw \in Seq(EvenParts) /\ raw \in Seq(PlainParts)
          /\ FoldParts(Unsigned(raw)) = ((w * 336 + d * 48) + h * 2) + m * 1
      BY <2>7, <3>2, <3>3, PlainConcat
    <3> QED  BY <2>1, <2>6, <3>4 DEF w, d, h, m
  <2> HIDE DEF raw, sign
  <2>9. raw # <<>>
    <3>1. Unsigned(<<>>) = <<>>
      BY DEF Unsigned
    <3> QED  BY <2>1, <2>8, <3>1, FoldEmpty
  <2> DEFINE signed == [raw EXCEPT ![1].sign = sign]
  <2>10. IsLiteral(raw)
    <3>1. \A k \in DOMAIN raw : raw[k] \in PlainParts
      BY <2>8
    <3>2. IsDuration(raw)
      BY Zenon, <2>9, <3>1, "" # "-" DEF IsDuration, PlainParts
    <3>3. raw \in Seq(WrittenParts)
      <4>1. EvenParts \subseteq WrittenParts
        BY DEF EvenParts
      <4> QED  BY <2>8, <4>1
    <3>4. \A k \in DOMAIN raw : raw[k].unit = "m" => raw[k].mag % 2 = 0
      BY Zenon, <3>1 DEF PlainParts, EvenParts
    <3> QED  BY <3>2, <3>3, <3>4 DEF IsLiteral
  <2>11. sign \in {"", "-"} /\ (sign = "-" <=> seconds < 0)
    BY DEF sign
  <2>12. IsLiteral(signed) /\ signed[1].sign = sign /\ Unsigned(signed) = Unsigned(raw)
    BY <2>10, <2>11, SignedLiteral
  <2> HIDE DEF signed
  <2> DEFINE n == IF signed[1].sign = "-" THEN -1 ELSE 1
  <2>13. n \in Int /\ ParsedParts(signed) = Scaled(Unsigned(raw), n)
    BY <2>12, LiteralSays
  <2>14. n * size = seconds
    <3>1. n = IF seconds < 0 THEN -1 ELSE 1
      BY Zenon, <2>11, <2>12
    <3>2. size = IF seconds < 0 THEN -seconds ELSE seconds
      BY DEF size, Abs
    <3> HIDE DEF n
    <3> QED  BY <3>1, <3>2
  <2> HIDE DEF n
  <2>15. FoldParts(ParsedParts(signed)) = n * size
    BY <2>8, <2>13, UnsignedIsParts, FoldScaled
  <2> QED  BY <2>3, <2>12, <2>14, <2>15 DEF signed
<1> QED
  BY <1>1, <1>2

-----------------------------------------------------------------------------
(* Arithmetic of durations *)

\* A duration that is as long as its text and its parts.
DurationOK(d) ==
  /\ d.seconds \in Int
  /\ IsLiteral(d.raw) /\ FoldParts(ParsedParts(d.raw)) = d.seconds
  /\ d.parts = <<>> \/ \E parts \in Seq(Parts) : d.parts = <<parts>> /\ FoldParts(parts) = d.seconds

\* A parsed duration is one, and has the parts it was written with.
LEMMA ParsedOK ==
  ASSUME NEW written, IsLiteral(written)
  PROVE  /\ DurationOK(ParseDuration(written))
         /\ ParseDuration(written).parts = <<ParsedParts(written)>>
<1> DEFINE d == ParseDuration(written)
           parts == ParsedParts(written)
<1>1. d.raw = written /\ d.seconds = FoldParts(parts) /\ d.parts = <<parts>>
  BY DEF ParseDuration, DurationValue
<1>2. parts \in Seq(Parts)
  BY LiteralSays
<1>3. FoldParts(parts) \in Int
  BY <1>2, FoldIsInt
<1> HIDE DEF d
<1> QED
  BY <1>1, <1>2, <1>3 DEF DurationOK, d

\* A measured duration, and one of parts.
LEMMA FromSecondsOK ==
  ASSUME NEW seconds \in Int
  PROVE  DurationOK(FromSeconds(seconds)) /\ FromSeconds(seconds).seconds = seconds
         /\ FromSeconds(seconds).parts = <<>>
<1> DEFINE d == FromSeconds(seconds)
<1>1. d.raw = CanonicalRaw(seconds) /\ d.seconds = seconds /\ d.parts = <<>>
  BY DEF FromSeconds, DurationValue
<1> HIDE DEF d
<1>2. IsLiteral(d.raw) /\ FoldParts(ParsedParts(d.raw)) = d.seconds
  BY <1>1, CanonicalSays
<1> QED
  BY <1>1, <1>2 DEF DurationOK, d

LEMMA FromPartsOK ==
  ASSUME NEW parts \in Seq(Parts)
  PROVE  DurationOK(FromParts(parts)) /\ FromParts(parts).seconds = FoldParts(parts)
         /\ FromParts(parts).parts = <<parts>>
<1> DEFINE d == FromParts(parts)
           seconds == FoldParts(parts)
<1>1. d.raw = CanonicalRaw(seconds) /\ d.seconds = seconds /\ d.parts = <<parts>>
  BY DEF FromParts, DurationValue
<1>2. seconds \in Int
  BY FoldIsInt
<1> HIDE DEF d, seconds
<1>3. IsLiteral(d.raw) /\ FoldParts(ParsedParts(d.raw)) = d.seconds
  BY <1>1, <1>2, CanonicalSays
<1>4. FoldParts(parts) = d.seconds
  BY <1>1 DEF seconds
<1> QED
  BY <1>1, <1>2, <1>3, <1>4 DEF DurationOK, d, seconds

\* Whether a duration is written shows in its parts.
LEMMA WrittenOrMeasured ==
  ASSUME NEW d, DurationOK(d)
  PROVE  \/ d.parts = <<>>
         \/ d.parts # <<>> /\ d.parts[1] \in Seq(Parts) /\ d.parts = <<d.parts[1]>>
            /\ FoldParts(d.parts[1]) = d.seconds
<1>1. CASE d.parts = <<>>
  BY <1>1
<1>2. ASSUME NEW parts \in Seq(Parts), d.parts = <<parts>>, FoldParts(parts) = d.seconds
      PROVE  d.parts # <<>> /\ d.parts[1] \in Seq(Parts) /\ d.parts = <<d.parts[1]>>
             /\ FoldParts(d.parts[1]) = d.seconds
  <2>1. <<parts>> # <<>> /\ <<parts>>[1] = parts
    OBVIOUS
  <2> QED  BY <1>2, <2>1
<1> QED
  BY <1>1, <1>2 DEF DurationOK

\* Sums and differences (combine).
LEMMA CombineOK ==
  ASSUME NEW a, DurationOK(a), NEW b, DurationOK(b), NEW sign \in {1, -1}
  PROVE  DurationOK(Combine(a, b, sign)) /\ Combine(a, b, sign).seconds = a.seconds + sign * b.seconds
<1>1. a.seconds \in Int /\ b.seconds \in Int /\ sign \in Int /\ a.seconds + sign * b.seconds \in Int
  BY DEF DurationOK
<1>2. CASE a.parts # <<>> /\ b.parts # <<>>
  <2> DEFINE l == a.parts[1]
             r == b.parts[1]
  <2>1. l \in Seq(Parts) /\ FoldParts(l) = a.seconds /\ r \in Seq(Parts) /\ FoldParts(r) = b.seconds
    BY <1>2, WrittenOrMeasured
  <2>2. Combine(a, b, sign) = FromParts(l \o Scaled(r, sign))
    BY <1>2 DEF Combine
  <2> HIDE DEF l, r
  <2>3. Scaled(r, sign) \in Seq(Parts) /\ FoldParts(Scaled(r, sign)) = sign * b.seconds
    BY <1>1, <2>1, FoldScaled
  <2>4. /\ l \o Scaled(r, sign) \in Seq(Parts)
        /\ FoldParts(l \o Scaled(r, sign)) = a.seconds + sign * b.seconds
    BY <2>1, <2>3, FoldConcat
  <2> QED  BY <2>2, <2>4, FromPartsOK
<1>3. CASE ~(a.parts # <<>> /\ b.parts # <<>>)
  <2>1. Combine(a, b, sign) = FromSeconds(a.seconds + sign * b.seconds)
    BY <1>3 DEF Combine
  <2> QED  BY <1>1, <2>1, FromSecondsOK
<1> QED
  BY <1>2, <1>3

\* Products, and of written durations their parts.
LEMMA TimesOK ==
  ASSUME NEW d, DurationOK(d), NEW n \in Int
  PROVE  /\ DurationOK(Times(d, n))
         /\ d.parts # <<>> => Times(d, n).parts = <<Scaled(d.parts[1], n)>>
<1>1. CASE d.parts # <<>>
  <2> DEFINE parts == d.parts[1]
  <2>1. parts \in Seq(Parts) /\ Times(d, n) = FromParts(Scaled(parts, n))
    BY <1>1, WrittenOrMeasured DEF Times
  <2> HIDE DEF parts
  <2>2. Scaled(parts, n) \in Seq(Parts)
    BY <2>1, FoldScaled
  <2> QED  BY <2>1, <2>2, FromPartsOK DEF parts
<1>2. CASE d.parts = <<>>
  <2>1. d.seconds * n \in Int
    BY DEF DurationOK
  <2>2. Times(d, n) = FromSeconds(d.seconds * n)
    BY <1>2 DEF Times
  <2> QED  BY <1>2, <2>1, <2>2, FromSecondsOK
<1> QED
  BY <1>1, <1>2

-----------------------------------------------------------------------------
(* Moving *)

\* A reading is a day and a time of it.
LEMMA WallParts ==
  /\ \A wall \in Int : /\ DateOf(wall) \in Int /\ TimeOf(wall) \in 0..47
                       /\ Midnight(DateOf(wall)) + TimeOf(wall) = wall
  /\ \A day \in Int : \A time \in 0..47 :
       /\ Midnight(day) + time \in Int
       /\ DateOf(Midnight(day) + time) = day /\ TimeOf(Midnight(day) + time) = time
  /\ \A day \in Int : Midnight(day) \in Int /\ DateOf(Midnight(day)) = day /\ TimeOf(Midnight(day)) = 0
<1>1. \A wall \in Int : /\ DateOf(wall) \in Int /\ TimeOf(wall) \in 0..47
                       /\ Midnight(DateOf(wall)) + TimeOf(wall) = wall
  BY DEF DateOf, TimeOf, Midnight, DayTicks
<1>2. ASSUME NEW day \in Int, NEW time \in 0..47
      PROVE  /\ Midnight(day) + time \in Int
             /\ DateOf(Midnight(day) + time) = day /\ TimeOf(Midnight(day) + time) = time
  BY DEF DateOf, TimeOf, Midnight, DayTicks
<1>3. ASSUME NEW day \in Int
      PROVE  Midnight(day) \in Int /\ DateOf(Midnight(day)) = day /\ TimeOf(Midnight(day)) = 0
  BY DEF DateOf, TimeOf, Midnight, DayTicks
<1> QED
  BY <1>1, <1>2, <1>3

\* Moved by months, a reading comes to lie in the month that is as many on, at
\* the same time of its day or, if the month has no such day, of the month's last.
LEMMA AddMonthsLands ==
  ASSUME NEW wall \in Int, NEW n \in Int
  PROVE  LET month == Month(DateOf(wall)) + n
             there == AddMonths(wall, n)
         IN  /\ there \in Int /\ TimeOf(there) = TimeOf(wall) /\ Month(DateOf(there)) = month
             /\ DayOfMonth(DateOf(there)) = Least(DayOfMonth(DateOf(wall)), MonthDays(month))
             /\ DateOf(there) = DayAt(month, Least(DayOfMonth(DateOf(wall)), MonthDays(month)))
<1> DEFINE month == Month(DateOf(wall)) + n
           dom == DayOfMonth(DateOf(wall))
           kept == Least(dom, MonthDays(month))
           day == DayAt(month, kept)
<1>1. DateOf(wall) \in Int /\ TimeOf(wall) \in 0..47
  BY WallParts
<1>2. month \in Int /\ dom \in 1..MonthDays(Month(DateOf(wall))) /\ Month(DateOf(wall)) \in Int
  BY <1>1, CalendarIsExact
<1>3. MonthDays(month) \in 28..31 /\ MonthDays(Month(DateOf(wall))) \in 28..31
  BY <1>2, MonthStep
<1>4. AddMonths(wall, n) = Midnight(day) + TimeOf(wall)
  BY DEF AddMonths
<1> HIDE DEF month, dom
<1>5. kept \in 1..MonthDays(month)
  BY <1>2, <1>3 DEF Least
<1> HIDE DEF kept
<1>6. day \in Int /\ Month(day) = month /\ DayOfMonth(day) = kept
  BY <1>2, <1>5, CalendarIsExact
<1> HIDE DEF day
<1>7. /\ Midnight(day) + TimeOf(wall) \in Int /\ DateOf(Midnight(day) + TimeOf(wall)) = day
      /\ TimeOf(Midnight(day) + TimeOf(wall)) = TimeOf(wall)
  BY <1>1, <1>6, WallParts
<1> QED
  BY <1>4, <1>6, <1>7 DEF day, kept, month, dom

LEMMA UnitsSplit ==
  ASSUME NEW unit \in Units
  PROVE  /\ unit \in FixedUnits <=> unit \notin CalendarUnits
         /\ unit \in CalendarUnits => unit \in {"y", "mo", "w", "d"}
         /\ FixedSeconds(unit) \in Nat /\ FixedSeconds(unit) > 0
BY DEF Units, CalendarUnits, FixedUnits, FixedSeconds

LEMMA ShiftWallIsInt ==
  ASSUME NEW wall \in Int, NEW n \in Int, NEW unit \in Units
  PROVE  ShiftWall(wall, n, unit) \in Int
<1>1. CASE unit = "y"
  BY <1>1, AddMonthsLands DEF ShiftWall
<1>2. CASE unit = "mo"
  BY <1>2, AddMonthsLands DEF ShiftWall
<1>3. CASE unit = "w"
  BY <1>3 DEF ShiftWall, AddDays, DayTicks
<1>4. CASE unit = "d"
  BY <1>4 DEF ShiftWall, AddDays, DayTicks
<1>5. CASE unit \notin {"y", "mo", "w", "d"}
  BY <1>5, UnitsSplit DEF ShiftWall
<1> QED
  BY <1>1, <1>2, <1>3, <1>4, <1>5

\* Any reading has an instant and any instant a reading.
LEMMA ClockIsTotal ==
  ASSUME NEW z, IsZone(z)
  PROVE  \A i \in Int : LocalWall(z, i) \in Int /\ LocalToUtc(z, i) \in Int
<1>1. HasOffsets(z)
  BY DEF IsZone
<1> SUFFICES ASSUME NEW i \in Int PROVE LocalWall(z, i) \in Int /\ LocalToUtc(z, i) \in Int
  OBVIOUS
<1>2. LocalWall(z, i) \in Int
  <2>1. OffsetAt(z, i) \in FixedOffset
    BY <1>1, OffsetAtIsOffset
  <2> QED  BY <2>1 DEF LocalWall, FixedOffset, DayTicks
<1>3. CASE LocalOffsets(z, i) # {}
  BY <1>1, <1>2, <1>3, ReadingsResolve
<1>4. CASE LocalOffsets(z, i) = {}
  <2>1. PICK k \in DOMAIN z.changes :
          /\ z.changes[k].at + OffsetBefore(z, k) <= i
          /\ i < z.changes[k].at + z.changes[k].offset
    BY <1>4, SkippedInChange
  <2>2. LocalToUtc(z, i) = i - OffsetBefore(z, k)
    BY <1>4, <2>1, GapResolves DEF LocalToUtc, ResolvedOffset
  <2> QED  BY <1>2, <2>2, ChangeFacts
<1> QED
  BY <1>3, <1>4

LEMMA ShiftInstantIsInt ==
  ASSUME NEW z, IsZone(z), NEW i \in Int, NEW n \in Int, NEW unit \in Units
  PROVE  ShiftInstant(z, i, n, unit) \in Int
<1>1. LocalWall(z, i) \in Int
  BY ClockIsTotal
<1>2. ShiftWall(LocalWall(z, i), n, unit) \in Int
  BY <1>1, ShiftWallIsInt
<1>3. LocalToUtc(z, ShiftWall(LocalWall(z, i), n, unit)) \in Int
  BY <1>2, ClockIsTotal
<1>4. i + n * FixedSeconds(unit) \in Int
  BY UnitsSplit
<1> QED
  BY <1>3, <1>4 DEF ShiftInstant

LEMMA PartPieces ==
  ASSUME NEW part \in Parts
  PROVE  part.unit \in Units /\ PartSeconds(part) \in Int /\ Rest(part) \in Int /\ Trunc(part.mag, 2) \in Int
<1>1. part.mag \in Int /\ part.unit \in Units
  BY DEF Parts
<1>2. FixedSeconds(part.unit) \in Int
  BY <1>1, UnitsSplit
<1>3. Fract(part.mag, 2) \in Int /\ Trunc(part.mag, 2) \in Int
  BY <1>1 DEF Fract, Trunc, Sign, Abs
<1>4. Fract(part.mag, 2) * FixedSeconds(part.unit) \in Int
  BY <1>2, <1>3
<1>5. Rest(part) \in Int
  BY <1>4 DEF Rest
<1> QED
  BY <1>1, <1>3, <1>5, PartLength

LEMMA ApplyPartIsInt ==
  ASSUME NEW z, IsZone(z), NEW at \in Int, NEW part \in Parts
  PROVE  ApplyPartToDate(at, part) \in Int /\ ApplyPartToInstant(z, at, part) \in Int
<1>1. part.unit \in Units /\ PartSeconds(part) \in Int /\ Rest(part) \in Int /\ Trunc(part.mag, 2) \in Int
  BY PartPieces
<1>2. ApplyPartToDate(at, part) \in Int
  <2>1. Midnight(at) \in Int
    BY WallParts
  <2>2. DateOf(Midnight(at) + PartSeconds(part)) \in Int
    <3>1. Midnight(at) + PartSeconds(part) \in Int
      BY <1>1, <2>1
    <3> QED  BY <3>1, WallParts
  <2>3. ShiftDate(at, Trunc(part.mag, 2), part.unit) \in Int
    <3>1. ShiftWall(Midnight(at), Trunc(part.mag, 2), part.unit) \in Int
      BY <1>1, <2>1, ShiftWallIsInt
    <3> QED  BY <3>1, WallParts DEF ShiftDate
  <2>4. Midnight(ShiftDate(at, Trunc(part.mag, 2), part.unit)) + Rest(part) \in Int
    <3>1. Midnight(ShiftDate(at, Trunc(part.mag, 2), part.unit)) \in Int
      BY <2>3, WallParts
    <3> QED  BY <1>1, <3>1
  <2>5. DateOf(Midnight(ShiftDate(at, Trunc(part.mag, 2), part.unit)) + Rest(part)) \in Int
    BY <2>4, WallParts
  <2> QED  BY <2>2, <2>5 DEF ApplyPartToDate
<1>3. ApplyPartToInstant(z, at, part) \in Int
  <2> DEFINE whole == Trunc(part.mag, 2)
             moved == IF whole = 0 THEN at ELSE ShiftInstant(z, at, whole, part.unit)
  <2>1. moved \in Int
    BY <1>1, ShiftInstantIsInt
  <2>2. at + PartSeconds(part) \in Int
    BY <1>1
  <2>3. ApplyPartToInstant(z, at, part) =
          IF part.unit \in FixedUnits THEN at + PartSeconds(part)
          ELSE IF Rest(part) = 0 THEN moved ELSE LocalToUtc(z, LocalWall(z, moved) + Rest(part))
    BY DEF ApplyPartToInstant
  <2> HIDE DEF moved
  <2>4. LocalWall(z, moved) + Rest(part) \in Int
    BY <1>1, <2>1, ClockIsTotal
  <2>5. LocalToUtc(z, LocalWall(z, moved) + Rest(part)) \in Int
    BY <2>4, ClockIsTotal
  <2> QED  BY <2>1, <2>2, <2>3, <2>5
<1> QED
  BY <1>2, <1>3

\* Moving a number from place to place of parts by what keeps it a number.
LEMMA AppliedIsInt ==
  ASSUME NEW N \in Nat, NEW start \in Int, NEW step \in [(1..N) \X Int -> Int], NEW after,
         after[0] = start, \A k \in 1..N : after[k - 1] \in Int => after[k] = step[<<k, after[k - 1]>>]
  PROVE  \A k \in 0..N : after[k] \in Int
<1> DEFINE G == {k \in 0..N : after[k] \in Int}
<1>1. 0 \in G
  OBVIOUS
<1>2. ASSUME NEW n \in 0..(N - 1), n \in G PROVE n + 1 \in G
  <2>1. n + 1 \in 1..N /\ (n + 1) - 1 = n /\ after[n] \in Int
    BY <1>2
  <2>2. after[n + 1] = step[<<n + 1, after[n]>>] /\ <<n + 1, after[n]>> \in (1..N) \X Int
    BY <2>1
  <2> QED  BY <2>1, <2>2
<1> HIDE DEF G
<1>3. \A k \in 0..N : k \in G
  BY <1>1, <1>2, UpTo
<1> QED
  BY <1>3 DEF G

LEMMA ApplyToDateIsInt ==
  ASSUME NEW day \in Int, NEW d, DurationOK(d)
  PROVE  ApplyToDate(day, d) \in Int
<1>1. CASE d.parts = <<>>
  <2>1. Midnight(day) + d.seconds \in Int
    <3>1. Midnight(day) \in Int /\ d.seconds \in Int
      BY WallParts DEF DurationOK
    <3> QED  BY <3>1
  <2>2. DateOf(Midnight(day) + d.seconds) \in Int
    BY <2>1, WallParts
  <2> QED  BY <1>1, <2>2 DEF ApplyToDate
<1>2. CASE d.parts # <<>>
  <2> DEFINE parts == d.parts[1]
             N == Len(parts)
             At(f, k) == IF k = 0 THEN day ELSE ApplyPartToDate(f[k - 1], parts[k])
             step == [p \in (1..N) \X Int |-> ApplyPartToDate(p[2], parts[p[1]])]
             after == CHOOSE f : f = [k \in 0..N |-> At(f, k)]
  <2>0. ApplyToDate(day, d) = after[N]
    BY <1>2 DEF ApplyToDate
  <2>1. parts \in Seq(Parts)
    BY <1>2, WrittenOrMeasured
  <2> HIDE DEF parts
  <2>2. N \in Nat /\ \A k \in 1..N : parts[k] \in Parts
    BY <2>1
  <2> HIDE DEF N
  <2>3. \A k \in 1..N, x \in Int : ApplyPartToDate(x, parts[k]) \in Int
    <3> TAKE k \in 1..N, x \in Int
    <3>1. parts[k] \in Parts
      BY <2>2
    <3>2. [base |-> 0, changes |-> <<>>].changes = <<>> /\ [base |-> 0, changes |-> <<>>].base = 0
      OBVIOUS
    <3>3. IsZone([base |-> 0, changes |-> <<>>])
      BY <3>2 DEF IsZone, HasOffsets, FixedOffset, DayTicks
    <3> QED  BY <3>1, <3>3, ApplyPartIsInt
  <2>4. step \in [(1..N) \X Int -> Int] /\ \A k \in 1..N, x \in Int : step[<<k, x>>] = ApplyPartToDate(x, parts[k])
    BY <2>2, <2>3
  <2> HIDE DEF step
  <2>5. PICK f : f = [k \in 0..N |-> IF k = 0 THEN day ELSE step[<<k, f[k - 1]>>]]
    BY ZenonT(90), <2>2, <2>4, StepsExist
  <2>6. f[0] = day /\ \A k \in 1..N : f[k] = step[<<k, f[k - 1]>>]
    BY <2>2, <2>5
  <2>7. \A k \in 0..N : f[k] \in Int
    BY ZenonT(90), <2>2, <2>4, <2>6, AppliedIsInt
  <2>8. ASSUME NEW k \in 0..N PROVE f[k] = At(f, k)
    <3>1. CASE k = 0
      BY <2>6, <3>1
    <3>2. CASE k # 0
      <4>1. k \in 1..N /\ k - 1 \in 0..N
        BY <2>2, <3>2
      <4>2. f[k] = step[<<k, f[k - 1]>>] /\ f[k - 1] \in Int
        BY <2>6, <2>7, <4>1
      <4> QED  BY <2>4, <3>2, <4>1, <4>2
    <3> QED  BY <3>1, <3>2
  <2>9. f = [k \in 0..N |-> At(f, k)]
    <3>1. f = [k \in 0..N |-> f[k]]
      BY <2>5
    <3> HIDE DEF At
    <3> QED  BY <2>8, <3>1
  <2>10. after = [k \in 0..N |-> At(after, k)]
    <3> HIDE DEF At
    <3> QED  BY <2>9
  <2> HIDE DEF after
  <2>11. \A k \in 0..N : after[k] = At(after, k)
    <3> HIDE DEF At
    <3> QED  BY <2>10
  <2>12. after[0] = day
    BY <2>2, <2>11
  <2>13. ASSUME NEW k \in 1..N, after[k - 1] \in Int PROVE after[k] = step[<<k, after[k - 1]>>]
    <3>1. k \in 0..N /\ k # 0
      BY <2>2
    <3>2. after[k] = ApplyPartToDate(after[k - 1], parts[k])
      BY <2>11, <3>1
    <3> QED  BY <2>4, <2>13, <3>2
  <2>14. \A k \in 0..N : after[k] \in Int
    BY <2>2, <2>4, <2>12, <2>13, AppliedIsInt
  <2> QED  BY <2>0, <2>2, <2>14
<1> QED
  BY <1>1, <1>2

LEMMA ApplyToInstantIsInt ==
  ASSUME NEW z, IsZone(z), NEW instant \in Int, NEW d, DurationOK(d)
  PROVE  ApplyToInstant(z, instant, d) \in Int
<1>1. CASE d.parts = <<>>
  BY <1>1 DEF ApplyToInstant, DurationOK
<1>2. CASE d.parts # <<>>
  <2> DEFINE parts == d.parts[1]
             N == Len(parts)
             At(f, k) == IF k = 0 THEN instant ELSE ApplyPartToInstant(z, f[k - 1], parts[k])
             step == [p \in (1..N) \X Int |-> ApplyPartToInstant(z, p[2], parts[p[1]])]
             after == CHOOSE f : f = [k \in 0..N |-> At(f, k)]
  <2>0. ApplyToInstant(z, instant, d) = after[N]
    BY <1>2 DEF ApplyToInstant
  <2>1. parts \in Seq(Parts)
    BY <1>2, WrittenOrMeasured
  <2> HIDE DEF parts
  <2>2. N \in Nat /\ \A k \in 1..N : parts[k] \in Parts
    BY <2>1
  <2> HIDE DEF N
  <2>3. \A k \in 1..N, x \in Int : ApplyPartToInstant(z, x, parts[k]) \in Int
    BY <2>2, ApplyPartIsInt
  <2>4. step \in [(1..N) \X Int -> Int] /\ \A k \in 1..N, x \in Int : step[<<k, x>>] = ApplyPartToInstant(z, x, parts[k])
    BY <2>2, <2>3
  <2> HIDE DEF step
  <2>5. PICK f : f = [k \in 0..N |-> IF k = 0 THEN instant ELSE step[<<k, f[k - 1]>>]]
    BY ZenonT(90), <2>2, <2>4, StepsExist
  <2>6. f[0] = instant /\ \A k \in 1..N : f[k] = step[<<k, f[k - 1]>>]
    BY <2>2, <2>5
  <2>7. \A k \in 0..N : f[k] \in Int
    BY ZenonT(90), <2>2, <2>4, <2>6, AppliedIsInt
  <2>8. ASSUME NEW k \in 0..N PROVE f[k] = At(f, k)
    <3>1. CASE k = 0
      BY <2>6, <3>1
    <3>2. CASE k # 0
      <4>1. k \in 1..N /\ k - 1 \in 0..N
        BY <2>2, <3>2
      <4>2. f[k] = step[<<k, f[k - 1]>>] /\ f[k - 1] \in Int
        BY <2>6, <2>7, <4>1
      <4> QED  BY <2>4, <3>2, <4>1, <4>2
    <3> QED  BY <3>1, <3>2
  <2>9. f = [k \in 0..N |-> At(f, k)]
    <3>1. f = [k \in 0..N |-> f[k]]
      BY <2>5
    <3> HIDE DEF At
    <3> QED  BY <2>8, <3>1
  <2>10. after = [k \in 0..N |-> At(after, k)]
    <3> HIDE DEF At
    <3> QED  BY <2>9
  <2> HIDE DEF after
  <2>11. \A k \in 0..N : after[k] = At(after, k)
    <3> HIDE DEF At
    <3> QED  BY <2>10
  <2>12. after[0] = instant
    BY <2>2, <2>11
  <2>13. ASSUME NEW k \in 1..N, after[k - 1] \in Int PROVE after[k] = step[<<k, after[k - 1]>>]
    <3>1. k \in 0..N /\ k # 0
      BY <2>2
    <3>2. after[k] = ApplyPartToInstant(z, after[k - 1], parts[k])
      BY <2>11, <3>1
    <3> QED  BY <2>4, <2>13, <3>2
  <2>14. \A k \in 0..N : after[k] \in Int
    BY <2>2, <2>4, <2>12, <2>13, AppliedIsInt
  <2> QED  BY <2>0, <2>2, <2>14
<1> QED
  BY <1>1, <1>2

\* By one part a date moves by that part alone.
LEMMA ApplyOne ==
  ASSUME NEW z, NEW at, NEW part, NEW d, d.parts = <<<<part>>>>
  PROVE  /\ ApplyToDate(at, d) = ApplyPartToDate(at, part)
         /\ ApplyToInstant(z, at, d) = ApplyPartToInstant(z, at, part)
<1> DEFINE ps == d.parts[1]
<1>1. d.parts # <<>> /\ ps = <<part>> /\ Len(ps) = 1 /\ ps[1] = part
  <2>1. <<<<part>>>> # <<>> /\ <<<<part>>>>[1] = <<part>> /\ Len(<<part>>) = 1 /\ <<part>>[1] = part
    OBVIOUS
  <2> QED  BY <2>1
<1> HIDE DEF ps
<1>2. ApplyToDate(at, d) = ApplyPartToDate(at, part)
  <2> DEFINE At(f, k) == IF k = 0 THEN at ELSE ApplyPartToDate(f[k - 1], ps[k])
             g == [k \in 0..1 |-> IF k = 0 THEN at ELSE ApplyPartToDate(at, ps[k])]
             h == CHOOSE f : f = [k \in 0..1 |-> At(f, k)]
  <2>0. ApplyToDate(at, d) = h[1]
    BY <1>1 DEF ApplyToDate, ps
  <2>1. \A k \in 0..1 : g[k] = At(g, k)
    OBVIOUS
  <2>2. g = [k \in 0..1 |-> At(g, k)]
    <3> HIDE DEF At
    <3> QED  BY ZenonT(90), <2>1
  <2>3. h = [k \in 0..1 |-> At(h, k)]
    <3> HIDE DEF At, g
    <3> QED  BY <2>2
  <2> HIDE DEF h
  <2>4. \A k \in 0..1 : h[k] = At(h, k)
    <3> HIDE DEF At
    <3> QED  BY <2>3
  <2>5. h[0] = at /\ h[1] = ApplyPartToDate(h[0], ps[1])
    BY <2>4
  <2> QED  BY <1>1, <2>0, <2>5
<1>3. ApplyToInstant(z, at, d) = ApplyPartToInstant(z, at, part)
  <2> DEFINE At(f, k) == IF k = 0 THEN at ELSE ApplyPartToInstant(z, f[k - 1], ps[k])
             g == [k \in 0..1 |-> IF k = 0 THEN at ELSE ApplyPartToInstant(z, at, ps[k])]
             h == CHOOSE f : f = [k \in 0..1 |-> At(f, k)]
  <2>0. ApplyToInstant(z, at, d) = h[1]
    BY <1>1 DEF ApplyToInstant, ps
  <2>1. \A k \in 0..1 : g[k] = At(g, k)
    BY SMTT(90)
  <2>2. g = [k \in 0..1 |-> At(g, k)]
    <3> HIDE DEF At
    <3> QED  BY ZenonT(90), <2>1
  <2>3. h = [k \in 0..1 |-> At(h, k)]
    <3> HIDE DEF At, g
    <3> QED  BY <2>2
  <2> HIDE DEF h
  <2>4. \A k \in 0..1 : h[k] = At(h, k)
    <3> HIDE DEF At
    <3> QED  BY <2>3
  <2>5. h[0] = at /\ h[1] = ApplyPartToInstant(z, h[0], ps[1])
    BY <2>4
  <2> QED  BY <1>1, <2>0, <2>5
<1> QED
  BY <1>2, <1>3

-----------------------------------------------------------------------------
(* Shifts *)

\* Moved by months and back, a reading is the one it was if its day of the month
\* did not have to give way.
LEMMA MonthsBack ==
  ASSUME NEW wall \in Int, NEW n \in Int,
         DayOfMonth(DateOf(AddMonths(wall, n))) >= DayOfMonth(DateOf(wall))
  PROVE  AddMonths(AddMonths(wall, n), -n) = wall
<1> DEFINE month == Month(DateOf(wall))
           dom == DayOfMonth(DateOf(wall))
           there == AddMonths(wall, n)
<1>1. /\ DateOf(wall) \in Int /\ TimeOf(wall) \in 0..47
      /\ Midnight(DateOf(wall)) + TimeOf(wall) = wall
  BY WallParts
<1>2. /\ month \in Int /\ dom \in 1..MonthDays(month) /\ DayAt(month, dom) = DateOf(wall)
      /\ MonthDays(month) \in 28..31 /\ MonthDays(month + n) \in 28..31
  <2>1. month \in Int /\ dom \in 1..MonthDays(month) /\ DayAt(month, dom) = DateOf(wall)
    BY <1>1, CalendarIsExact
  <2>2. month + n \in Int
    BY <2>1
  <2> QED  BY <2>1, <2>2, MonthStep
<1>3. /\ there \in Int /\ TimeOf(there) = TimeOf(wall) /\ Month(DateOf(there)) = month + n
      /\ DayOfMonth(DateOf(there)) = Least(dom, MonthDays(month + n))
  BY <1>2, AddMonthsLands
<1>4. DayOfMonth(DateOf(there)) >= dom
  OBVIOUS
<1> HIDE DEF month, dom, there
<1>5. DayOfMonth(DateOf(there)) = dom
  BY <1>2, <1>3, <1>4 DEF Least
<1>6. Month(DateOf(there)) + (-n) = month
  BY <1>2, <1>3
<1>7. Least(dom, MonthDays(month)) = dom
  BY <1>2 DEF Least
<1>8. AddMonths(there, -n) = Midnight(DayAt(month, dom)) + TimeOf(wall)
  BY <1>3, <1>5, <1>6, <1>7 DEF AddMonths
<1> QED
  BY <1>1, <1>2, <1>8 DEF there

LEMMA ShiftBack ==
  ASSUME NEW wall \in Int, NEW n \in Int, NEW unit \in CalendarUnits,
         DayOfMonth(DateOf(ShiftWall(wall, n, unit))) >= DayOfMonth(DateOf(wall))
  PROVE  ShiftWall(ShiftWall(wall, n, unit), -n, unit) = wall
<1>1. CASE unit = "y"
  <2>1. 12 * n \in Int /\ 12 * (-n) = -(12 * n)
    OBVIOUS
  <2>2. /\ \A w : ShiftWall(w, n, unit) = AddMonths(w, 12 * n)
        /\ \A w : ShiftWall(w, -n, unit) = AddMonths(w, -(12 * n))
    BY <1>1, <2>1 DEF ShiftWall
  <2> QED  BY <2>1, <2>2, MonthsBack
<1>2. CASE unit = "mo"
  <2>1. \A w, k : ShiftWall(w, k, unit) = AddMonths(w, k)
    BY <1>2 DEF ShiftWall
  <2> QED  BY <2>1, MonthsBack
<1>3. CASE unit = "w"
  BY <1>3 DEF ShiftWall, AddDays, DayTicks
<1>4. CASE unit = "d"
  BY <1>4 DEF ShiftWall, AddDays, DayTicks
<1> QED
  BY <1>1, <1>2, <1>3, <1>4 DEF CalendarUnits

\* The parts of a value and of a point.
LEMMA ValueFacts ==
  ASSUME IsZone(zone), NEW v, IsValue(v)
  PROVE  /\ v.at \in Int /\ v = IF HasTime(v) THEN DateTime(v.at) ELSE Date(v.at)
         /\ WallOf(zone, v) = IF HasTime(v) THEN LocalWall(zone, v.at) ELSE Midnight(v.at)
         /\ InstantOf(zone, v) = IF HasTime(v) THEN v.at ELSE LocalToUtc(zone, Midnight(v.at))
         /\ WallOf(zone, v) \in Int /\ InstantOf(zone, v) \in Int
<1>1. v.at \in Int /\ v.kind \in {"date", "datetime"} /\ v = [kind |-> v.kind, at |-> v.at]
  BY DEF IsValue
<1>2. v = IF HasTime(v) THEN DateTime(v.at) ELSE Date(v.at)
  <2>1. CASE v.kind = "datetime"
    BY <1>1, <2>1 DEF HasTime, DateTime
  <2>2. CASE v.kind # "datetime"
    BY <1>1, <2>2 DEF HasTime, Date
  <2> QED  BY <2>1, <2>2
<1>3. /\ LocalWall(zone, v.at) \in Int /\ Midnight(v.at) \in Int /\ LocalToUtc(zone, Midnight(v.at)) \in Int
  BY <1>1, WallParts, ClockIsTotal
<1> QED
  BY <1>1, <1>2, <1>3 DEF WallOf, InstantOf

LEMMA Kinds ==
  \A i : /\ HasTime(DateTime(i)) /\ DateTime(i).at = i
         /\ ~HasTime(Date(i)) /\ Date(i).at = i
         /\ i \in Int => IsValue(DateTime(i)) /\ IsValue(Date(i))
BY DEF HasTime, DateTime, Date, IsValue

LEMMA PointFacts ==
  \A wall, instant, precision :
    /\ Point(wall, instant, precision).wall = wall
    /\ Point(wall, instant, precision).instant = instant
    /\ Point(wall, instant, precision).precision = precision
BY DEF Point

\* What date_add makes of a value.
LEMMA DateAddIs ==
  ASSUME NEW v, NEW n, NEW unit
  PROVE  DateAdd(v, n, unit) = IF HasTime(v) THEN DateTime(ShiftInstant(zone, v.at, n, unit))
                               ELSE Date(DateOf(ShiftWall(Midnight(v.at), n, unit)))
<1> DEFINE point == PointOfValue(v)
<1>1. /\ point.wall = WallOf(zone, v) /\ point.instant = InstantOf(zone, v)
      /\ point.precision = IF HasTime(v) THEN "datetime" ELSE "day"
  BY PointFacts DEF PointOfValue, PointOf
<1>2. IsTimed(point) <=> HasTime(v)
  BY <1>1 DEF IsTimed
<1> HIDE DEF point
<1>3. CASE HasTime(v)
  <2>1. point.instant = v.at
    BY <1>1, <1>3 DEF InstantOf
  <2>2. ShiftPoint(zone, point, n, unit) = AtInstant(zone, ShiftInstant(zone, v.at, n, unit), point.precision)
    BY <1>2, <1>3, <2>1 DEF ShiftPoint
  <2> QED  BY <1>3, <2>2, PointFacts DEF DateAdd, ValueOf, AtInstant, point
<1>4. CASE ~HasTime(v)
  <2>1. point.wall = Midnight(v.at)
    BY <1>1, <1>4 DEF WallOf
  <2>2. ShiftPoint(zone, point, n, unit) = OnWall(zone, ShiftWall(Midnight(v.at), n, unit), point.precision)
    BY <1>2, <1>4, <2>1 DEF ShiftPoint
  <2> QED  BY <1>4, <2>2, PointFacts DEF DateAdd, ValueOf, OnWall, point
<1> QED
  BY <1>3, <1>4

\* A whole number of a unit as a part moves as that number does.
LEMMA PartOfWhole ==
  ASSUME NEW z, IsZone(z), NEW at \in Int, NEW n \in Int \ {0}, NEW unit \in Units
  PROVE  /\ Part(2 * n, unit) \in Parts
         /\ ApplyPartToDate(at, Part(2 * n, unit)) = DateOf(ShiftWall(Midnight(at), n, unit))
         /\ ApplyPartToInstant(z, at, Part(2 * n, unit)) = ShiftInstant(z, at, n, unit)
<1> DEFINE part == Part(2 * n, unit)
<1>1. part.mag = 2 * n /\ part.unit = unit
  BY DEF Part
<1>2. (2 * n) % 2 = 0 /\ (2 * n) \div 2 = n
  OBVIOUS
<1>3. part \in Parts
  BY <1>1, <1>2 DEF Parts, Part
<1> HIDE DEF part
<1>4. Trunc(2 * n, 2) = n /\ Fract(2 * n, 2) = 0
  BY DEF Trunc, Fract, Sign, Abs
<1>5. FixedSeconds(unit) \in Nat
  BY UnitsSplit
<1>6. Rest(part) = 0
  <2>1. 0 * FixedSeconds(unit) = 0 /\ 0 \div 2 = 0
    BY <1>5
  <2> QED  BY <1>1, <1>4, <2>1 DEF Rest
<1>7. PartSeconds(part) = n * FixedSeconds(unit)
  <2> DEFINE f == FixedSeconds(unit)
             q == n * f
  <2>1. PartSeconds(part) = (2 * n * f) \div 2
    BY <1>1 DEF PartSeconds
  <2> HIDE DEF f
  <2>2. 2 * n * f = 2 * q /\ q \in Int
    BY <1>5 DEF f
  <2> HIDE DEF q
  <2>3. (2 * q) \div 2 = q
    BY <2>2
  <2> QED  BY <2>1, <2>2, <2>3 DEF q, f
<1>8. ApplyPartToDate(at, part) = DateOf(ShiftWall(Midnight(at), n, unit))
  <2>1. Midnight(at) \in Int
    BY WallParts
  <2>2. CASE unit \in FixedUnits
    <3>1. ShiftWall(Midnight(at), n, unit) = Midnight(at) + n * FixedSeconds(unit)
      BY <2>2 DEF ShiftWall, FixedUnits
    <3> QED  BY <1>1, <1>7, <2>2, <3>1 DEF ApplyPartToDate
  <2>3. CASE unit \notin FixedUnits
    <3> DEFINE day == DateOf(ShiftWall(Midnight(at), n, unit))
    <3>1. day \in Int
      BY <2>1, ShiftWallIsInt, WallParts
    <3>2. ApplyPartToDate(at, part) = DateOf(Midnight(day) + 0)
      BY <1>1, <1>4, <1>6, <2>3 DEF ApplyPartToDate, ShiftDate
    <3> HIDE DEF day
    <3>3. Midnight(day) + 0 = Midnight(day)
      BY <3>1, WallParts
    <3> QED  BY <3>1, <3>2, <3>3, WallParts DEF day
  <2> QED  BY <2>2, <2>3
<1>9. ApplyPartToInstant(z, at, part) = ShiftInstant(z, at, n, unit)
  <2>1. CASE unit \in FixedUnits
    BY <1>1, <1>7, <2>1 DEF ApplyPartToInstant, ShiftInstant
  <2>2. CASE unit \notin FixedUnits
    BY <1>1, <1>4, <1>6, <2>2 DEF ApplyPartToInstant
  <2> QED  BY <2>1, <2>2
<1> QED
  BY <1>3, <1>8, <1>9 DEF part

\* An instant that its reading does not lose is the one that it is read as.
LEMMA KeptIsRead ==
  ASSUME IsZone(zone), NEW instant \in Int, NEW precision, ~Loses(DateTime(instant), precision)
  PROVE  LocalToUtc(zone, LocalWall(zone, instant)) = instant
<1> DEFINE wall == LocalWall(zone, instant)
<1>1. HasOffsets(zone)
  BY DEF IsZone
<1>2. OffsetAt(zone, instant) \in Offsets(zone) /\ OffsetAt(zone, instant) \in Int
  <2>1. OffsetAt(zone, instant) \in FixedOffset /\ OffsetAt(zone, instant) \in Offsets(zone)
    BY <1>1, OffsetAtIsOffset
  <2> QED  BY <2>1 DEF FixedOffset, DayTicks
<1>3. wall \in Int /\ wall - OffsetAt(zone, instant) = instant
  BY <1>2 DEF LocalWall
<1>4. instant \in Showing(wall)
  BY <1>2, <1>3 DEF Showing
<1>5. Means(wall, LocalToUtc(zone, wall))
  BY <1>3, WallMeans
<1>6. LocalToUtc(zone, wall) = Min(Showing(wall))
  <2> HIDE DEF wall
  <2> QED  BY <1>4, <1>5 DEF Means
<1>7. instant = Min(Showing(wall))
  BY Kinds DEF Loses
<1> QED
  BY <1>6, <1>7

\* ShiftsAgree of any value in any zone, of any amounts.
LEMMA ShiftsHold ==
  ASSUME IsZone(zone), IsValue(value)
  PROVE  ShiftsAgree
<1> SUFFICES ASSUME NEW n \in Amounts, NEW unit \in Units
             PROVE  LET wall == WallOf(zone, value)
                        there == ShiftWall(wall, n, unit)
                        moved == DateAdd(value, n, unit)
                        IsExact == WallOf(zone, moved) = there /\ ~Loses(value, "day")
                    IN  /\ moved = Plus(value, FromParts(<<Part(2 * n, unit)>>))
                        /\ moved.at = ApplyToPoint(zone, PointOfValue(value), FromParts(<<Part(2 * n, unit)>>)).instant
                           \/ ~HasTime(value)
                        /\ HasTime(value) /\ unit \in FixedUnits => moved.at - value.at = n * FixedSeconds(unit)
                        /\ HasTime(value) /\ unit \in CalendarUnits => Means(there, moved.at)
                        /\ unit \in CalendarUnits /\ IsExact /\ DayOfMonth(DateOf(there)) >= DayOfMonth(DateOf(wall))
                             => DateAdd(moved, -n, unit) = value
  BY DEF ShiftsAgree
<1> DEFINE wall == WallOf(zone, value)
           there == ShiftWall(wall, n, unit)
           moved == DateAdd(value, n, unit)
           d == FromParts(<<Part(2 * n, unit)>>)
<1>1. n \in Int \ {0} /\ n \in Int /\ -n \in Int
  <2>1. Amounts \subseteq Int \ {0}
    BY Zenon, InputsAssumption
  <2> QED  BY <2>1
<1>2. /\ value.at \in Int /\ value = IF HasTime(value) THEN DateTime(value.at) ELSE Date(value.at)
      /\ wall = IF HasTime(value) THEN LocalWall(zone, value.at) ELSE Midnight(value.at)
      /\ wall \in Int
  BY ValueFacts
<1>3. d.parts = <<<<Part(2 * n, unit)>>>>
  BY DEF FromParts, DurationValue
<1>4. moved = IF HasTime(value) THEN DateTime(ShiftInstant(zone, value.at, n, unit))
              ELSE Date(DateOf(ShiftWall(Midnight(value.at), n, unit)))
  BY DateAddIs
<1>5. there \in Int
  BY <1>1, <1>2, ShiftWallIsInt
<1> HIDE DEF wall, there, moved, d
<1>6. /\ ApplyToDate(value.at, d) = DateOf(ShiftWall(Midnight(value.at), n, unit))
      /\ ApplyToInstant(zone, value.at, d) = ShiftInstant(zone, value.at, n, unit)
  BY <1>1, <1>2, <1>3, ApplyOne, PartOfWhole
<1>7. moved = Plus(value, d)
  BY <1>4, <1>6 DEF Plus
<1>8. HasTime(value) => moved.at = ApplyToPoint(zone, PointOfValue(value), d).instant
  <2> SUFFICES ASSUME HasTime(value) PROVE moved.at = ApplyToPoint(zone, PointOfValue(value), d).instant
    OBVIOUS
  <2> DEFINE point == PointOfValue(value)
  <2>1. point.precision = "datetime" /\ point.instant = value.at
    BY PointFacts DEF PointOfValue, PointOf, InstantOf
  <2>2. ApplyToPoint(zone, point, d) = AtInstant(zone, ApplyToInstant(zone, value.at, d), point.precision)
    BY <2>1 DEF ApplyToPoint, IsTimed
  <2>3. ApplyToPoint(zone, point, d).instant = ShiftInstant(zone, value.at, n, unit)
    BY <1>6, <2>2, PointFacts DEF AtInstant
  <2> QED  BY <1>4, <2>3, Kinds
<1>9. HasTime(value) /\ unit \in FixedUnits => moved.at - value.at = n * FixedSeconds(unit)
  <2> SUFFICES ASSUME HasTime(value), unit \in FixedUnits
               PROVE  moved.at - value.at = n * FixedSeconds(unit)
    OBVIOUS
  <2>1. moved.at = value.at + n * FixedSeconds(unit)
    BY <1>4, Kinds DEF ShiftInstant
  <2>2. n * FixedSeconds(unit) \in Int
    BY <1>1, UnitsSplit
  <2> QED  BY <1>2, <2>1, <2>2
<1>10. HasTime(value) /\ unit \in CalendarUnits => moved.at = LocalToUtc(zone, there)
  BY <1>2, <1>4, UnitsSplit, Kinds DEF ShiftInstant, there
<1>11. HasTime(value) /\ unit \in CalendarUnits => Means(there, moved.at)
  BY <1>5, <1>10, WallMeans
<1>12. ASSUME unit \in CalendarUnits, WallOf(zone, moved) = there, ~Loses(value, "day"),
              DayOfMonth(DateOf(there)) >= DayOfMonth(DateOf(wall))
       PROVE  DateAdd(moved, -n, unit) = value
  <2>1. ShiftWall(there, -n, unit) = wall
    BY <1>1, <1>2, <1>12, ShiftBack DEF there
  <2>2. CASE HasTime(value)
    <3>1. HasTime(moved) /\ moved.at = LocalToUtc(zone, there) /\ LocalWall(zone, moved.at) = there
      BY <1>4, <1>10, <1>12, <2>2, Kinds DEF WallOf
    <3>2. DateAdd(moved, -n, unit) = DateTime(LocalToUtc(zone, wall))
      BY <1>12, <2>1, <3>1, DateAddIs, UnitsSplit DEF ShiftInstant
    <3>3. LocalToUtc(zone, wall) = value.at
      <4>1. ~Loses(DateTime(value.at), "day")
        BY <1>2, <1>12, <2>2
      <4> QED  BY <1>2, <2>2, <4>1, KeptIsRead
    <3> QED  BY <1>2, <2>2, <3>2, <3>3
  <2>3. CASE ~HasTime(value)
    <3>1. ~HasTime(moved) /\ Midnight(moved.at) = there
      BY <1>4, <1>12, <2>3, Kinds DEF WallOf
    <3>2. DateAdd(moved, -n, unit) = Date(DateOf(wall))
      BY <2>1, <3>1, DateAddIs
    <3>3. DateOf(wall) = value.at
      BY <1>2, <2>3, WallParts
    <3> QED  BY <1>2, <2>3, <3>2, <3>3
  <2> QED  BY <2>2, <2>3
<1> QED
  BY <1>7, <1>8, <1>9, <1>11, <1>12 DEF wall, there, moved, d

-----------------------------------------------------------------------------
(* Differences *)

\* What a difference of two kinds of unit is.
LEMMA DiffIs ==
  ASSUME NEW from, NEW to
  PROVE  /\ Diff(from, to, "mo")[1] = LET a == DateOf(from.wall)
                                          b == DateOf(to.wall)
                                      IN  IF b >= a THEN MonthsSince(a, b) ELSE -MonthsSince(b, a)
         /\ Diff(from, to, "y")[1] = LET a == DateOf(from.wall)
                                         b == DateOf(to.wall)
                                     IN  IF b >= a THEN YearsSince(a, b) ELSE -YearsSince(b, a)
         /\ Diff(from, to, "m") = Elapsed(from, to, "m")
BY DEF Diff, SignedMonthsSince, SignedYearsSince, Signed

\* Months passed lead up to the later day, and one more leads past it, or to it
\* if the earlier day of the month is one that the later month does not have.
LEMMA MonthsReach ==
  ASSUME NEW a \in Int, NEW b \in Int, a <= b
  PROVE  LET n == MonthsSince(a, b)
             After(k) == ShiftDate(a, k, "mo")
         IN  /\ n \in Nat
             /\ After(n) <= b /\ b <= After(n + 1)
             /\ b = After(n + 1) => DayOfMonth(b) < DayOfMonth(a)
<1> DEFINE p == Month(a)
           q == Month(b)
           i == DayOfMonth(a)
           j == DayOfMonth(b)
           n == MonthsSince(a, b)
           After(k) == ShiftDate(a, k, "mo")
           Kept(m) == Least(i, MonthDays(m))
<1>1. /\ p \in Int /\ i \in 1..MonthDays(p) /\ DayAt(p, i) = a
      /\ q \in Int /\ j \in 1..MonthDays(q) /\ DayAt(q, j) = b
  BY CalendarIsExact
<1>2. \A m \in Int : MonthStart(m) \in Int /\ MonthDays(m) \in 28..31 /\ MonthStart(m + 1) = MonthStart(m) + MonthDays(m)
  BY MonthStep
<1>3. \A m \in Int : Kept(m) \in 1..MonthDays(m) /\ Kept(m) <= i
  <2> TAKE m \in Int
  <2>1. MonthDays(m) \in 28..31 /\ i \in Int /\ i >= 1
    BY <1>1, <1>2
  <2> HIDE DEF i
  <2> QED  BY <2>1 DEF Least
<1>4. ASSUME NEW k \in Int
      PROVE  After(k) = MonthStart(p + k) + Kept(p + k) - 1
  <2>1. Midnight(a) \in Int /\ DateOf(Midnight(a)) = a
    BY WallParts
  <2>2. ShiftWall(Midnight(a), k, "mo") = AddMonths(Midnight(a), k)
    BY DEF ShiftWall
  <2>3. DateOf(AddMonths(Midnight(a), k)) = DayAt(p + k, Kept(p + k))
    BY <2>1, AddMonthsLands
  <2> QED  BY <2>2, <2>3 DEF ShiftDate, DayAt
<1>5. n = q - p - IF j < i THEN 1 ELSE 0
  BY DEF MonthsSince
<1>6. a = MonthStart(p) + i - 1 /\ b = MonthStart(q) + j - 1
  BY <1>1 DEF DayAt
<1>7. i \in Int /\ j \in Int /\ i >= 1 /\ j >= 1 /\ j <= MonthDays(q) /\ i <= MonthDays(p)
  BY <1>1, <1>2
<1>8. p <= q /\ (p = q => i <= j)
  <2>1. ~(q < p)
    <3> SUFFICES ASSUME q < p PROVE FALSE
      OBVIOUS
    <3>1. MonthStart(q + 1) <= MonthStart(p)
      BY <1>1, MonthsFollow
    <3> QED  BY <1>1, <1>2, <1>6, <1>7, <3>1
  <2>2. p = q => i <= j
    BY <1>1, <1>2, <1>6, <1>7
  <2> QED  BY <1>1, <2>1, <2>2
<1> HIDE DEF p, q, i, j, n, After, Kept
<1>9. CASE ~(j < i)
  <2>1. n = q - p /\ n \in Nat /\ p + n = q /\ p + (n + 1) = q + 1
    BY <1>1, <1>5, <1>8, <1>9
  <2>2. After(n) = MonthStart(q) + Kept(q) - 1 /\ After(n + 1) = MonthStart(q + 1) + Kept(q + 1) - 1
    BY <1>4, <2>1
  <2>3. Kept(q) \in Int /\ Kept(q) <= i /\ Kept(q + 1) \in Int /\ Kept(q + 1) >= 1
    BY <1>1, <1>2, <1>3
  <2>4. MonthStart(q + 1) = MonthStart(q) + MonthDays(q) /\ MonthStart(q) \in Int /\ MonthDays(q) \in Int
    BY <1>1, <1>2
  <2>5. After(n) <= b /\ b < After(n + 1)
    BY <1>6, <1>7, <1>9, <2>2, <2>3, <2>4
  <2>6. After(n + 1) \in Int
    BY <2>2, <2>3, <2>4
  <2> QED  BY <2>1, <2>5, <2>6 DEF n, After
<1>10. CASE j < i
  <2>1. n = q - p - 1 /\ n \in Nat /\ p + n = q - 1 /\ p + (n + 1) = q /\ q - 1 \in Int /\ (q - 1) + 1 = q
    BY <1>1, <1>5, <1>7, <1>8, <1>10
  <2>2. After(n) = MonthStart(q - 1) + Kept(q - 1) - 1 /\ After(n + 1) = MonthStart(q) + Kept(q) - 1
    BY <1>4, <2>1
  <2>3. MonthStart(q) = MonthStart(q - 1) + MonthDays(q - 1) /\ MonthStart(q - 1) \in Int /\ MonthDays(q - 1) \in Int
    BY <1>2, <2>1
  <2>4. Kept(q - 1) \in Int /\ Kept(q - 1) <= MonthDays(q - 1)
    BY <1>3, <2>1, <2>3
  <2>5. Kept(q) \in Int /\ j <= Kept(q)
    <3>1. MonthDays(q) \in Int
      BY <1>1, <1>2
    <3> QED  BY <1>7, <1>10, <3>1 DEF Kept, Least
  <2>6. After(n) <= b
    BY <1>6, <1>7, <2>2, <2>3, <2>4
  <2>7. b <= After(n + 1)
    BY <1>6, <1>7, <2>2, <2>3, <2>5
  <2> QED  BY <1>10, <2>1, <2>6, <2>7 DEF n, After, i, j
<1> QED
  BY <1>9, <1>10

\* A day is no month from itself.
LEMMA MonthsOfNone ==
  ASSUME NEW a \in Int
  PROVE  MonthsSince(a, a) = 0 /\ YearsSince(a, a) = 0
<1>1. Month(a) \in Int /\ DayOfMonth(a) \in Int
  BY CalendarIsExact, MonthStep
<1>2. MonthsSince(a, a) = 0
  BY <1>1 DEF MonthsSince
<1>3. <<Month(a) % 12, DayOfMonth(a)>>[1] = Month(a) % 12 /\ <<Month(a) % 12, DayOfMonth(a)>>[2] = DayOfMonth(a)
  OBVIOUS
<1>4. YearsSince(a, a) = 0
  BY <1>1, <1>3 DEF YearsSince, Year
<1> QED
  BY <1>2, <1>4

\* Twelve months passed are a year.
LEMMA YearsAreMonths ==
  ASSUME NEW a \in Int, NEW b \in Int, a <= b
  PROVE  YearsSince(a, b) = MonthsSince(a, b) \div 12
<1> DEFINE p == Month(a)
           q == Month(b)
           i == DayOfMonth(a)
           j == DayOfMonth(b)
<1>1. p \in Int /\ q \in Int /\ i \in Int /\ j \in Int
  BY CalendarIsExact, MonthStep
<1>2. YearsSince(a, b) = q \div 12 - p \div 12 - IF q % 12 < p % 12 \/ (q % 12 = p % 12 /\ j < i) THEN 1 ELSE 0
  BY DEF YearsSince, Year
<1>3. MonthsSince(a, b) = q - p - IF j < i THEN 1 ELSE 0
  BY DEF MonthsSince
<1> HIDE DEF p, q, i, j
<1> DEFINE s == p \div 12
           t == q \div 12
           u == p % 12
           v == q % 12
<1>4. s \in Int /\ t \in Int /\ u \in 0..11 /\ v \in 0..11 /\ p = 12 * s + u /\ q = 12 * t + v
  BY <1>1
<1> HIDE DEF s, t, u, v
<1> DEFINE c == IF j < i THEN 1 ELSE 0
<1>5. c \in 0..1
  OBVIOUS
<1>6. YearsSince(a, b) = t - s - IF v < u \/ (v = u /\ c = 1) THEN 1 ELSE 0
  BY <1>2 DEF s, t, u, v
<1>7. MonthsSince(a, b) = 12 * (t - s) + (v - u - c)
  BY <1>3, <1>4, <1>5
<1> HIDE DEF c
<1>8. (12 * (t - s) + (v - u - c)) \div 12 = t - s - IF v < u \/ (v = u /\ c = 1) THEN 1 ELSE 0
  BY <1>4, <1>5
<1> QED
  BY <1>6, <1>7, <1>8

LEMMA TruncSigned ==
  ASSUME NEW n \in Nat
  PROVE  Trunc(n, 12) = n \div 12 /\ Trunc(-n, 12) = -(n \div 12)
BY DEF Trunc, Sign, Abs

LEMMA TruncOne ==
  ASSUME NEW n \in Int
  PROVE  Trunc(n, 1) = n
<1>1. Abs(n) \in Nat /\ Abs(n) \div 1 = Abs(n)
  BY DEF Abs
<1> QED
  BY <1>1 DEF Trunc, Sign, Abs

\* What is elapsed between two values of a kind leads from one to the other.
LEMMA BetweenLeads ==
  ASSUME IsZone(zone), NEW from, IsValue(from), NEW to, IsValue(to)
  PROVE  /\ DurationOK(Between(from, to))
         /\ HasTime(from) = HasTime(to) => Plus(from, Between(from, to)) = to
         /\ HasTime(to) /\ ~HasTime(from) => Plus(from, Between(from, to)) = Date(DateOf(WallOf(zone, to)))
<1> DEFINE f == PointOfValue(from)
           t == PointOfValue(to)
           seconds == Diff(f, t, "m")[1]
           d == Between(from, to)
<1>1. /\ f.wall = WallOf(zone, from) /\ f.instant = InstantOf(zone, from)
      /\ f.precision = IF HasTime(from) THEN "datetime" ELSE "day"
      /\ t.wall = WallOf(zone, to) /\ t.instant = InstantOf(zone, to)
      /\ t.precision = IF HasTime(to) THEN "datetime" ELSE "day"
  BY PointFacts DEF PointOfValue, PointOf
<1> HIDE DEF f, t
<1>2. (IsTimed(f) <=> HasTime(from)) /\ (IsTimed(t) <=> HasTime(to))
  BY <1>1 DEF IsTimed
<1>3. f.wall \in Int /\ f.instant \in Int /\ t.wall \in Int /\ t.instant \in Int
  BY <1>1, ValueFacts
<1>4. seconds = IF HasTime(from) /\ HasTime(to) THEN t.instant - f.instant ELSE t.wall - f.wall
  <2>1. FixedSeconds("m") = 1
    BY DEF FixedSeconds
  <2>2. Elapsed(f, t, "m")[1] = IF IsTimed(f) /\ IsTimed(t) THEN t.instant - f.instant ELSE Trunc(t.wall - f.wall, 1)
    BY <2>1 DEF Elapsed
  <2>3. Trunc(t.wall - f.wall, 1) = t.wall - f.wall
    BY <1>3, TruncOne
  <2>4. seconds = Elapsed(f, t, "m")[1]
    BY DiffIs
  <2> QED  BY <1>2, <2>2, <2>3, <2>4
<1>5. seconds \in Int
  BY <1>3, <1>4
<1>6. d = FromSeconds(seconds)
  BY DEF Between, f, t
<1> HIDE DEF seconds, d
<1>7. DurationOK(d) /\ d.seconds = seconds /\ d.parts = <<>>
  BY <1>5, <1>6, FromSecondsOK
<1>8. Plus(from, d) = IF HasTime(from) THEN DateTime(from.at + seconds) ELSE Date(DateOf(Midnight(from.at) + seconds))
  BY <1>7 DEF Plus, ApplyToInstant, ApplyToDate
<1>9. /\ from.at \in Int /\ to.at \in Int
      /\ from = IF HasTime(from) THEN DateTime(from.at) ELSE Date(from.at)
      /\ to = IF HasTime(to) THEN DateTime(to.at) ELSE Date(to.at)
      /\ WallOf(zone, from) = IF HasTime(from) THEN LocalWall(zone, from.at) ELSE Midnight(from.at)
      /\ WallOf(zone, to) = IF HasTime(to) THEN LocalWall(zone, to.at) ELSE Midnight(to.at)
      /\ InstantOf(zone, from) = IF HasTime(from) THEN from.at ELSE LocalToUtc(zone, Midnight(from.at))
      /\ InstantOf(zone, to) = IF HasTime(to) THEN to.at ELSE LocalToUtc(zone, Midnight(to.at))
  BY ValueFacts
<1>10. ASSUME HasTime(from), HasTime(to) PROVE Plus(from, d) = to
  <2>1. from.at + seconds = to.at
    BY <1>1, <1>4, <1>9, <1>10
  <2> QED  BY <1>8, <1>9, <1>10, <2>1
<1>11. ASSUME ~HasTime(from) PROVE Plus(from, d) = Date(DateOf(WallOf(zone, to)))
  <2>1. Midnight(from.at) + seconds = WallOf(zone, to)
    BY <1>1, <1>3, <1>4, <1>9, <1>11
  <2> QED  BY <1>8, <1>11, <2>1
<1>12. ASSUME ~HasTime(from), ~HasTime(to) PROVE Plus(from, d) = to
  <2>1. DateOf(WallOf(zone, to)) = to.at
    BY <1>9, <1>12, WallParts
  <2> QED  BY <1>9, <1>11, <1>12, <2>1
<1> QED
  BY <1>7, <1>10, <1>11, <1>12 DEF d

\* DiffsMeasure of any two values in any zone.
LEMMA DiffsHold ==
  ASSUME IsZone(zone), IsValue(value)
  PROVE  DiffsMeasure
<1> DEFINE here == PointOfValue(value)
           InMonths(from, to) == Diff(from, to, "mo")[1]
           Reaches(from, to) ==
             LET n == InMonths(from, to)
                 day == DateOf(to.wall)
                 After(k) == ShiftDate(DateOf(from.wall), k, "mo")
             IN  /\ After(n) <= day /\ day <= After(n + 1)
                 /\ day = After(n + 1) => DayOfMonth(day) < DayOfMonth(DateOf(from.wall))
<1>1. ASSUME NEW other \in Others
      PROVE  LET there == PointOfValue(other)
             IN  /\ IF DateOf(here.wall) <= DateOf(there.wall) THEN Reaches(here, there) ELSE Reaches(there, here)
                 /\ InMonths(here, there) = -InMonths(there, here)
                 /\ Diff(here, there, "y")[1] = Trunc(InMonths(here, there), 12)
                 /\ HasTime(value) = HasTime(other) => Plus(value, Between(value, other)) = other
                 /\ HasTime(other) /\ ~HasTime(value) => Plus(value, Between(value, other)) = Date(DateOf(there.wall))
  <2> DEFINE there == PointOfValue(other)
             a == DateOf(here.wall)
             b == DateOf(there.wall)
  <2>1. IsValue(other)
    BY Zenon, InputsAssumption
  <2>2. here.wall = WallOf(zone, value) /\ there.wall = WallOf(zone, other)
    BY PointFacts DEF PointOfValue, PointOf
  <2>3. a \in Int /\ b \in Int
    BY <2>1, <2>2, ValueFacts, WallParts
  <2>4. /\ InMonths(here, there) = IF b >= a THEN MonthsSince(a, b) ELSE -MonthsSince(b, a)
        /\ InMonths(there, here) = IF a >= b THEN MonthsSince(b, a) ELSE -MonthsSince(a, b)
        /\ Diff(here, there, "y")[1] = IF b >= a THEN YearsSince(a, b) ELSE -YearsSince(b, a)
    BY DiffIs
  <2>8. /\ HasTime(value) = HasTime(other) => Plus(value, Between(value, other)) = other
        /\ HasTime(other) /\ ~HasTime(value) => Plus(value, Between(value, other)) = Date(DateOf(there.wall))
    BY <2>1, <2>2, BetweenLeads
  <2> HIDE DEF here, there
  <2>5. CASE a < b
    <3>1. MonthsSince(a, b) \in Nat /\ YearsSince(a, b) = MonthsSince(a, b) \div 12
      BY <2>3, <2>5, MonthsReach, YearsAreMonths
    <3>2. b >= a /\ ~(a >= b) /\ a <= b
      BY <2>3, <2>5
    <3>3. InMonths(here, there) = MonthsSince(a, b) /\ InMonths(there, here) = -MonthsSince(a, b)
      BY <2>4, <3>2
    <3>4. Reaches(here, there)
      BY <2>3, <3>2, <3>3, MonthsReach
    <3>5. Diff(here, there, "y")[1] = Trunc(InMonths(here, there), 12)
      BY <2>4, <3>1, <3>2, <3>3, TruncSigned
    <3>6. InMonths(here, there) = -InMonths(there, here)
      BY <3>1, <3>3
    <3> HIDE DEF Reaches, InMonths
    <3> QED  BY Zenon, <2>8, <3>2, <3>4, <3>5, <3>6 DEF there
  <2>6. CASE b < a
    <3>1. MonthsSince(b, a) \in Nat /\ YearsSince(b, a) = MonthsSince(b, a) \div 12
      BY <2>3, <2>6, MonthsReach, YearsAreMonths
    <3>2. a >= b /\ ~(b >= a) /\ b <= a /\ ~(a <= b)
      BY <2>3, <2>6
    <3>3. InMonths(here, there) = -MonthsSince(b, a) /\ InMonths(there, here) = MonthsSince(b, a)
      BY <2>4, <3>2
    <3>4. Reaches(there, here)
      BY <2>3, <3>2, <3>3, MonthsReach
    <3>5. Diff(here, there, "y")[1] = Trunc(InMonths(here, there), 12)
      BY <2>4, <3>1, <3>2, <3>3, TruncSigned
    <3>6. InMonths(here, there) = -InMonths(there, here)
      BY <3>1, <3>3
    <3> HIDE DEF Reaches, InMonths
    <3> QED  BY Zenon, <2>8, <3>2, <3>4, <3>5, <3>6 DEF there
  <2>7. CASE a = b
    <3>1. MonthsSince(a, b) = 0 /\ YearsSince(a, b) = 0 /\ MonthsSince(b, a) = 0
      BY <2>3, <2>7, MonthsOfNone
    <3>2. b >= a /\ a >= b /\ a <= b
      BY <2>3, <2>7
    <3>3. InMonths(here, there) = 0 /\ InMonths(there, here) = 0 /\ InMonths(here, there) = MonthsSince(a, b)
      BY <2>4, <3>1, <3>2
    <3>4. Reaches(here, there)
      BY <2>3, <3>2, <3>3, MonthsReach
    <3>5. Diff(here, there, "y")[1] = Trunc(InMonths(here, there), 12)
      <4>1. 0 \in Nat /\ 0 \div 12 = 0
        OBVIOUS
      <4>2. Trunc(0, 12) = 0
        BY <4>1, TruncSigned
      <4> QED  BY <2>4, <3>1, <3>2, <3>3, <4>2
    <3>6. InMonths(here, there) = -InMonths(there, here)
      BY <3>3
    <3> HIDE DEF Reaches, InMonths
    <3> QED  BY Zenon, <2>8, <3>2, <3>4, <3>5, <3>6 DEF there
  <2> QED  BY <2>3, <2>5, <2>6, <2>7
<1> QED
  BY <1>1 DEF DiffsMeasure

-----------------------------------------------------------------------------
(* Texts of dates *)

Precisions == {"month", "day", "datetime"}

IsText(t) == t \in [shape : {"month", "day", "wall", "rfc3339"}, at : Int]

\* The reading or the instant of a timed point decides the other.
IsTied(wall, instant, precision) ==
  /\ wall \in Int /\ instant \in Int /\ precision \in Precisions
  /\ precision = "datetime" => wall = LocalWall(zone, instant) \/ instant = LocalToUtc(zone, wall)

LEMMA TextFacts ==
  \A shape, at : /\ Text(shape, at).shape = shape /\ Text(shape, at).at = at
                 /\ at \in Int /\ shape \in {"month", "day", "wall", "rfc3339"} => IsText(Text(shape, at))
BY DEF Text, IsText

\* What a text is classified as is a date-time if its precision is a time's.
LEMMA ClassifyTyped ==
  ASSUME IsZone(zone), NEW t, IsText(t)
  PROVE  /\ IsValue(Classify(t)) /\ Precision(t) \in Precisions
         /\ HasTime(Classify(t)) <=> Precision(t) = "datetime"
<1>1. t.at \in Int /\ t.shape \in {"month", "day", "wall", "rfc3339"}
  BY DEF IsText
<1>2. CASE t.shape = "month"
  <2>1. Classify(t) = Date(DayAt(Month(t.at), 1)) /\ Precision(t) = "month"
    BY <1>2 DEF Classify, Precision
  <2>2. Month(t.at) \in Int
    BY <1>1, CalendarIsExact
  <2>3. DayAt(Month(t.at), 1) \in Int
    BY <2>2, MonthStep DEF DayAt
  <2> QED  BY <2>1, <2>3, Kinds DEF Precisions
<1>3. CASE t.shape = "day"
  <2>1. Classify(t) = Date(t.at) /\ Precision(t) = "day"
    BY <1>3 DEF Classify, Precision
  <2> QED  BY <1>1, <2>1, Kinds DEF Precisions
<1>4. CASE t.shape = "wall"
  <2>1. Classify(t) = DateTime(LocalToUtc(zone, t.at)) /\ Precision(t) = "datetime"
    BY <1>4 DEF Classify, Precision
  <2>2. LocalToUtc(zone, t.at) \in Int
    BY <1>1, ClockIsTotal
  <2> QED  BY <2>1, <2>2, Kinds DEF Precisions
<1>5. CASE t.shape = "rfc3339"
  <2>1. Classify(t) = DateTime(t.at) /\ Precision(t) = "datetime"
    BY <1>5 DEF Classify, Precision
  <2> QED  BY <1>1, <2>1, Kinds DEF Precisions
<1> QED
  BY <1>1, <1>2, <1>3, <1>4, <1>5

\* Formatted at its precision, a point is a text of that precision, and it is
\* read as the point was if it does not lose it.
LEMMA FormatReads ==
  ASSUME IsZone(zone), NEW wall, NEW instant, NEW precision, IsTied(wall, instant, precision)
  PROVE  LET t == Format(Point(wall, instant, precision))
             v == IF precision = "datetime" THEN DateTime(instant) ELSE Date(DateOf(wall))
         IN  /\ IsText(t) /\ Precision(t) = precision
             /\ ~Loses(v, precision) => Classify(t) = v
<1> DEFINE point == Point(wall, instant, precision)
           t == Format(point)
           day == DateOf(wall)
           first == DayAt(Month(day), 1)
<1>1. point.wall = wall /\ point.precision = precision
  BY PointFacts
<1>2. wall \in Int /\ instant \in Int /\ precision \in Precisions
  BY DEF IsTied
<1>3. day \in Int
  BY <1>2, WallParts
<1> HIDE DEF point, day
<1>4. /\ Month(day) \in Int /\ DayOfMonth(day) \in 1..MonthDays(Month(day))
      /\ DayAt(Month(day), DayOfMonth(day)) = day /\ MonthDays(Month(day)) \in 28..31
  BY <1>3, CalendarIsExact, MonthStep
<1>5. first \in Int /\ Month(first) = Month(day)
  <2>1. 1 \in 1..MonthDays(Month(day))
    BY <1>4
  <2> QED  BY <1>4, <2>1, CalendarIsExact
<1>6. CASE precision = "month"
  <2> HIDE DEF first
  <2>1. t = Text("month", first)
    BY <1>1, <1>6 DEF Format, day, first
  <2> HIDE DEF t
  <2>2. IsText(t) /\ Precision(t) = "month" /\ Classify(t) = Date(DayAt(Month(first), 1))
    BY <1>5, <2>1, TextFacts DEF Precision, Classify
  <2>3. ASSUME ~Loses(Date(day), precision) PROVE Classify(t) = Date(day)
    <3>1. DayOfMonth(day) = 1
      BY <1>6, <2>3, Kinds DEF Loses
    <3> QED  BY <1>4, <1>5, <2>2, <3>1
  <2> QED  BY <1>6, <2>2, <2>3 DEF day, t, point
<1>7. CASE precision = "day"
  <2>1. t = Text("day", day)
    BY <1>1, <1>7 DEF Format, day
  <2> HIDE DEF t
  <2>2. IsText(t) /\ Precision(t) = "day" /\ Classify(t) = Date(day)
    BY <1>3, <2>1, TextFacts DEF Precision, Classify
  <2> QED  BY <1>7, <2>2 DEF day, t, point
<1>8. CASE precision = "datetime"
  <2>1. t = Text("wall", wall)
    BY <1>1, <1>8 DEF Format
  <2> HIDE DEF t
  <2>2. IsText(t) /\ Precision(t) = "datetime" /\ Classify(t) = DateTime(LocalToUtc(zone, wall))
    BY <1>2, <2>1, TextFacts DEF Precision, Classify
  <2>3. ASSUME ~Loses(DateTime(instant), precision) PROVE LocalToUtc(zone, wall) = instant
    <3>1. wall = LocalWall(zone, instant) \/ instant = LocalToUtc(zone, wall)
      BY <1>8 DEF IsTied
    <3>2. LocalToUtc(zone, LocalWall(zone, instant)) = instant
      BY <1>2, <2>3, KeptIsRead
    <3> QED  BY <3>1, <3>2
  <2> QED  BY <1>8, <2>2, <2>3 DEF t, point
<1> QED
  BY <1>2, <1>6, <1>7, <1>8 DEF Precisions

-----------------------------------------------------------------------------
(* Points that two front ends make alike *)

\* One point but for its precisions, both of a time or both of a day
IsOne(r, s, p, q) ==
  \E wall, instant \in Int :
    r = Point(wall, instant, p) /\ s = Point(wall, instant, q) /\ IsTied(wall, instant, p)

SameKind(p, q) == p \in Precisions /\ q \in Precisions /\ (p = "datetime" <=> q = "datetime")

\* An instant's point, and a day's.
LEMMA InstantIsOne ==
  ASSUME IsZone(zone), NEW instant \in Int, NEW p, NEW q, p \in Precisions
  PROVE  IsOne(AtInstant(zone, instant, p), AtInstant(zone, instant, q), p, q)
<1>1. LocalWall(zone, instant) \in Int
  BY ClockIsTotal
<1> QED
  BY <1>1 DEF IsOne, IsTied, AtInstant

LEMMA WallIsOne ==
  ASSUME IsZone(zone), NEW wall \in Int, NEW p, NEW q, p \in Precisions, p # "datetime"
  PROVE  IsOne(OnWall(zone, wall, p), OnWall(zone, wall, q), p, q)
<1>1. LocalToUtc(zone, Midnight(DateOf(wall))) \in Int
  <2>1. Midnight(DateOf(wall)) \in Int
    BY WallParts
  <2> QED  BY <2>1, ClockIsTotal
<1> QED
  BY <1>1 DEF IsOne, IsTied, OnWall

\* shift, boundary and apply of a DatePoint look at whether it has a time and
\* not at how much of its date was given.
LEMMA ShiftIsOne ==
  ASSUME IsZone(zone), NEW wall \in Int, NEW instant \in Int, NEW p, NEW q, SameKind(p, q),
         NEW n \in Int, NEW unit \in Units
  PROVE  IsOne(ShiftPoint(zone, Point(wall, instant, p), n, unit),
               ShiftPoint(zone, Point(wall, instant, q), n, unit), p, q)
<1> DEFINE there == ShiftInstant(zone, instant, n, unit)
           then == ShiftWall(wall, n, unit)
<1>1. p \in Precisions /\ (p = "datetime" <=> q = "datetime")
  BY DEF SameKind
<1>2. there \in Int /\ then \in Int
  BY ShiftInstantIsInt, ShiftWallIsInt
<1>3. \A precision : ShiftPoint(zone, Point(wall, instant, precision), n, unit) =
        IF precision = "datetime" THEN AtInstant(zone, there, precision) ELSE OnWall(zone, then, precision)
  BY PointFacts DEF ShiftPoint, IsTimed
<1> HIDE DEF there, then
<1>4. CASE p = "datetime"
  <2>1. IsOne(AtInstant(zone, there, p), AtInstant(zone, there, q), p, q)
    BY <1>1, <1>2, InstantIsOne
  <2> QED  BY <1>1, <1>3, <1>4, <2>1
<1>5. CASE p # "datetime"
  <2>1. IsOne(OnWall(zone, then, p), OnWall(zone, then, q), p, q)
    BY <1>1, <1>2, <1>5, WallIsOne
  <2> QED  BY <1>1, <1>3, <1>5, <2>1
<1> QED
  BY <1>4, <1>5

LEMMA ApplyIsOne ==
  ASSUME IsZone(zone), NEW wall \in Int, NEW instant \in Int, NEW p, NEW q, SameKind(p, q),
         NEW d, DurationOK(d)
  PROVE  IsOne(ApplyToPoint(zone, Point(wall, instant, p), d),
               ApplyToPoint(zone, Point(wall, instant, q), d), p, q)
<1> DEFINE there == ApplyToInstant(zone, instant, d)
           then == Midnight(ApplyToDate(DateOf(wall), d))
<1>1. p \in Precisions /\ (p = "datetime" <=> q = "datetime")
  BY DEF SameKind
<1>2. there \in Int /\ then \in Int
  <2>1. DateOf(wall) \in Int
    BY WallParts
  <2>2. ApplyToDate(DateOf(wall), d) \in Int
    BY <2>1, ApplyToDateIsInt
  <2> QED  BY <2>2, ApplyToInstantIsInt, WallParts
<1>3. \A precision : ApplyToPoint(zone, Point(wall, instant, precision), d) =
        IF precision = "datetime" THEN AtInstant(zone, there, precision) ELSE OnWall(zone, then, precision)
  BY PointFacts DEF ApplyToPoint, IsTimed
<1> HIDE DEF there, then
<1>4. CASE p = "datetime"
  <2>1. IsOne(AtInstant(zone, there, p), AtInstant(zone, there, q), p, q)
    BY <1>1, <1>2, InstantIsOne
  <2> QED  BY <1>1, <1>3, <1>4, <2>1
<1>5. CASE p # "datetime"
  <2>1. IsOne(OnWall(zone, then, p), OnWall(zone, then, q), p, q)
    BY <1>1, <1>2, <1>5, WallIsOne
  <2> QED  BY <1>1, <1>3, <1>5, <2>1
<1> QED
  BY <1>4, <1>5

LEMMA BoundaryIsInt ==
  ASSUME NEW day \in Int, NEW period \in {"week", "month", "year"}, NEW end \in BOOLEAN
  PROVE  Boundary(period, end, day) \in Int
<1> DEFINE month == Month(day)
<1>1. month \in Int
  BY MonthIsExact
<1> HIDE DEF month
<1>2. MonthDays(month) \in Int
  <2>1. MonthDays(month) \in 28..31
    BY <1>1, MonthStep
  <2> QED  BY <2>1
<1>3. \A m, n \in Int : DayAt(m, n) \in Int
  <2> TAKE m, n \in Int
  <2>1. MonthStart(m) \in Int
    BY MonthStep
  <2> QED  BY <2>1 DEF DayAt
<1>4. 12 * (month \div 12) \in Int /\ 12 * (month \div 12) + 11 \in Int
  BY <1>1
<1>5. \A weekday \in Int : DayOfWeek(day, weekday) \in Int
  <2>1. Weekday(day) \in Int
    BY CalendarAssumption DEF Weekday
  <2> QED  BY <2>1 DEF DayOfWeek
<1>6. CASE period = "month"
  <2>1. Boundary(period, end, day) = IF end THEN DayAt(month, MonthDays(month)) ELSE DayAt(month, 1)
    BY <1>6 DEF Boundary, month
  <2> QED  BY <1>1, <1>2, <1>3, <2>1
<1>7. CASE period = "week"
  <2>1. Boundary(period, end, day) = DayOfWeek(day, IF end THEN 6 ELSE 0)
    BY <1>7 DEF Boundary
  <2> QED  BY <1>5, <2>1
<1>8. CASE period = "year"
  <2> DEFINE first == 12 * (month \div 12)
  <2>1. Boundary(period, end, day) = IF end THEN DayAt(first + 11, 31) ELSE DayAt(first, 1)
    BY <1>8 DEF Boundary, Year, month
  <2>2. first \in Int /\ first + 11 \in Int
    BY <1>4
  <2> HIDE DEF first
  <2>3. DayAt(first + 11, 31) \in Int /\ DayAt(first, 1) \in Int
    BY <1>3, <2>2, 31 \in Int, 1 \in Int
  <2> QED  BY <2>1, <2>3
<1> QED
  BY <1>6, <1>7, <1>8

LEMMA BoundaryIsOne ==
  ASSUME IsZone(zone), NEW wall \in Int, NEW instant \in Int, NEW p, NEW q, SameKind(p, q),
         NEW period \in {"week", "month", "year"}, NEW end \in BOOLEAN
  PROVE  IsOne(BoundaryPoint(zone, Point(wall, instant, p), period, end),
               BoundaryPoint(zone, Point(wall, instant, q), period, end), p, q)
<1> DEFINE day == Boundary(period, end, DateOf(wall))
           then == Midnight(day) + TimeOf(wall)
<1>1. p \in Precisions /\ (p = "datetime" <=> q = "datetime")
  BY DEF SameKind
<1>2. then \in Int /\ LocalToUtc(zone, then) \in Int
  <2>1. DateOf(wall) \in Int /\ TimeOf(wall) \in 0..47
    BY WallParts
  <2>2. day \in Int
    BY <2>1, BoundaryIsInt
  <2> HIDE DEF day
  <2>3. then \in Int
    BY <2>1, <2>2, WallParts
  <2> QED  BY <2>3, ClockIsTotal
<1>3. \A precision : BoundaryPoint(zone, Point(wall, instant, precision), period, end) =
        IF precision = "datetime" THEN Point(then, LocalToUtc(zone, then), precision)
                                  ELSE OnWall(zone, then, precision)
  <2> TAKE precision
  <2> DEFINE point == Point(wall, instant, precision)
  <2>1. point.wall = wall /\ point.precision = precision
    BY PointFacts
  <2> HIDE DEF point
  <2>2. BoundaryPoint(zone, point, period, end) = OnDay(zone, point, day)
    BY <2>1 DEF BoundaryPoint
  <2> HIDE DEF day
  <2> QED  BY <2>1, <2>2 DEF OnDay, IsTimed, point
<1> HIDE DEF then
<1>4. CASE p = "datetime"
  <2>1. IsOne(Point(then, LocalToUtc(zone, then), p), Point(then, LocalToUtc(zone, then), q), p, q)
    BY <1>1, <1>2 DEF IsOne, IsTied
  <2> QED  BY <1>1, <1>3, <1>4, <2>1
<1>5. CASE p # "datetime"
  <2>1. IsOne(OnWall(zone, then, p), OnWall(zone, then, q), p, q)
    BY <1>1, <1>2, <1>5, WallIsOne
  <2> QED  BY <1>1, <1>3, <1>5, <2>1
<1> QED
  BY <1>4, <1>5

\* A text and a value that such points become keep their kinds, and they agree if
\* the step comes upon nothing that a text loses.
LEMMA OneAgrees ==
  ASSUME IsZone(zone), NEW t, IsText(t), NEW v, IsValue(v), NEW r, NEW s, NEW q,
         IsOne(r, s, Precision(t), q)
  PROVE  /\ IsText(Format(r)) /\ Precision(Format(r)) = Precision(t) /\ IsValue(ValueOf(v, s))
         /\ (HasTime(v) <=> Precision(t) = "datetime") /\ ~Loses(ValueOf(v, s), Precision(t))
              => Classify(Format(r)) = ValueOf(v, s)
<1> DEFINE p == Precision(t)
<1> HIDE DEF p
<1>1. PICK wall, instant \in Int :
        r = Point(wall, instant, p) /\ s = Point(wall, instant, q) /\ IsTied(wall, instant, p)
  BY DEF IsOne, p
<1>2. s.wall = wall /\ s.instant = instant
  BY <1>1, PointFacts
<1>3. ValueOf(v, s) = IF HasTime(v) THEN DateTime(instant) ELSE Date(DateOf(wall))
  BY <1>2 DEF ValueOf
<1>4. DateOf(wall) \in Int
  BY WallParts
<1>5. IsValue(ValueOf(v, s))
  BY <1>3, <1>4, Kinds
<1> DEFINE here == IF p = "datetime" THEN DateTime(instant) ELSE Date(DateOf(wall))
<1>6. /\ IsText(Format(r)) /\ Precision(Format(r)) = p
      /\ ~Loses(here, p) => Classify(Format(r)) = here
  BY <1>1, FormatReads
<1>7. ASSUME HasTime(v) <=> p = "datetime" PROVE ValueOf(v, s) = here
  BY <1>3, <1>7
<1> HIDE DEF here
<1>8. ASSUME HasTime(v) <=> p = "datetime", ~Loses(ValueOf(v, s), p)
      PROVE  Classify(Format(r)) = ValueOf(v, s)
  BY <1>6, <1>7, <1>8
<1> QED
  BY <1>5, <1>6, <1>8 DEF p

\* Moved as a point, a value is moved by a duration (value + duration).
LEMMA PlusIs ==
  ASSUME IsZone(zone), NEW v, IsValue(v), NEW d, DurationOK(d)
  PROVE  Plus(v, d) = ValueOf(v, ApplyToPoint(zone, PointOfValue(v), d)) /\ IsValue(Plus(v, d))
<1> DEFINE point == PointOfValue(v)
<1>1. /\ point.wall = WallOf(zone, v) /\ point.instant = InstantOf(zone, v)
      /\ point.precision = IF HasTime(v) THEN "datetime" ELSE "day"
  BY PointFacts DEF PointOfValue, PointOf
<1>2. IsTimed(point) <=> HasTime(v)
  BY <1>1 DEF IsTimed
<1>3. /\ v.at \in Int
      /\ WallOf(zone, v) = IF HasTime(v) THEN LocalWall(zone, v.at) ELSE Midnight(v.at)
      /\ InstantOf(zone, v) = IF HasTime(v) THEN v.at ELSE LocalToUtc(zone, Midnight(v.at))
  BY ValueFacts
<1> HIDE DEF point
<1>4. CASE HasTime(v)
  <2> DEFINE there == ApplyToInstant(zone, v.at, d)
  <2>1. there \in Int
    BY <1>3, ApplyToInstantIsInt
  <2>2. Plus(v, d) = DateTime(there)
    BY <1>4 DEF Plus
  <2>3. ApplyToPoint(zone, point, d) = AtInstant(zone, there, point.precision)
    BY <1>1, <1>2, <1>3, <1>4 DEF ApplyToPoint
  <2> HIDE DEF there
  <2>4. ValueOf(v, ApplyToPoint(zone, point, d)) = DateTime(there)
    BY <1>4, <2>3, PointFacts DEF ValueOf, AtInstant
  <2> QED  BY <2>1, <2>2, <2>4, Kinds DEF point
<1>5. CASE ~HasTime(v)
  <2> DEFINE there == ApplyToDate(v.at, d)
  <2>1. there \in Int /\ DateOf(Midnight(v.at)) = v.at
    BY <1>3, ApplyToDateIsInt, WallParts
  <2>2. Plus(v, d) = Date(there)
    BY <1>5 DEF Plus
  <2>3. ApplyToPoint(zone, point, d) = OnWall(zone, Midnight(there), point.precision)
    BY <1>1, <1>2, <1>3, <1>5, <2>1 DEF ApplyToPoint
  <2> HIDE DEF there
  <2>4. ValueOf(v, ApplyToPoint(zone, point, d)) = Date(DateOf(Midnight(there)))
    BY <1>5, <2>3, PointFacts DEF ValueOf, OnWall
  <2>5. DateOf(Midnight(there)) = there
    BY <2>1, WallParts
  <2> QED  BY <2>1, <2>2, <2>4, <2>5, Kinds DEF point
<1> QED
  BY <1>4, <1>5

\* A written duration moves by its parts, whatever its text.
LEMMA SameParts ==
  ASSUME NEW z, NEW point, NEW d, NEW e, d.parts = e.parts, d.parts # <<>>
  PROVE  ApplyToPoint(z, point, d) = ApplyToPoint(z, point, e)
<1> DEFINE OnDate(day, ps) ==
             LET parts == ps[1]
                 after[k \in 0..Len(parts)] ==
                   IF k = 0 THEN day ELSE ApplyPartToDate(after[k - 1], parts[k])
             IN  after[Len(parts)]
           OnInstant(instant, ps) ==
             LET parts == ps[1]
                 after[k \in 0..Len(parts)] ==
                   IF k = 0 THEN instant ELSE ApplyPartToInstant(z, after[k - 1], parts[k])
             IN  after[Len(parts)]
<1>1. /\ ApplyToDate(DateOf(point.wall), d) = OnDate(DateOf(point.wall), d.parts)
      /\ ApplyToDate(DateOf(point.wall), e) = OnDate(DateOf(point.wall), e.parts)
  BY DEF ApplyToDate
<1>2. /\ ApplyToInstant(z, point.instant, d) = OnInstant(point.instant, d.parts)
      /\ ApplyToInstant(z, point.instant, e) = OnInstant(point.instant, e.parts)
  BY DEF ApplyToInstant
<1> HIDE DEF OnDate, OnInstant
<1>3. /\ ApplyToDate(DateOf(point.wall), d) = ApplyToDate(DateOf(point.wall), e)
      /\ ApplyToInstant(z, point.instant, d) = ApplyToInstant(z, point.instant, e)
  BY <1>1, <1>2
<1> QED
  BY <1>3 DEF ApplyToPoint

LEMMA OppositeOK ==
  ASSUME NEW d, DurationOK(d)
  PROVE  /\ DurationOK(Times(d, -1))
         /\ d.parts # <<>> => Times(d, -1).parts = <<Scaled(d.parts[1], -1)>>
<1> DEFINE n == -1
<1>1. n \in Int
  OBVIOUS
<1> HIDE DEF n
<1>2. DurationOK(Times(d, n)) /\ (d.parts # <<>> => Times(d, n).parts = <<Scaled(d.parts[1], n)>>)
  BY <1>1, TimesOK
<1> QED
  BY <1>2 DEF n

LEMMA ScaledBack ==
  ASSUME NEW u \in Seq(Parts)
  PROVE  Scaled(Scaled(u, 1), -1) = Scaled(u, -1)
<1> DEFINE once == Scaled(u, 1)
<1>1. DOMAIN once = DOMAIN u /\ \A k \in DOMAIN u : once[k] = Part(u[k].mag * 1, u[k].unit)
  BY DEF Scaled
<1>2. \A k \in DOMAIN u : u[k] \in Parts
  OBVIOUS
<1> HIDE DEF once
<1>3. ASSUME NEW k \in DOMAIN u
      PROVE  Part(once[k].mag * (-1), once[k].unit) = Part(u[k].mag * (-1), u[k].unit)
  <2>1. u[k].mag \in Int
    BY <1>2 DEF Parts
  <2>2. \A m, unit : Part(m, unit).mag = m /\ Part(m, unit).unit = unit
    BY DEF Part
  <2>3. once[k].mag = u[k].mag * 1 /\ once[k].unit = u[k].unit
    BY <1>1, <2>2
  <2>4. once[k].mag = u[k].mag
    BY <2>1, <2>3
  <2> QED  BY <2>3, <2>4
<1>4. Scaled(once, -1) = [k \in DOMAIN u |-> Part(once[k].mag * (-1), once[k].unit)]
  BY <1>1 DEF Scaled
<1> QED
  BY <1>3, <1>4 DEF Scaled, once

\* The parts of an offset that a template's shorthand writes are those that the
\* query adds, or the opposite ones.
LEMMA OffsetSays ==
  ASSUME NEW literal, IsLiteral(literal), literal[1].sign = "", NEW lead \in {"", "-"}, NEW inner \in {"", "-"}
  PROVE  LET offset == ParseDuration(TranslateIso(lead, inner, literal))
             d == ParseDuration(literal)
         IN  /\ DurationOK(offset) /\ DurationOK(d) /\ DurationOK(Times(d, -1))
             /\ offset.parts # <<>>
             /\ offset.parts = IF lead = inner THEN d.parts ELSE Times(d, -1).parts
<1> DEFINE sign == IF lead # inner THEN "-" ELSE ""
           written == [literal EXCEPT ![1].sign = sign]
           u == Unsigned(literal)
           d == ParseDuration(literal)
           offset == ParseDuration(written)
<1>1. TranslateIso(lead, inner, literal) = written
  BY DEF TranslateIso
<1>2. sign \in {"", "-"}
  OBVIOUS
<1> HIDE DEF sign
<1>3. IsLiteral(written) /\ written[1].sign = sign /\ Unsigned(written) = u
  BY <1>2, SignedLiteral
<1> HIDE DEF written
<1>4. /\ ParsedParts(written) = Scaled(u, IF sign = "-" THEN -1 ELSE 1)
      /\ ParsedParts(literal) = Scaled(u, IF literal[1].sign = "-" THEN -1 ELSE 1)
      /\ literal \in Seq(EvenParts)
  BY <1>3, LiteralSays
<1>5. ParsedParts(literal) = Scaled(u, 1)
  BY <1>4
<1>6. ParsedParts(written) = IF lead # inner THEN Scaled(u, -1) ELSE Scaled(u, 1)
  BY <1>4 DEF sign
<1>7. u \in Seq(Parts)
  BY <1>4, UnsignedIsParts
<1> HIDE DEF u
<1>8. Scaled(Scaled(u, 1), -1) = Scaled(u, -1)
  BY <1>7, ScaledBack
<1>9. /\ DurationOK(d) /\ d.parts = <<ParsedParts(literal)>>
      /\ DurationOK(offset) /\ offset.parts = <<ParsedParts(written)>>
  BY <1>3, ParsedOK
<1> HIDE DEF d, offset
<1>10. d.parts # <<>> /\ offset.parts # <<>> /\ d.parts[1] = ParsedParts(literal)
  <2>1. \A x : <<x>> # <<>> /\ <<x>>[1] = x
    OBVIOUS
  <2> QED  BY <1>9, <2>1
<1>11. DurationOK(Times(d, -1)) /\ Times(d, -1).parts = <<Scaled(d.parts[1], -1)>>
  BY <1>9, <1>10, OppositeOK
<1>12. offset.parts = IF lead = inner THEN d.parts ELSE Times(d, -1).parts
  BY <1>5, <1>6, <1>8, <1>9, <1>10, <1>11
<1> QED
  BY <1>1, <1>9, <1>10, <1>11, <1>12 DEF d, offset

-----------------------------------------------------------------------------
(* The invariant *)

IInv ==
  /\ IsZone(zone) /\ steps \in Nat
  /\ IsText(text) /\ IsValue(value) /\ lost \in BOOLEAN
  /\ DurationOK(duration)
  /\ FrontEndsAgree

ValuePrecision(v) == IF HasTime(v) THEN "datetime" ELSE "day"

\* In one zone a text is classified alike before and after a step.
LEMMA ClassifyStays ==
  ASSUME zone' = zone
  PROVE  (Classify(text))' = Classify(text')
BY DEF Classify

LEMMA ValueTyped ==
  ASSUME NEW v, NEW s, NEW q, IsOne(s, s, q, q)
  PROVE  IsValue(ValueOf(v, s))
<1>1. PICK wall, instant \in Int : s = Point(wall, instant, q)
  BY DEF IsOne
<1>2. s.wall = wall /\ s.instant = instant
  BY <1>1, PointFacts
<1>3. DateOf(wall) \in Int
  BY WallParts
<1>4. ValueOf(v, s) = IF HasTime(v) THEN DateTime(instant) ELSE Date(DateOf(wall))
  BY <1>2 DEF ValueOf
<1> QED
  BY <1>3, <1>4, Kinds

\* The points that a text and a value begin from: one point while they agree.
LEMMA PointsBegin ==
  ASSUME IInv
  PROVE  LET t == Classify(text)
             p == Precision(text)
             q == ValuePrecision(value)
         IN  /\ Recognized(text) = Point(WallOf(zone, t), InstantOf(zone, t), p)
             /\ PointOfValue(value) = Point(WallOf(zone, value), InstantOf(zone, value), q)
             /\ WallOf(zone, t) \in Int /\ InstantOf(zone, t) \in Int
             /\ WallOf(zone, value) \in Int /\ InstantOf(zone, value) \in Int
             /\ SameKind(p, p) /\ SameKind(q, q)
             /\ t = value => SameKind(p, q)
<1>1. IsZone(zone) /\ IsText(text) /\ IsValue(value)
  BY DEF IInv
<1>2. /\ IsValue(Classify(text)) /\ Precision(text) \in Precisions
      /\ HasTime(Classify(text)) <=> Precision(text) = "datetime"
  BY <1>1, ClassifyTyped
<1>3. ValuePrecision(value) \in Precisions /\ (HasTime(value) <=> ValuePrecision(value) = "datetime")
  BY DEF ValuePrecision, Precisions
<1>4. /\ WallOf(zone, Classify(text)) \in Int /\ InstantOf(zone, Classify(text)) \in Int
      /\ WallOf(zone, value) \in Int /\ InstantOf(zone, value) \in Int
  BY <1>1, <1>2, ValueFacts
<1>5. /\ Recognized(text) = Point(WallOf(zone, Classify(text)), InstantOf(zone, Classify(text)), Precision(text))
      /\ PointOfValue(value) = Point(WallOf(zone, value), InstantOf(zone, value), ValuePrecision(value))
  BY DEF Recognized, PointOfValue, PointOf, ValuePrecision
<1> QED
  BY <1>2, <1>3, <1>4, <1>5 DEF SameKind

\* A step that works on a text's point and on a value's alike.
LEMMA WorkKeeps ==
  ASSUME IInv, zone' = zone, NEW r, NEW s,
         IsOne(r, r, Precision(text), Precision(text)),
         IsOne(s, s, ValuePrecision(value), ValuePrecision(value)),
         Classify(text) = value => IsOne(r, s, Precision(text), ValuePrecision(value)),
         Work(ValueOf(value, s), Format(r)), lost' \in BOOLEAN,
         IsLost(ValueOf(value, s)) => lost'
  PROVE  IsText(text') /\ IsValue(value') /\ lost' \in BOOLEAN /\ FrontEndsAgree'
<1>1. /\ value' = ValueOf(value, s) /\ text' = Format(r)
      /\ lost \/ Loses(ValueOf(value, s), Precision(text)) => lost'
  BY DEF Work, IsLost
<1>2. IsZone(zone) /\ IsText(text) /\ IsValue(value) /\ lost \in BOOLEAN /\ (~lost => Classify(text) = value)
  BY DEF IInv, FrontEndsAgree
<1>3. IsText(Format(r))
  BY <1>2, OneAgrees
<1>4. IsValue(ValueOf(value, s))
  BY ValueTyped
<1>5. ASSUME ~lost' PROVE Classify(text') = value'
  <2>1. Classify(text) = value /\ ~Loses(ValueOf(value, s), Precision(text))
    BY <1>1, <1>2, <1>5
  <2>2. HasTime(value) <=> Precision(text) = "datetime"
    BY <1>2, <2>1, ClassifyTyped
  <2>3. IsOne(r, s, Precision(text), ValuePrecision(value))
    BY <2>1
  <2>4. Classify(Format(r)) = ValueOf(value, s)
    BY <1>2, <2>1, <2>2, <2>3, OneAgrees
  <2> QED  BY <1>1, <2>4
<1>6. FrontEndsAgree'
  BY <1>5, ClassifyStays DEF FrontEndsAgree
<1> QED
  BY <1>1, <1>3, <1>4, <1>6

LEMMA ShiftKeeps ==
  ASSUME IInv, zone' = zone, Shift
  PROVE  IsText(text') /\ IsValue(value') /\ lost' \in BOOLEAN /\ FrontEndsAgree'
<1>1. PICK n \in Amounts, unit \in Units :
        /\ Work(DateAdd(value, n, unit), DateShiftUnit(text, n, unit))
        /\ lost' = (IsLost(DateAdd(value, n, unit)) \/ LeavesDay(n, unit))
  BY DEF Shift
<1> DEFINE r == ShiftPoint(zone, Recognized(text), n, unit)
           s == ShiftPoint(zone, PointOfValue(value), n, unit)
           p == Precision(text)
           q == ValuePrecision(value)
<1>2. n \in Int /\ IsZone(zone)
  BY InputsAssumption DEF IInv
<1>3. IsOne(r, r, p, p) /\ IsOne(s, s, q, q)
  BY <1>2, PointsBegin, ShiftIsOne
<1>4. Classify(text) = value => IsOne(r, s, p, q)
  BY <1>2, PointsBegin, ShiftIsOne
<1>5. /\ Work(ValueOf(value, s), Format(r))
      /\ lost' = (IsLost(ValueOf(value, s)) \/ LeavesDay(n, unit))
  BY <1>1 DEF DateAdd, DateShiftUnit
<1>6. lost' \in BOOLEAN /\ (IsLost(ValueOf(value, s)) => lost')
  BY <1>5 DEF IsLost
<1> HIDE DEF r, s
<1> QED
  BY <1>3, <1>4, <1>5, <1>6, WorkKeeps

LEMMA MoveToBoundaryKeeps ==
  ASSUME IInv, zone' = zone, MoveToBoundary
  PROVE  IsText(text') /\ IsValue(value') /\ lost' \in BOOLEAN /\ FrontEndsAgree'
<1>1. PICK period \in {"week", "month", "year"}, end \in BOOLEAN :
        /\ Work(DateBoundary(value, period, end), BoundaryOf(text, period, end))
        /\ lost' = IsLost(DateBoundary(value, period, end))
  BY DEF MoveToBoundary
<1> DEFINE r == BoundaryPoint(zone, Recognized(text), period, end)
           s == BoundaryPoint(zone, PointOfValue(value), period, end)
           p == Precision(text)
           q == ValuePrecision(value)
<1>2. IsZone(zone)
  BY DEF IInv
<1>3. IsOne(r, r, p, p) /\ IsOne(s, s, q, q)
  BY <1>2, PointsBegin, BoundaryIsOne
<1>4. Classify(text) = value => IsOne(r, s, p, q)
  BY <1>2, PointsBegin, BoundaryIsOne
<1>5. Work(ValueOf(value, s), Format(r)) /\ lost' = IsLost(ValueOf(value, s))
  BY <1>1 DEF DateBoundary, BoundaryOf
<1>6. lost' \in BOOLEAN
  BY <1>5 DEF IsLost
<1> HIDE DEF r, s
<1> QED
  BY <1>3, <1>4, <1>5, <1>6, WorkKeeps

LEMMA OffsetKeeps ==
  ASSUME IInv, zone' = zone, Offset
  PROVE  IsText(text') /\ IsValue(value') /\ lost' \in BOOLEAN /\ FrontEndsAgree'
<1>1. PICK literal \in Literals, lead \in {"", "-"}, inner \in {"", "-"} :
        LET offset   == ParseDuration(literal)
            newValue == IF lead = inner THEN Plus(value, offset) ELSE Minus(value, offset)
        IN  /\ Work(newValue, WithOffset(text, TranslateIso(lead, inner, literal)))
            /\ lost' = IsLost(newValue)
  BY DEF Offset
<1> DEFINE written == ParseDuration(TranslateIso(lead, inner, literal))
           d == IF lead = inner THEN ParseDuration(literal) ELSE Times(ParseDuration(literal), -1)
           r == ApplyToPoint(zone, Recognized(text), written)
           s == ApplyToPoint(zone, PointOfValue(value), d)
           p == Precision(text)
           q == ValuePrecision(value)
<1>2. IsZone(zone) /\ IsValue(value)
  BY DEF IInv
<1>3. IsLiteral(literal) /\ literal[1].sign = ""
  BY Zenon, InputsAssumption
<1>4. DurationOK(written) /\ DurationOK(d) /\ written.parts # <<>> /\ written.parts = d.parts
  BY <1>3, OffsetSays
<1>5. (IF lead = inner THEN Plus(value, ParseDuration(literal)) ELSE Minus(value, ParseDuration(literal)))
        = Plus(value, d)
  BY DEF Minus
<1> HIDE DEF written, d
<1>6. Plus(value, d) = ValueOf(value, s)
  BY <1>2, <1>4, PlusIs
<1>7. r = ApplyToPoint(zone, Recognized(text), d)
  BY <1>4, SameParts
<1>8. IsOne(r, r, p, p) /\ IsOne(s, s, q, q)
  BY <1>2, <1>4, <1>7, PointsBegin, ApplyIsOne
<1>9. Classify(text) = value => IsOne(r, s, p, q)
  BY <1>2, <1>4, <1>7, PointsBegin, ApplyIsOne
<1>10. Work(ValueOf(value, s), Format(r)) /\ lost' = IsLost(ValueOf(value, s))
  BY <1>1, <1>5, <1>6 DEF WithOffset, written
<1>11. lost' \in BOOLEAN
  BY <1>10 DEF IsLost
<1> HIDE DEF r, s
<1> QED
  BY <1>8, <1>9, <1>10, <1>11, WorkKeeps

\* A row shows the text of its value.
LEMMA ShowRowKeeps ==
  ASSUME IInv, zone' = zone, NEW v, IsValue(v), ShowRow(v)
  PROVE  IsText(text') /\ IsValue(value') /\ lost' \in BOOLEAN /\ FrontEndsAgree'
<1> DEFINE p == ValuePrecision(v)
           wall == WallOf(zone, v)
           instant == InstantOf(zone, v)
<1>1. value' = v /\ text' = Format(Point(wall, instant, p)) /\ lost' = Loses(v, "day")
  BY DEF ShowRow, PointOfValue, PointOf, ValuePrecision
<1>2. IsZone(zone)
  BY DEF IInv
<1>3. /\ v.at \in Int /\ v = IF HasTime(v) THEN DateTime(v.at) ELSE Date(v.at)
      /\ wall = IF HasTime(v) THEN LocalWall(zone, v.at) ELSE Midnight(v.at)
      /\ instant = IF HasTime(v) THEN v.at ELSE LocalToUtc(zone, Midnight(v.at))
      /\ wall \in Int /\ instant \in Int
  BY <1>2, ValueFacts
<1>4. p \in Precisions /\ (HasTime(v) <=> p = "datetime")
  BY DEF ValuePrecision, Precisions
<1>5. DateOf(Midnight(v.at)) = v.at
  BY <1>3, WallParts
<1>6. ~Loses(v, "day") => ~Loses(v, p)
  BY DEF Loses, ValuePrecision
<1> HIDE DEF p, wall, instant
<1>7. IsTied(wall, instant, p)
  BY <1>3, <1>4 DEF IsTied
<1>8. v = IF p = "datetime" THEN DateTime(instant) ELSE Date(DateOf(wall))
  BY <1>3, <1>4, <1>5
<1>9. IsText(text') /\ (~Loses(v, p) => Classify(text') = v)
  BY <1>1, <1>2, <1>7, <1>8, FormatReads
<1>10. lost' \in BOOLEAN
  BY <1>1 DEF Loses
<1>11. FrontEndsAgree'
  BY <1>1, <1>6, <1>9, ClassifyStays DEF FrontEndsAgree
<1> QED
  BY <1>1, <1>9, <1>10, <1>11

LEMMA AddDurationKeeps ==
  ASSUME IInv, zone' = zone, AddDuration
  PROVE  IsText(text') /\ IsValue(value') /\ lost' \in BOOLEAN /\ FrontEndsAgree'
<1>1. IsZone(zone) /\ IsValue(value) /\ DurationOK(duration)
  BY DEF IInv
<1>2. IsValue(Plus(value, duration))
  BY <1>1, PlusIs
<1>3. IsValue(Minus(value, duration))
  <2>1. DurationOK(Times(duration, -1))
    BY <1>1, OppositeOK
  <2> QED  BY <1>1, <2>1, PlusIs DEF Minus
<1> QED
  BY <1>2, <1>3, ShowRowKeeps DEF AddDuration

LEMMA IndexKeeps ==
  ASSUME IInv, zone' = zone, Index
  PROVE  IsText(text') /\ IsValue(value') /\ lost' \in BOOLEAN /\ FrontEndsAgree'
<1>1. value' = Classify(text) /\ lost' = FALSE /\ text' = text
  BY DEF Index
<1>2. IsZone(zone) /\ IsText(text)
  BY DEF IInv
<1>3. IsValue(Classify(text))
  BY <1>2, ClassifyTyped
<1>4. Classify(text') = Classify(text)
  BY <1>1
<1>5. FrontEndsAgree'
  BY <1>1, <1>4, ClassifyStays DEF FrontEndsAgree
<1> QED
  BY <1>1, <1>2, <1>3, <1>5

LEMMA CalculateKeeps ==
  ASSUME IInv, zone' = zone, Calculate
  PROVE  IsText(text') /\ IsValue(value') /\ lost' \in BOOLEAN /\ FrontEndsAgree' /\ DurationOK(duration')
<1>1. value' = value /\ text' = text /\ lost' = lost
  BY DEF Calculate
<1>2. IsZone(zone) /\ IsText(text) /\ IsValue(value) /\ lost \in BOOLEAN /\ DurationOK(duration) /\ FrontEndsAgree
  BY DEF IInv
<1>3. Classify(text') = Classify(text)
  BY <1>1
<1>4. FrontEndsAgree'
  BY <1>1, <1>2, <1>3, ClassifyStays DEF FrontEndsAgree
<1>5. ASSUME NEW literal \in Literals, NEW sign \in {1, -1},
             duration' = Combine(duration, ParseDuration(literal), sign)
      PROVE  DurationOK(duration')
  <2>1. IsLiteral(literal)
    BY Zenon, InputsAssumption
  <2>2. DurationOK(ParseDuration(literal))
    BY <2>1, ParsedOK
  <2> QED  BY <1>2, <1>5, <2>2, CombineOK
<1>6. ASSUME NEW n \in Amounts, duration' = Times(duration, n) PROVE DurationOK(duration')
  <2>1. n \in Int
    BY InputsAssumption
  <2> QED  BY <1>2, <1>6, <2>1, TimesOK
<1>7. ASSUME NEW other \in Others, duration' = Between(other, value) PROVE DurationOK(duration')
  <2>1. IsValue(other)
    BY Zenon, InputsAssumption
  <2> QED  BY <1>2, <1>7, <2>1, BetweenLeads
<1>8. DurationOK(duration')
  BY <1>5, <1>6, <1>7 DEF Calculate
<1> QED
  BY <1>1, <1>2, <1>4, <1>8

\* Typing, durations as long as they say, and one date in two places are kept by
\* every step.
THEOREM ValuesInductive == Spec => []IInv
<1>1. Init => IInv
  <2> SUFFICES ASSUME Init PROVE IInv
    OBVIOUS
  <2>1. PICK input \in Inputs : zone = input.zone /\ text = input.text /\ duration = ParseDuration(input.duration)
    BY DEF Init
  <2>2. IsZone(input.zone)
    BY Zenon, InputsAssumption
  <2>3. IsLiteral(input.duration)
    BY Zenon, InputsAssumption
  <2>4. input.text \in [shape : {"month", "day", "wall", "rfc3339"}, at : Int]
    BY Zenon, InputsAssumption
  <2>5. IsText(text)
    BY <2>1, <2>4 DEF IsText
  <2>6. value = Classify(text) /\ lost = FALSE /\ steps = 0
    BY DEF Init
  <2>7. IsValue(value)
    BY <2>1, <2>2, <2>5, <2>6, ClassifyTyped
  <2>8. DurationOK(duration)
    BY <2>1, <2>3, ParsedOK
  <2>9. FrontEndsAgree
    BY <2>6 DEF FrontEndsAgree
  <2> QED  BY <2>1, <2>2, <2>5, <2>6, <2>7, <2>8, <2>9 DEF IInv
<1>2. IInv /\ [Next]_vars => IInv'
  <2> SUFFICES ASSUME IInv, [Next]_vars PROVE IInv'
    OBVIOUS
  <2>1. CASE Next
    <3>1. zone' = zone /\ steps' = steps + 1
      BY <2>1 DEF Next
    <3>2. IsZone(zone') /\ steps' \in Nat
      BY <3>1 DEF IInv
    <3>3. IsText(text') /\ IsValue(value') /\ lost' \in BOOLEAN /\ FrontEndsAgree'
      BY <2>1, <3>1, ShiftKeeps, MoveToBoundaryKeeps, OffsetKeeps, AddDurationKeeps, IndexKeeps, CalculateKeeps DEF Next
    <3>4. DurationOK(duration')
      <4>1. CASE Calculate
        BY <3>1, <4>1, CalculateKeeps
      <4>2. CASE ~Calculate
        <5>1. duration' = duration
          BY <2>1, <4>2 DEF Next, Shift, MoveToBoundary, Offset, AddDuration, Index, Work, ShowRow
        <5> QED  BY <5>1 DEF IInv
      <4> QED  BY <4>1, <4>2
    <3> QED  BY <3>2, <3>3, <3>4 DEF IInv
  <2>2. CASE UNCHANGED vars
    <3>1. /\ zone' = zone /\ steps' = steps /\ text' = text /\ value' = value /\ lost' = lost
          /\ duration' = duration
      BY <2>2 DEF vars
    <3>2. Classify(text') = Classify(text)
      BY <3>1
    <3>3. FrontEndsAgree'
      BY <3>1, <3>2, ClassifyStays DEF FrontEndsAgree, IInv
    <3>4. /\ IsZone(zone') /\ steps' \in Nat /\ IsText(text') /\ IsValue(value') /\ lost' \in BOOLEAN
          /\ DurationOK(duration')
      BY <3>1 DEF IInv
    <3> QED  BY <3>3, <3>4 DEF IInv
  <2> QED  BY <2>1, <2>2
<1> QED
  BY <1>1, <1>2, PTL DEF Spec

-----------------------------------------------------------------------------
(* The properties of the runs *)

\* WallsResolve, of any zone whose changes are apart: every reading of the clock,
\* also one that it skips or reads twice, has the instant that local_naive_to_utc
\* is documented to give it.
THEOREM WallsAreMeant == Spec => []WallsResolve
<1>1. IInv => WallsResolve
  <2> SUFFICES ASSUME IInv PROVE WallsResolve
    OBVIOUS
  <2>1. IsZone(zone) /\ IsValue(value)
    BY DEF IInv
  <2>2. WallOf(zone, value) \in Int
    BY <2>1, ValueFacts
  <2>3. ASSUME NEW w \in (WallOf(zone, value) - DayTicks)..(WallOf(zone, value) + DayTicks)
        PROVE  Means(w, LocalToUtc(zone, w))
    <3>1. w \in Int
      BY <2>2 DEF DayTicks
    <3> QED  BY <2>1, <3>1, WallMeans
  <2> QED  BY <2>3 DEF WallsResolve
<1> QED
  BY <1>1, ValuesInductive, PTL

\* ShiftsAgree, of every value that is reached: shifts keep the clock and undo
\* each other as far as calendar and clock let them, and the three functions that
\* move by a number of units agree (shift_wall, DateTimeValue::shift, apply_part).
THEOREM ShiftsAlwaysAgree == Spec => []ShiftsAgree
<1>1. IInv => ShiftsAgree
  BY ShiftsHold DEF IInv
<1> QED
  BY <1>1, ValuesInductive, PTL

\* DiffsMeasure, of every value that is reached and every other one: differences
\* in months and years measure what shifts move by, and what is elapsed leads
\* from one value to the other (DatePoint::diff, signed_months_since).
THEOREM DiffsAlwaysMeasure == Spec => []DiffsMeasure
<1>1. IInv => DiffsMeasure
  BY DiffsHold DEF IInv
<1> QED
  BY <1>1, ValuesInductive, PTL

\* DurationsFold, after any sums, differences and products: a duration is as long
\* as its text and as its parts (fold_parts, canonical_raw, combine).
THEOREM DurationsAlwaysFold == Spec => []DurationsFold
<1>1. IInv => DurationsFold
  <2> SUFFICES ASSUME IInv PROVE DurationsFold
    OBVIOUS
  <2>1. DurationOK(duration)
    BY DEF IInv
  <2>2. IsDuration(duration.raw) /\ ParseDuration(duration.raw).seconds = duration.seconds
    <3>1. IsLiteral(duration.raw) /\ FoldParts(ParsedParts(duration.raw)) = duration.seconds
      BY <2>1 DEF DurationOK
    <3> QED  BY <3>1 DEF IsLiteral, ParseDuration, DurationValue
  <2>3. duration.parts # <<>> => FoldParts(duration.parts[1]) = duration.seconds
    BY <2>1, WrittenOrMeasured
  <2>4. ASSUME NEW literal \in Literals, NEW sign \in {1, -1}
        PROVE  LET other == ParseDuration(literal)
               IN  Combine(duration, other, sign).seconds = duration.seconds + sign * other.seconds
    <3>1. IsLiteral(literal)
      BY Zenon, InputsAssumption
    <3>2. DurationOK(ParseDuration(literal))
      BY <3>1, ParsedOK
    <3> QED  BY <2>1, <3>2, CombineOK
  <2> QED  BY <2>2, <2>3, <2>4 DEF DurationsFold
<1> QED
  BY <1>1, ValuesInductive, PTL

\* FrontEndsAgree, whatever the steps and the zone: until a step comes upon what
\* a text cannot tell, or hours take a text of no time to another day, a
\* template's text says what the query's value is (date_shift_unit,
\* resolve_shorthand and the value expressions of a query).
THEOREM FrontEndsAlwaysAgree == Spec => []FrontEndsAgree
<1>1. IInv => FrontEndsAgree
  BY DEF IInv
<1> QED
  BY <1>1, ValuesInductive, PTL
=============================================================================
