\* Two processes. Over one vault their commands race; over two nested ones they
\* come one after the other and fail or are killed halfway.
CONSTANTS
  outer = outer  inner = inner
  Root = {outer, inner}  NoRoot = NoRoot  Above <- Nested
  Content = {c1, c2}  NoFile = NoFile  NoHash = NoHash  Torn = Torn
  Proc = {p1, p2}
  MaxEdits = 2  MaxFaults = 2  MaxRaceFaults = 1
SYMMETRY Interchangeable
SPECIFICATION RaceSpec
INVARIANTS LoadAuthorised AloneAchieves BaselineUntilRace
