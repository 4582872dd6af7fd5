\* A root is trusted before it has a config.
CONSTANTS
  outer = outer  inner = inner
  Root = {outer, inner}  NoRoot = NoRoot  Above <- Nested
  Content = {c1, c2}  NoFile = NoFile  NoHash = NoHash  Torn = Torn
  Proc = {p1}
  MaxEdits = 2  MaxFaults = 0  MaxRaceFaults = 0
SPECIFICATION RaceSpec
INVARIANT TrackedIfTrusted
