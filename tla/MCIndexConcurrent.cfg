\* Two processes, a note and an attachment it may link to, one edit, one fault.
CONSTANTS
  a = a
  b = b
  img = img
  p = p
  q = q
  linked = linked
  tagged = tagged
  plain = plain
  NoBody = NoBody
  NoTarget = NoTarget
  NoProc = NoProc
  Path = {a, img}
  NotePath = {a}
  Body = {linked, tagged}
  ClassField = {"class"}
  Proc = {p, q}
  Commands = {"refresh", "rebuild"}
  InitialClock = 3
  Age <- MCAge
  MaxClock = 4
  MaxFaults = 1
  MaxSettings = 0
  MaxTurns = 2
  Moves = {}
  Outlinks <- MCOutlinks
  AxisValues <- MCAxisValues
  Resolve <- MCResolve
SYMMETRY ProcSymmetry
SPECIFICATION Spec
INVARIANTS StoreCoherent RowsCurrent SnapshotCurrent ServesBuild
PROPERTY ImplementsWorkspaceIndex
