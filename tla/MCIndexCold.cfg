\* A vault with no links: the database never gets its links table.
CONSTANTS
  a = a
  b = b
  img = img
  p = p
  q = q
  linked = linked
  tagged = tagged
  plain = plain
  NoBody = NoBody
  NoTarget = NoTarget
  NoProc = NoProc
  Path = {a, b}
  NotePath = {a, b}
  Body = {tagged}
  ClassField = {"class"}
  Proc = {p}
  Commands = {"refresh"}
  InitialClock = 2
  Age <- MCAge
  MaxClock = 2
  MaxFaults = 0
  MaxSettings = 0
  MaxTurns = 3
  Moves = {}
  Outlinks <- MCOutlinks
  AxisValues <- MCAxisValues
  Resolve <- MCResolve
SPECIFICATION Spec
PROPERTIES UnchangedIsKept
