\* One process and a note that is edited, renamed and removed: every command, a
\* fault, and one change of class_field, three of these together, which stop.
CONSTANTS
  a = a
  b = b
  img = img
  p = p
  q = q
  linked = linked
  tagged = tagged
  plain = plain
  NoBody = NoBody
  NoTarget = NoTarget
  NoProc = NoProc
  Path = {a, b}
  NotePath = {a, b}
  Body = {linked, tagged}
  ClassField = {"class", "kind"}
  Proc = {p}
  Commands = {"refresh", "refresh_store", "rebuild"}
  InitialClock = 2
  Age <- MCAge
  MaxClock = 5
  MaxFaults = 1
  MaxSettings = 1
  MaxTurns = 3
  Moves <- OneWay
  Outlinks <- MCOutlinks
  AxisValues <- MCAxisValues
  Resolve <- MCResolve
SPECIFICATION OneNoteFairSpec
INVARIANT StoreCoherent
PROPERTY Converges
