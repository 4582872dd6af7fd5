\* Two renders and a user in one vault.
CONSTANTS
  p = p  q = q  a = a  b = b  out = out
  daily = daily  page = page  part = part  loop = loop
  Directory = {1, 2}
  FileName <- MCFileName  NoEntry = NoEntry
  Proc = {p, q}  User = User
  Program = {daily, page, part, loop}  Body <- MCBody
  Path = {a, b, out}  Inside = {a, b}  Refused = Refused  NoText = NoText
  DefaultOutput <- MCDefaultOutput
  Command <- MCCommand  NoName = NoName
  Entry <- MCEntry  InitialTree <- MCInitialTree  InitialFiles <- MCInitialFiles
  MaxDepth = 3  MaxEdits = 1  MaxFaults = 1
SPECIFICATION FairSpec
INVARIANTS TypeOK OwnFilesOnly ReportedIsThere OneSnapshot SearchIsSound
PROPERTY Ends
CHECK_DEADLOCK FALSE
