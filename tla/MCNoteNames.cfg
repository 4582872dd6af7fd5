\* A note of one task, under a config file that lists one status or none.
SPECIFICATION Spec
CONSTANTS
  Inputs <- Renamings
  MaxDepth = 2
  Characters <- MCCharacters
  Unset = Unset
  Rejected = Rejected
  Invalid <- MCInvalid
  InvalidTags <- MCInvalidTags
  IsAbsolute <- MCIsAbsolute
  NormalName <- MCNormalName
INVARIANT NamesStand
CHECK_DEADLOCK FALSE
