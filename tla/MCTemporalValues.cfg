\* Two steps from each text in each zone.
SPECIFICATION Spec
CONSTANTS
  FirstYear = 2020
  FirstMonday = 5
  Unresolved = Unresolved
  Inputs <- MCInputs
  Amounts <- MCAmounts
  Literals <- MCLiterals
  Others <- MCOthers
  MaxSteps = 2
INVARIANTS
  WallsResolve
  ShiftsAgree
  DiffsMeasure
  DurationsFold
  FrontEndsAgree
CHECK_DEADLOCK FALSE
