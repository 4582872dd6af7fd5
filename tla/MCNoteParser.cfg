SPECIFICATION Spec
CONSTANTS
  Inputs <- MCInputs
  MaxDepth = 2
  Characters <- MCCharacters
  Unset = Unset
  Rejected = Rejected
  Invalid <- MCInvalid
  InvalidTags <- MCInvalidTags
  IsAbsolute <- MCIsAbsolute
  NormalName <- MCNormalName
INVARIANTS
  OutlineAsWritten
  MarkersAsWritten
  MetadataAsWritten
  CompletionExact
  ClassifiedAsConfigured
  LookupsAgree
CHECK_DEADLOCK FALSE
