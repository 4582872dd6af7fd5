\* Up to four files in folders three deep; see MCLinkResolution.
SPECIFICATION Spec
CONSTANTS
  None = none
  NoExt = noext
  AnyExt = anyext
  AnchorOnly = anchor
  Exts = {"md", "png"}
  Names = {"a", "b"}
  Stems = {"todo", "other"}
  MaxDepth = 99
  Inputs <- MCInputs
INVARIANTS
  ResolvesNearest WalkSees
CHECK_DEADLOCK FALSE
