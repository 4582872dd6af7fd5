\* Four schemas; see the families in MCSchemaBuilder.
SPECIFICATION BuilderSpec
CONSTANTS
  Count = 4
  Global = global
  Missing = missing
  Fields = {"title", "Title", "status"}
  Key <- MCKey
  Infinite = 1000
  Inputs <- MCInputs
INVARIANTS
  TopologicalOrder CyclesExact
  Settled MatchesIsA AncestorsExact OptionsHold OneReading
PROPERTY Ends
CHECK_DEADLOCK FALSE
