\* The three families of MCQuery, and four query sets.
SPECIFICATION QuerySpec
CONSTANTS
  Lower <- MCLower
  Extends <- MCExtends
  Predicates <- MCPredicates
  Questions <- MCQuestions
  MaxSets = 4
INVARIANTS
  ParsesAsWritten ServesMatching ReadsItsPlan
CHECK_DEADLOCK FALSE
