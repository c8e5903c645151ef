\* The same with ?? in such a conjunct.
CONSTANTS
  MaxDepth = 5
  CatchingFields = TRUE
  Predicates = {"simple", "partial", "blocked"}
  Within = {"simple", "blocked"}
  Elsewhere = {"leaf"}
SPECIFICATION Spec
INVARIANT DropsReported
