\* Five deep: conjuncts of two FILTERs reach a LINK below two others, and joins
\* in bodies, operands and keys meet what is handed over. None of the conjuncts
\* of fields alone holds a ??.
CONSTANTS
  MaxDepth = 5
  CatchingFields = FALSE
  Predicates = {"simple", "partial", "blocked"}
  Within = {"simple", "blocked"}
  Elsewhere = {"leaf", "guard", "over"}
SPECIFICATION Spec
INVARIANTS HandedOnTheWay ReportHasReader OwnReportOnly DeepUnobserved DropsReported
