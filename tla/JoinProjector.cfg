CONSTANTS
  Fold <- MCFold
  Cases <- MCCases
SPECIFICATION Spec
INVARIANTS ProjectedAsMade PlansTellApart
