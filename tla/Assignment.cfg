CONSTANTS
  Names = {a, b}
  Texts = {1}
  MaxDepth = 3
  MaxCells = 4
  MaxAtRest = 5
  MaxPending = 2
  MaxItems = 2
  Absent = Absent
  Missing = Missing
  Failed = Failed
SPECIFICATION Spec
INVARIANTS OnePlaceEach VariablesWithinDepth
PROPERTIES ImplementsVariableTree ScalarsKept CollectedKept
SYMMETRY Symmetry
CHECK_DEADLOCK FALSE
