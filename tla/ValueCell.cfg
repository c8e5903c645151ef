\* One cell of up to three children: every representation and every way between them.
CONSTANTS
  Cells = {c1}
  Names = {a}
  Atoms = {p, q}
  Absent = Absent
  MaxLen = 3
  MaxGiven = 2
  IndexMin = 2
SPECIFICATION Spec
INVARIANTS ReprOK IndexExact ReadsAgree OperationsAgree EqlAgrees
PROPERTY ImplementsOrderedMap
