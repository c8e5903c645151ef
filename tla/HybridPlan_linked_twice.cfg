CONSTANTS
  FieldNames <- MCFields
  RightRows <- MCRight
  Kinds <- MCKinds
  Programs <- MCLinkedTwice
  Tables <- MCTables
SPECIFICATION Spec
INVARIANT AnswerKept
