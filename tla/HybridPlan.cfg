CONSTANTS
  FieldNames <- MCFields
  RightRows <- MCRight
  Kinds <- MCKinds
  Programs <- MCPrograms
  Tables <- MCTables
SPECIFICATION Spec
INVARIANTS TypeOK RewritesKeepValue AnswerKept RowsAreTheValue
PROPERTY OptimiserEnds
