SPECIFICATION Spec
CONSTANTS
  RowValues <- MCRows
  DeclaredType <- MCDeclared
  FlushEvery = 3
  MaxRows = 3
  MaxRestarts = 1
INVARIANTS
  PartsReadTogether
  ValuesKept
PROPERTIES
  OneRowPerConflict
