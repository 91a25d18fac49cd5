SPECIFICATION Spec
CONSTANTS
  Keys <- MCKeys
  PageEntries = 2
  Degree = 2
  TableSize = 2
  MaxRows <- MCMaxRows
  MaxEntries <- MCMaxEntries
  MaxPending = 1
  MaxChangedRows <- MCMaxChangedRows
  MaxChanges = 2
INVARIANTS
  TypeOK
  HashLookupsExact
  TreeLookupsExact
  TreeOrdered
  TreeBalanced
  TreeOnPages
  StaleOnlyWhereTouched
PROPERTY RemovalTakesOne
CHECK_DEADLOCK FALSE
