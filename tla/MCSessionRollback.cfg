CONSTANTS
  MaxPages = 3
  Tuples <- MCTuples
  TupleSize <- MCTupleSize
  EndInText <- MCEndInText
  PageSpace = 52
  SlotSize = 6
  Empty = "empty"
  WithNull = {"null"}
  Statements <- MCStatements
  MaxStatements = 3
  MaxStops = 2
SPECIFICATION Spec
PROPERTY RollbackUndoes
CHECK_DEADLOCK FALSE
