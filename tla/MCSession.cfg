CONSTANTS
  MaxPages = 3
  Tuples <- MCTuples
  TupleSize <- MCTupleSize
  EndInText <- MCEndInText
  PageSpace = 52
  SlotSize = 6
  Empty = "empty"
  WithNull = {"null"}
  Statements <- MCStatements
  MaxStatements = 3
  MaxStops = 3
SPECIFICATION Spec
INVARIANTS
  TypeOK
  LogSerial
  WriteSetIsLogged
PROPERTIES
  InsertsRecovered
  RollbackRestores
  StatementsShrink
CHECK_DEADLOCK FALSE
