CONSTANTS
  MaxPages = 3
  Tuples <- MCTuples
  TupleSize <- MCTupleSize
  EndInText <- MCEndInText
  PageSpace = 52
  SlotSize = 6
  MaxChanged = 2
SPECIFICATION Spec
INVARIANTS
  TypeOK
  ChainWellFormed
  PagesFit
  ScanYieldsRows
  IteratorYieldsRows
  InsertsStay
CHECK_DEADLOCK FALSE
