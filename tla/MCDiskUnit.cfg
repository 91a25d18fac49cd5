CONSTANTS
  MaxSlot = 3
  MaxDeleted = 1
  Contents <- MCContents
  FreshPage = "blank"
  ZeroPage = "blank"
  FILE_CAPACITY = 2
  PageIds = {1, 2, 3}
SPECIFICATION Spec
INVARIANTS
  TypeOK
  InsideFile
  SequentialReadsBack
CHECK_DEADLOCK FALSE
