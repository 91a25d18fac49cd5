CONSTANTS
  MaxSlot = 4
  PageIds = {1, 2, 3, 4}
  Contents <- MCContents
  FreshPage = "fresh"
  ZeroPage = "fresh"
  FILE_CAPACITY = 2
  BUFFER_SIZE = 3
  Window = 2
  Garbage <- MCGarbage
SPECIFICATION Spec
INVARIANTS
  TypeOK
  DirectoryDense
  TableMatchesFrames
  FramesAccounted
  PointersValid
  RecentlyTouched
PROPERTIES
  ImplementsPageCache
CHECK_DEADLOCK FALSE
