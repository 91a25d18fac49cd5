SPECIFICATION Spec
CONSTANTS
  PageRows = 2
  Schemas <- MCSchemas
  Required <- MCRequired
  Contents <- MCContents
  Selects <- MCSelects
  Changes <- MCChanges
  Inserts <- MCInserts
  Drives <- MCDrives
  MaxStatements = 3
  MaxSlots = 8
INVARIANTS
  TypeOK
  AnswersExact
  JoinsExact
  SortsAndGroups
PROPERTY ChangesFinish
CHECK_DEADLOCK FALSE
