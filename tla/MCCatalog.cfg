CONSTANTS
  Names = {"a", "b"}
  IndexNames = {"i"}
  MaxTables = 3
  MaxStops = 3
SPECIFICATION Spec
INVARIANTS
  TypeOK
  IdsFresh
  TablesAgree
  TablesRecorded
PROPERTY
  ClosedTablesComeBack
CHECK_DEADLOCK FALSE
