CONSTANTS
  Names = {"a", "b"}
  IndexNames = {"i"}
  MaxTables = 3
  MaxStops = 3
SPECIFICATION Spec
PROPERTY
  RestartRebuildsTables
CHECK_DEADLOCK FALSE
