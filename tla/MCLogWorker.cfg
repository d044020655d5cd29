SPECIFICATION Spec
CONSTANTS
  Callers = {"render", "loader"}
  Renderer = "render"
  MaxRecords = 3
CHECK_DEADLOCK FALSE
INVARIANTS
  WrittenInOrder
PROPERTIES
  EverythingWritten
