SPECIFICATION Spec
CONSTANTS
  Objects = {"a", "b", "c", "d", "thread", "late", "userdata", "kept"}
  Threads = {"thread", "late"}
  Refs <- HeapRefs
  Roots = {"a", "thread"}
  Finalised = {"userdata"}
  Workers = {"w1", "w2", "w3"}
  Coordinator = "game"
  GrabMax = 2
  SurplusOver = 1
  Shared = 1
CHECK_DEADLOCK FALSE
INVARIANTS
  TypeOK
  PassComplete
  TraversedOnce
PROPERTIES
  MarkTerminates
