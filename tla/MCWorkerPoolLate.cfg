SPECIFICATION Spec
CONSTANTS
  Workers = {"w1", "w2"}
  Game = "game"
  Kinds = {"Particles"}
  MaxJobs = 1
  Lens = {2}
  Capacity = 2
  Chunk = 1
CHECK_DEADLOCK FALSE
INVARIANTS
  BuffersOutliveUse
