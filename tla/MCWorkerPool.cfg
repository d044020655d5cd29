SPECIFICATION ScheduleSpec
CONSTANTS
  Workers = {"w1", "w2"}
  Game = "game"
  Kinds = {"Mark", "Sweep", "Particles", "AnimateRoots"}
  MaxJobs = 2
  Lens = {2, 3}
  Capacity = 2
  Chunk = 2
CHECK_DEADLOCK FALSE
INVARIANTS
  OncePerTicket
  FreedIsDebited
  JoinCoversJob
  AnimatedBeforeUse
PROPERTIES
  JobsEnd
