SPECIFICATION OwnIndexSpec
CONSTANTS
  Threads = {"main", "loader"}
  Mounters = {"main"}
  Handles = {h1, h2}
  h1 = h1
  h2 = h2
  Names = {"file"}
  BlockTables <- Contents
  Redirect <- TheOther
  Shapes <- CallSites
  BucketOf <- OneBucket
  MaxChanges = 3
SYMMETRY Alike
CHECK_DEADLOCK FALSE
INVARIANTS
  RecordsCurrent
  BlockInItsArchive
  RefsAccounted
