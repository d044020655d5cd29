SPECIFICATION CrashSpec
CONSTANTS
  a1 = a1
  a2 = a2
  a3 = a3
  b1 = b1
  b2 = b2
  Requests <- FiveRequests
  Pairs <- MCPairs
  PairOf <- MCPairOf
  Statuses = {"Ok"}
  Internal = "Ok"
  MAX_BATCH = 3
  WORK_QUEUE_DEPTH = 2
  POLL_MAX_RECORDS = 2
CHECK_DEADLOCK FALSE
INVARIANTS
  TypeOK
  PairFifo
  AtMostOnce
  NothingLost
PROPERTIES
  ImplementsPairChannels
  AcceptedIsDelivered
