SPECIFICATION FairSpec
CONSTANTS
  NoReq = NoReq
  r1 = r1
  r2 = r2
  r3 = r3
  Requests <- MCRequests
  Pairs = {"zh>en"}
  PairOf <- OnePairOf
  MaxChurns = 2
CHECK_DEADLOCK FALSE
INVARIANTS
  StreamIsServed
PROPERTIES
  AbandonedNotTranslated
  YieldedIsRead
