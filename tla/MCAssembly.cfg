SPECIFICATION FairSpec
CONSTANTS
  s1 = s1
  s2 = s2
  s3 = s3
  t1 = t1
  t2 = t2
  Spans = {s1, s3}
  Traces = {t1, t2}
  TraceOf <- TwoAndOne
  NShards = 1
  ShardOf <- OneShard
  IdleTimeout = 1
  HardTimeout = 2
  ChanCap = 1
  REDCap = 1
  MaxDeliveries = 2
  None = None
INVARIANTS
  EachSpanDecidedOnce
  Paired
  REDAccounted
  NothingLeftBehind
PROPERTIES
  EveryTraceDecided
  ShutdownReturns
CHECK_DEADLOCK FALSE
