SPECIFICATION Spec
CONSTANTS
  ta = ta
  tb = tb
  none = none
  f1 = f1
  f2 = f2
  f3 = f3
  Nobody = none
  Spans <- MCSpans
  Stored <- MCStored
  MaxEdges = 2
  NewWindow = 1
  VanishAfter = 1
  PendingTTL = 0
  ChangesCap = 1
  MaxClock = 2
  MaxCalls = 2
  MaxInserts = 4
  Watched = {ta}
  EvalInterval = 3
  DedupeTTL = 1
  NewEdgeMinCalls = 2
  VanishedEdgeMinCalls = 1
  Nothing = Nothing
  Reason = Reason
  Events <- MCEvents
  Near <- MCNear
  Window = 0
  ReopenTTL = 0
  MaxOpen = 2
  MaxIncidents = 3
  MaxTime = 1
  NoRecord = NoRecord
  Terms <- MCTerms
  Queries = {{1, 2}}
  Bundles <- MCBundles
  MaxCandidates = 2
  PruneAfter = 0
  MaxRecords = 3
  MaxConfirms = 1
  MaxAge = 1
  Callers = {c1, c2, c3}
  Requests <- MCRequests
  AdaptersOf <- MCAdaptersOf
  Held <- MCHeld
  DefaultLimit = 1
  MaxPerTenant = 2
  MaxGlobal = 2
  CacheTTL = 1
  CacheMax = 2
  BreakerFailures = 2
  BreakerOpen = 1
  MaxNow = 2
  MaxCollects = 3
  Keys = {k1, k2}
  Loads <- MCLoads
  HourOf <- FiveBuckets
  Scale = 32
  MaxKeys = 1
  WarmupSamples = 2
  WarmupPerBucket = 1
  MaxColdStart = 2
  EvalWindow = 2
  DebounceTicks = 2
  LatencyRatio = 3
  LatencyDelta = 1
  ErrorDelta = 4
  ErrorRatio = 3
  DropRatio = 1
  MinSamples = 1
  MinRate = 16
  MaxBuckets = 5
  None = None
  Subjects = {"alice", "nemo"}
  TenantOf <- MCTenantOf
  Catalog <- MCCatalog
  Texts <- MCTexts
  Deployments <- MCDeployments
  Grants <- MCGrants
  ContextTurns = 1
  ContextTTL = 0
  MaxIdle = 1
  IndexTraces = {1, 2, 3}
  StartOf <- MCStartOf
  Horizons <- MCHorizons
  AttrBucket = 2
  ExpireBatch = 1
  Horizon5m = 1
  MaxITime = 3
  MaxWrites = 2
PROPERTIES
  NewEdgeNeverLost
CHECK_DEADLOCK FALSE
