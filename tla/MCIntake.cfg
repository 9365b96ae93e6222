SPECIFICATION Spec
CONSTANTS
  ta = ta
  tb = tb
  Tenants = {ta, tb}
  Requests <- MCRequests
  TraceKinds <- MCTraceKinds
  MaxPreds = 2
  NoMatch = NoMatch
  Times = {1}
  Levels = {1, 3, 4}
  MaxIds = 3
  MaxHits = 1
  W = 2
  Lookback = 1
  RareCap = 1
  FloorCap = 1
  MaxCard = 2
  RateNum = 2
  RateDen = 3
  Sigs = {1, 2}
  Roots = {"r"}
  FinalTraces <- MCFinalized
  Floors = {0, 1}
  MaxDecided = 4
  e1 = e1
  e2 = e2
  b1 = b1
  b2 = b2
  Exporters = {e1, e2}
  Batches = {b1, b2}
  Request <- MCRequest
  Deployments <- MCDeployments
  Queues = {1, 2}
  Capacity = 2
  MaxBytes = 3
  MaxRequestBytes = 2
  MaxSpans = 1
  MaxAttrs = 2
INVARIANTS
  TenantBound
  ClassesMetered
  PipelineSound
PROPERTIES
  GoneForGood
  PipelineProgress
CHECK_DEADLOCK FALSE
