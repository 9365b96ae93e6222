SPECIFICATION Spec
CONSTANTS
  ActionIDs = {a1}
  Incidents = {i1}
  Targets = {t1}
  Types = {"ScaleReplicas", "RemoveIstioFault"}
  Principals = {u1, u2}
  Keys = {k1, k2}
  Policies <- OpenThenRevoked
  Wired = {"resolver", "snapshotter"}
  Executors = {"dryrun", "kubectl"}
  DefaultExecutor = "kubectl"
  ProposalTTL = 2
  ApprovalTTL = 2
  DefaultActionBudget = 2
  MaxBudgetOverrides = 1
  AutoExecuteOnApprove = TRUE
  MaxNow = 4
  MaxVersion = 3
  None = None
SYMMETRY IDSymmetry
INVARIANTS
  TypeOK
  SeparationOfDuty
  ExecutedAtMostOnce
  SnapshotBeforeMutation
  InFlightWasAuthorised
  CachedExecuteHappened
  AuditAgrees
PROPERTIES
  ImplementsGate
CHECK_DEADLOCK FALSE
