SPECIFICATION Spec
CONSTANTS
  ActionIDs = {a1}
  Incidents = {i1}
  Targets = {t1}
  Types = {"ScaleReplicas"}
  Principals = {u1, u2}
  Keys = {k1}
  Policies <- OnlyOpen
  Wired = {"resolver", "snapshotter"}
  Executors = {"dryrun", "kubectl"}
  DefaultExecutor = "kubectl"
  ProposalTTL = 2
  ApprovalTTL = 2
  DefaultActionBudget = 2
  MaxBudgetOverrides = 1
  AutoExecuteOnApprove = TRUE
  MaxNow = 3
  MaxVersion = 3
  None = None
SYMMETRY IDSymmetry
INVARIANTS
  ReplacedTargetNotMutated
CHECK_DEADLOCK FALSE
