SPECIFICATION Spec
CONSTANTS
  ActionIDs = {a1, a2, a3}
  Incidents = {i1}
  Targets = {t1}
  Types = {"ScaleReplicas"}
  Principals = {u1, u2}
  Keys = {k1, k2, k3}
  Policies <- ShrinkingCaps
  Wired = {}
  Executors = {"dryrun"}
  DefaultExecutor = "dryrun"
  ProposalTTL = 1
  ApprovalTTL = 1
  DefaultActionBudget = 2
  MaxBudgetOverrides = 1
  AutoExecuteOnApprove = FALSE
  MaxNow = 1
  MaxVersion = 1
  None = None
SYMMETRY IDSymmetry
INVARIANTS
  BudgetBound
  OverrideCeiling
CHECK_DEADLOCK FALSE
