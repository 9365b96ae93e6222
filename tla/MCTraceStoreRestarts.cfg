SPECIFICATION Spec
CONSTANTS
  Traces = {t1, t2}
  Hours = {1}
  HourOf <- SameHour
  Faults = {"open", "bind", "replay"}
  Kills = TRUE
  MaxSeq = 2
  MaxStarts = 3
  None = None
SYMMETRY TraceSymmetry
CONSTRAINT NoIdReused
INVARIANTS
  DurableUnlessReused
  BoundRowsResolve
CHECK_DEADLOCK FALSE
