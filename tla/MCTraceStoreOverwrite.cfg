SPECIFICATION Spec
CONSTANTS
  Traces = {t1, t2}
  Hours = {1}
  HourOf <- SameHour
  Faults = {}
  Kills = FALSE
  MaxSeq = 2
  MaxStarts = 2
  None = None
SYMMETRY TraceSymmetry
INVARIANTS
  DurableOnceAcked
CHECK_DEADLOCK FALSE
