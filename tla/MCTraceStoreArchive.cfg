SPECIFICATION FairSpec
CONSTANTS
  Traces = {t1, t2}
  Hours = {1, 2}
  HourOf <- TwoHours
  Faults = {"open", "write", "hot", "seal", "bind"}
  Kills = TRUE
  MaxSeq = 3
  MaxStarts = 1
  None = None
PROPERTIES
  ActsAsArchive
  ShutdownBinds
CHECK_DEADLOCK FALSE
