SPECIFICATION FairSpec
CONSTANTS
  p1 = p1
  p2 = p2
  k1 = k1
  k2 = k2
  Procs <- MCProcs
  Keys = {k1}
  Kinds = {"Create", "Update", "Updates", "Delete", "Get", "Count", "List"}
  MaxOpen = 1
  Nested = FALSE
  MaxRuns = 2
  MaxCalls = 2
PROPERTY RunsEnd
CHECK_DEADLOCK FALSE
