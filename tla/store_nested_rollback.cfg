SPECIFICATION Spec
CONSTANTS
  p1 = p1
  p2 = p2
  k1 = k1
  k2 = k2
  Procs <- MCProcs
  Keys <- MCKeys
  Kinds = {"Create"}
  MaxOpen = 2
  Nested = TRUE
  MaxRuns = 2
  MaxCalls = 2
SYMMETRY Symmetry
INVARIANT RunIsAtomic
CHECK_DEADLOCK FALSE
