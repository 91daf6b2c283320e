SPECIFICATION MCSpec
CONSTANTS
  p1 = p1
  p2 = p2
  k1 = k1
  k2 = k2
  v = v
  x = x
  f1 = f1
  f2 = f2
  m1 = m1
  m2 = m2
  m3 = m3
  Procs <- MCProcs
  Keys <- MCKeys
  Kinds = {"Create", "Update", "Updates", "Delete", "Get", "Count", "List"}
  MaxOpen = 2
  Nested = TRUE
  MaxRuns = 2
  MaxCalls = 2
  Columns = {"id", "tenant"}
  Values = {v}
  Contexts = {x}
  Tenants = {f1, f2}
  PageArgs <- MCPageArgs
  TopInt = 7
  GrowSlack = 1
  CallerFilters <- MCFilters
  Absent = Absent
  MaxBuilding = 5
  Models <- MCModels
  MaxMigrations = 2
SYMMETRY Symmetry
INVARIANTS
  StoreInvariant
  NoTraceOfFailure
  NoneLeftBehind
  QueriesAreIndependent
  NoModelSkipped
PROPERTY
  ReadsOwnWrites
CHECK_DEADLOCK FALSE
