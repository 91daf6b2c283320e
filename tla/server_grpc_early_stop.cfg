SPECIFICATION Spec
CONSTANTS
  c1 = c1
  c2 = c2
  c3 = c3
  Conns <- MCConns
  MaxSignals = 2
INVARIANT StopIsClean
CHECK_DEADLOCK FALSE
