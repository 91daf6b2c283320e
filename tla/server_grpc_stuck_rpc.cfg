SPECIFICATION FairSpec
CONSTANTS
  c1 = c1
  c2 = c2
  c3 = c3
  Conns <- MCConns
  MaxSignals = 2
PROPERTY GracefulStopHonoursDeadline
CHECK_DEADLOCK FALSE
