SPECIFICATION Spec
CONSTANTS
  N = 1
  Workers = {w1}
  MaxOutages = 0
  MaxFaults = 0
  MaxSweeps = 0
INVARIANT EveryChangeIsReported
CHECK_DEADLOCK FALSE
