SPECIFICATION Spec
CONSTANTS
  N = 1
  Workers = {w1}
  MaxOutages = 1
  MaxFaults = 0
  MaxSweeps = 0
INVARIANT ReportIsOfOneAnalysis
CHECK_DEADLOCK FALSE
