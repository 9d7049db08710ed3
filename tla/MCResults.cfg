SPECIFICATION Spec
CONSTANTS
  N = 2
  Workers = {w1, w2}
  MaxOutages = 1
  MaxFaults = 1
  MaxSweeps = 1
SYMMETRY WorkersAreAlike
INVARIANTS ReportIsOfLastAnalysis StatusAgreesWithReport
  SerialStatusIsCurrent DoneIsReported
CHECK_DEADLOCK FALSE
