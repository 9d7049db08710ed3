SPECIFICATION Spec
CONSTANTS
  w1 = w1
  w2 = w2
  c1 = c1
  c2 = c2
  c3 = c3
  NoChange = NoChange
  NoTriage = NoTriage
  Answers <- OneTriage
  Workers <- OneWorker
  Changes <- ThreeChanges
  Budget = 1
  MaxCost = 1
  MaxDay = 1
  MaxFaults = 0
  MaxOutages = 0
CHECK_DEADLOCK FALSE
PROPERTY TriageOnlyOverBudget
