SPECIFICATION Spec
CONSTANTS
  w1 = w1
  w2 = w2
  c1 = c1
  c2 = c2
  c3 = c3
  NoChange = NoChange
  NoTriage = NoTriage
  Answers <- SomeTriages
  Workers <- TwoWorkers
  Changes <- ThreeChanges
  Budget = 1
  MaxCost = 1
  MaxDay = 2
  MaxFaults = 1
  MaxOutages = 1
SYMMETRY Symmetry
CHECK_DEADLOCK FALSE
INVARIANTS TypeOK ReviewSpendBounded SpendMatchesResults
PROPERTY RoutedAsContracted
