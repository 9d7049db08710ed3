SPECIFICATION Spec
CONSTANTS
  Changes = {c1, c2}
  Hashes = {h1}
  Workers = {w1, w2}
  NoChange = NoChange
  NoHash = NoHash
  HubEnabled = TRUE
  Window = 1
  PauseTimes = {1}
  PerSecond = 1
  MaxNow = 1
  MaxOutages = 2
  MaxFaults = 1
SYMMETRY Symmetry
INVARIANTS TypeOK OneOwner NoRowAbandoned SkippedIsCovered ReportOfFinished
  RecordsFollowQueue
PROPERTY SettledForGood
