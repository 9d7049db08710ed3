SPECIFICATION Spec
CONSTANTS
  Changes = {c1}
  Hashes = {h1}
  Workers = {w1}
  NoChange = NoChange
  NoHash = NoHash
  HubEnabled = TRUE
  Window = 1
  PauseTimes = {1}
  PerSecond = 1
  MaxNow = 0
  MaxOutages = 1
  MaxFaults = 0
INVARIANT FinishedIsReported
