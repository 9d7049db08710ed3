SPECIFICATION FairSpec
CONSTANTS
  Changes = {c1, c2}
  Hashes = {h1}
  Workers = {w1, w2}
  NoChange = NoChange
  NoHash = NoHash
  HubEnabled = TRUE
  Window = 1
  PauseTimes = {}
  PerSecond = 2
  MaxNow = 2
  MaxOutages = 1
  MaxFaults = 0
PROPERTIES EveryChangeSettles ShutdownEnds OldestFirst
