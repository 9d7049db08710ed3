SPECIFICATION FairWatcherSpec
CONSTANTS
  Names = {"w", "r", "in", "a", "b", "out", "file"}
  File = "file"
  Dirs <- NestedDirs
  IgnoredDirs = {"out", "build"}
  Gits <- NestedGits
  WatchRoots <- NestedRoots
  Listed <- NestedListed
  MaxChanges = 3
  MaxQueue = 2
  MaxFailures = 1
INVARIANTS NoLostSave WatchesComplete
PROPERTIES SavesAreSeen
CHECK_DEADLOCK FALSE
