SPECIFICATION WatcherSpec
CONSTANTS
  Names = {"build", "r", "a", "file"}
  File = "file"
  Dirs <- BuildDirs
  IgnoredDirs = {"out", "build"}
  Gits = {}
  WatchRoots = {}
  Listed <- BuildListed
  MaxChanges = 1
  MaxQueue = 2
  MaxFailures = 0
INVARIANT FiresOnEverySave
CHECK_DEADLOCK FALSE
