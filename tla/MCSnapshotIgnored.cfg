SPECIFICATION Spec
CONSTANTS
  Files = {"code", "log"}
  Denied = {}
  Ignored = {"log"}
  Branches = {"main"}
  MaxState = 2
  Handlers = {h1}
  MaxMoves = 2
  MaxFaults = 0
INVARIANT FullWorkingTree
CHECK_DEADLOCK FALSE
