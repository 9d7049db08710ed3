SPECIFICATION Spec
CONSTANTS
  Files = {"code"}
  Denied = {}
  Ignored = {}
  Branches = {"main"}
  MaxState = 2
  Handlers = {h1}
  MaxMoves = 2
  MaxFaults = 0
INVARIANT RefFollowsTree
CHECK_DEADLOCK FALSE
