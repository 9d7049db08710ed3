SPECIFICATION Spec
CONSTANTS
  Files = {"code", "env"}
  Denied = {"env"}
  Ignored = {}
  Branches = {"main"}
  MaxState = 2
  Handlers = {h1, h2}
  MaxMoves = 3
  MaxFaults = 1
SYMMETRY HandlersAreAlike
INVARIANTS CurrentIsReviewed UndisturbedIsExact
CHECK_DEADLOCK FALSE
