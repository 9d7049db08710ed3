SPECIFICATION Spec
CONSTANTS
  Files = {"code", "env", "log"}
  Denied = {"env"}
  Ignored = {"log"}
  Branches = {"main"}
  MaxState = 2
  Handlers = {h1, h2}
  MaxMoves = 2
  MaxFaults = 2
SYMMETRY HandlersAreAlike
INVARIANTS CurrentIsReviewed UndisturbedIsExact
CHECK_DEADLOCK FALSE
