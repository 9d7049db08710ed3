SPECIFICATION ParseSpec
CONSTANTS
  Paths = {"a", "b", "c", "d", "env", "q"}
  Trees <- SmallTrees
  Denied = {"env"}
  Quoted = {"q"}
  MaxUntrackedLines = 3
INVARIANTS EveryDiffIsExact
