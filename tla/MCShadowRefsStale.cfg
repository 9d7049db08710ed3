SPECIFICATION Spec
CONSTANTS
  Branches <- OneBranch
  Workers = {w1, w2}
  MaxSnaps = 2
  MaxOutages = 0
  MaxMoves = 0
  PushMayHang = FALSE
INVARIANT RemoteIsCurrent
