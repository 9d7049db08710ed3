SPECIFICATION FairSpec
CONSTANTS
  Branches <- TwoBranches
  Workers = {w1, w2}
  MaxSnaps = 2
  MaxOutages = 1
  MaxMoves = 1
  PushMayHang = TRUE
INVARIANTS LocalIsPublished SerialRefIsCurrent GcSparesLive
PROPERTY SettledUnlessHung
