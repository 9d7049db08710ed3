SPECIFICATION FairSpec
CONSTANTS
  r1 = r1
  r2 = r2
  Keys <- TwoRepos
  Wait = 2
  MaxWait = 3
  MaxLoad = 2
INVARIANTS TypeOK NoLostTrigger
PROPERTIES NoCallAfterStop Served
