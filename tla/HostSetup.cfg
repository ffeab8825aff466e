SPECIFICATION FairSpec
CONSTANTS
  w1 = w1
  w2 = w2
  Windows = {w1, w2}
  Setups = 3
  Slips = 1
  Plans <- AllPlans
INVARIANTS UpMeansWhole
PROPERTIES UsedStaysUp OrphanEnds Settles
CHECK_DEADLOCK FALSE
