SPECIFICATION FairSpec
CONSTANTS
  w1 = w1
  w2 = w2
  Windows = {w1, w2}
  Attempts = 2
  Asks = 2
  Periods = 1
  Starts = 3
  Plans <- AllPlans
INVARIANTS EvictedGone RestartChangesNothing
PROPERTIES Settles
CHECK_DEADLOCK FALSE
