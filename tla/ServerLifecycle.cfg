SPECIFICATION FairSpec
CONSTANTS
  w1 = w1
  w2 = w2
  w3 = w3
  Windows <- TwoWindows
  MaxResolves = 5
  Plans <- AllPlans
INVARIANTS LockExcludes LockIsReleased TokenAccepted MetadataAgrees UsedServerOnRecord
PROPERTIES SweepSparesUsed ResolveEnds
CHECK_DEADLOCK FALSE
