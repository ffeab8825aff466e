SPECIFICATION FairSpec
CONSTANTS
  Resolves = 2
  Restarts = 2
  Plans <- AllPlans
INVARIANTS OneForward StrayOnlyKnown
PROPERTIES DeadForCause LossNoticed ResolveSettles
CHECK_DEADLOCK FALSE
