SPECIFICATION FairSpec
CONSTANTS
  Plans <- AllPlans
INVARIANT SuccessIsWhole
PROPERTIES Settles ImplementsByteChannel
CHECK_DEADLOCK FALSE
