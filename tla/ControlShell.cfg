SPECIFICATION FairSpec
CONSTANTS
  MaxReq = 3
  MaxLines = 2
  MayTimeOut <- AllRequests
  MayHang <- AllRequests
INVARIANTS OneUnlessAbandoned ForeignOnlyFromTimedOut OwnOutputComplete
PROPERTIES OutcomeIsFinal EverySettles ImplementsSerialExec
CHECK_DEADLOCK FALSE
