SPECIFICATION Spec
CONSTANTS
  r1 = r1
  r2 = r2
  r3 = r3
  e1 = e1
  e2 = e2
  NoCall = NoCall
  Resolves <- TwoResolves
  Execs <- OneExec
  Plans <- DeadConnection
INVARIANTS OneTransport
CHECK_DEADLOCK FALSE
