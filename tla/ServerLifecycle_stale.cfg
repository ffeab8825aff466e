SPECIFICATION Spec
CONSTANTS
  w1 = w1
  w2 = w2
  w3 = w3
  Windows <- TwoWindows
  MaxResolves = 2
  Plans <- OldLocks
INVARIANTS LockIsExclusive
CHECK_DEADLOCK FALSE
