SPECIFICATION Spec
CONSTANTS
  w1 = w1
  w2 = w2
  Clients <- BothWindows
  MaxServers = 2
  MaxRefcount = 3
  ShutdownTicks = 3
  HandshakeTicks = 3
  ReadyTicks = 2
INVARIANTS SessionsCanBeFound
CHECK_DEADLOCK FALSE
