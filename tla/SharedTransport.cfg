SPECIFICATION Spec
CONSTANTS
  r1 = r1
  r2 = r2
  r3 = r3
  e1 = e1
  e2 = e2
  NoCall = NoCall
  Resolves <- AllResolves
  Execs <- AllExecs
  Plans <- AllPlans
SYMMETRY CallSymmetry
INVARIANTS OneCreation RegisteredIsOpen LiveFlowOpen OneHealthyTransport NoneOrphaned DisposeClosesAll RefsAreFlows
CHECK_DEADLOCK FALSE
