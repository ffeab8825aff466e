-------------------------- MODULE MCDirectConnection --------------------------
(* A model-checking instance of DirectConnection: one connection with every  *)
(* fault, and two resolves over forwards that exit, probes that come late,   *)
(* hosts that are lost, servers that exit and steps that fail.               *)
EXTENDS DirectConnection

P(resolves, exits, faults) ==
  [resolves |-> resolves, exits |-> exits, faults |-> faults]

AllPlans ==
  { P(1, 2, FaultKinds \ {"slow"}), P(2, 1, {"exit", "slow"}),
    P(2, 0, {"lose", "slow"}), P(2, 0, {"server", "mute", "slow"}),
    P(2, 0, {"server", "fail"}) }
=============================================================================
