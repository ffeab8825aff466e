--------------------------- MODULE MCTunnelStream ---------------------------
(* Model-checking instance of TunnelStream. *)
EXTENDS TunnelStream

P(op, out, err, faults) ==
  [op |-> op, size |-> [s \in Streams |-> IF s = "out" THEN out ELSE err],
   faults |-> faults]

(* Every operation, on bodies that are empty or of a few bytes, with no      *)
(* fault, each fault alone, and all of those that leave the order alone      *)
AllPlans ==
  { P(op, out, IF op = "spawn" THEN 2 ELSE 0, f) :
      op \in Ops, out \in {0, 4},
      f \in {FaultKinds \ {"burst"}, {}} \cup {{x} : x \in FaultKinds} }
=============================================================================
