-------------------------- MODULE MCSharedTransport --------------------------
(* Model-checking instances of SharedTransport. *)
EXTENDS SharedTransport, TLC

CONSTANTS r1, r2, r3, e1, e2

AllResolves == {r1, r2, r3}
AllExecs == {e1, e2}
TwoResolves == {r1, r2}
OneExec == {e1}

(* Calls of one kind differ in nothing but their name *)
CallSymmetry == Permutations(Resolves) \cup Permutations(Execs)

P(r, e, f) ==
  [calls |-> [k \in Kind |-> IF k = "resolve" THEN r ELSE e], faults |-> f]

(* Overlapping calls with every fault; one call of each kind at a time; and  *)
(* overlapping calls over connections that hold                              *)
AllPlans ==
  { P(2, 2, FaultKinds),
    P(3, 2, FaultKinds \ {"overlap"}),
    P(2, 2, {"fail", "overlap"}) }

FewCalls == {P(2, 1, FaultKinds)}

(* A connection that dies *)
DeadConnection == {P(2, 1, {"lose"})}
=============================================================================
