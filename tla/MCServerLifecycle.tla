-------------------------- MODULE MCServerLifecycle --------------------------
(* Model-checking instances of ServerLifecycle. *)
EXTENDS ServerLifecycle

CONSTANTS w1, w2, w3

TwoWindows == {w1, w2}
ThreeWindows == {w1, w2, w3}

P(n, f) == [resolves |-> n, faults |-> f]

(* Resolves one after the other, over servers that exit or hang later on;    *)
(* overlapping resolves, of windows that may crash or meet errors; abandoned *)
(* locks that grow old; late, slow and hanging starts; and owners closed     *)
AllPlans ==
  { P(5, {"exit"}),
    P(3, {"overlap"}),
    P(2, {"overlap", "crash", "throw"}),
    P(2, {"overlap", "crash", "age", "late", "slow"}),
    P(2, {"overlap", "exit", "hang", "slow"}),
    P(2, {"overlap", "close"}) }

(* Abandoned locks that grow old *)
OldLocks == {P(2, {"overlap", "crash", "age"})}
=============================================================================
