----------------------------- MODULE MCHostSetup -----------------------------
(* A model-checking instance of HostSetup: two windows that set up at once,  *)
(* with downloads that fail; windows that die, close, or see a late answer;  *)
(* transports that die under a setup or a connection.                        *)
EXTENDS HostSetup

CONSTANTS w1, w2

P(n, late, what) == [setups |-> n, slips |-> late, faults |-> what]

AllPlans ==
  { P(3, 0, {"overlap", "fail", "corrupt"}),
    P(3, 0, {"crash"}), P(2, 0, {"overlap", "crash"}),
    P(2, 0, {"overlap", "die"}), P(2, 0, {"overlap", "unverified", "corrupt"}),
    P(3, 0, {"close"}),
    P(2, 1, {"overlap", "close"}) }
=============================================================================
