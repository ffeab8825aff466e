---------------------------- MODULE MCAskpassCache ----------------------------
(* A model-checking instance of AskpassCache: two windows over one file that *)
(* start, rotate keys and close; one window with retries and writes that     *)
(* fail; and windows that die amid their writes.                             *)
EXTENDS AskpassCache

CONSTANTS w1, w2

P(a1, a2, asked, periods, started, faults) ==
  [attempts |-> (w1 :> a1 @@ w2 :> a2), asks |-> asked, periods |-> periods,
   starts |-> started, faults |-> faults]

AllPlans ==
  { P(1, 1, 1, 1, 3, {}), P(2, 0, 2, 1, 2, {"full"}),
    P(1, 0, 1, 0, 2, {"full"}),
    P(2, 1, 1, 0, 3, {}), P(1, 1, 1, 0, 3, {"crash"}),
    P(1, 0, 1, 1, 3, {"crash"}) }
=============================================================================
