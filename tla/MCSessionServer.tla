--------------------------- MODULE MCSessionServer ---------------------------
(* Model-checking instances of SessionServer: two windows. *)
EXTENDS SessionServer

CONSTANTS w1, w2

BothWindows == {w1, w2}
=============================================================================
