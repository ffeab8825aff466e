--------------------------- MODULE MCControlShell ---------------------------
(* The model-checking instance of ControlShell: any request may carry a      *)
(* timeout and any command may hang.                                        *)
EXTENDS ControlShell

AllRequests == 1..MaxReq
=============================================================================
