----------------------------- MODULE SerialExec -----------------------------
(***************************************************************************)
(* What the exec routes of the local server promise their callers           *)
(* (src/src/ssh/localServer.ts:484-535): a single server that settles the   *)
(* requests one at a time in the order they came.  Each gets the output of  *)
(* its own command or a rejection, and those still waiting when the server  *)
(* goes are told so.  Foreign text in an answer is possible from the first  *)
(* rejection on: the server does not stop the command it gave up.           *)
(***************************************************************************)
EXTENDS Integers

CONSTANT MaxReq

VARIABLES arrived, answered, answer

svars == <<arrived, answered, answer>>

Init ==
  /\ arrived = 0
  /\ answered = 0
  /\ answer = [r \in 1..MaxReq |-> "none"]

Request ==
  /\ arrived < MaxReq
  /\ arrived' = arrived + 1
  /\ UNCHANGED <<answered, answer>>

Settle(what) ==
  /\ answered < arrived
  /\ answered' = answered + 1
  /\ answer' = [answer EXCEPT ![answered + 1] = what]
  /\ UNCHANGED arrived

(* The oldest waiting request gets its output, possibly with foreign text *)
Respond ==
  \/ Settle("own")
  \/ (\E r \in 1..answered : answer[r] = "rejected") /\ Settle("mixed")

(* The oldest waiting request runs out of time *)
Reject == Settle("rejected")

(* The server goes: whoever still waits is told so *)
Fail ==
  /\ answer' = [r \in 1..MaxReq |->
                  IF r \in (answered + 1)..arrived THEN "lost" ELSE answer[r]]
  /\ UNCHANGED <<arrived, answered>>

Next == Request \/ Respond \/ Reject \/ Fail

Spec == Init /\ [][Next]_svars
=============================================================================
