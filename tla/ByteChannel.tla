----------------------------- MODULE ByteChannel -----------------------------
(***************************************************************************)
(* What the consumer of a connection is promised about the bytes the far    *)
(* end sends: on each stream they come in order and none twice, whatever    *)
(* the network does with the chunks (the comments in socks5.ts on           *)
(* "coalesced" replies, and that of readResponse() on trailing bytes).      *)
(* TunnelStream implements it.                                              *)
(***************************************************************************)
EXTENDS Integers, Sequences

CONSTANT Streams

VARIABLES
  made,      \* how many bytes the far end has sent, by stream
  got,       \* the numbers of the bytes received, by stream
  promise    \* "whole": from the first byte on; "tail": an initial part may
             \* be missing; "any": nothing is said of their order

vars == <<made, got, promise>>

Init ==
  /\ made = [s \in Streams |-> 0]
  /\ got = [s \in Streams |-> <<>>]
  /\ promise \in {"whole", "tail", "any"}

Send(s) ==
  /\ made'[s] > made[s]
  /\ made' = [made EXCEPT ![s] = made'[s]]
  /\ UNCHANGED <<got, promise>>

Consecutive(bytes, first) == \A i \in DOMAIN bytes : bytes[i] = first + i - 1

(* Some more bytes come, and they are the next ones *)
Receive(s) ==
  /\ Len(got'[s]) > Len(got[s])
  /\ got' = [got EXCEPT ![s] = got'[s]]
  /\ SubSeq(got'[s], 1, Len(got[s])) = got[s]
  /\ \A i \in DOMAIN got'[s] : got'[s][i] \in 1 .. made[s]
  /\ CASE promise = "whole" -> Consecutive(got'[s], 1)
       [] promise = "tail" -> Consecutive(got'[s], got'[s][1])
       [] promise = "any" -> TRUE
  /\ UNCHANGED <<made, promise>>

Next == \E s \in Streams : Send(s) \/ Receive(s)

Spec == Init /\ [][Next]_vars
=============================================================================
