------------------------ MODULE TunnelStream_proofs ------------------------
(***************************************************************************)
(* Theorems about TunnelStream, for any set of plans: any operation, bodies  *)
(* of any length, any faults, and any way to cut the units into data events. *)
(*                                                                          *)
(* What is under way to the parser, handed to the listener, waiting for      *)
(* setImmediate or still in the socket, is one sequence (Pipe).  A data      *)
(* event moves units within it, a cut shortens it, and its parts are told    *)
(* apart by what the client waits for: a message of two units while it waits *)
(* for one (Ahead), and the body behind it.  The bytes of a body carry on    *)
(* from those received (Bytes), and so do, stream by stream, the frames of a *)
(* process, the last of which is the exit (Frames).                          *)
(***************************************************************************)
EXTENDS TunnelStream, SequenceTheorems, TLAPS

Pipe == inbox \o leftover \o down

(* The client waits for a message, and so the body starts behind it *)
Headed == at \in Handshake \cup {"status", "upload", "drain"}
Ahead == IF Headed THEN 2 ELSE 0

(* Who waits for whom, and what an operation gets to *)
InTurn ==
  /\ server = "done" <=> line # "up"
  /\ proxy = "dialled" => at \in {"greeting", "over"} /\ (at = "greeting" => Pipe = <<>>)
  /\ proxy = "asked" => at \in {"reply", "over"} /\ (at = "reply" => Pipe = <<>>)
  /\ at \in {"dial", "greeting"} \/ proxy \in {"dialled", "asked"} => server \in {"idle", "done"}
  /\ at = "dial" => line = "up" /\ Pipe = <<>>
  /\ at = "greeting" \/ (at = "reply" /\ plan.op # "tcp") =>
       Len(Pipe) <= 2 /\ server # "sending"
  /\ at = "status" => plan.op # "tcp"
  /\ at \in {"upload", "drain"} => plan.op = "put" /\ Len(Pipe) <= 2 /\ inbox = <<>>
  /\ at = "file" => plan.op = "get"
  /\ at = "frames" => plan.op = "spawn"
  /\ at = "stream" => plan.op \in {"read", "unix", "tcp"}
  /\ leftover # <<>> => plan.op = "tcp" /\ at \in {"stream", "over"}
  /\ leftover # <<>> /\ at = "stream" /\ ~MayHappen("burst") => inbox = <<>>
  /\ server = "reading" => plan.op # "tcp" /\ at \notin {"file", "stream", "frames"}
  /\ server = "storing" => plan.op = "put" /\ at # "reply"
  /\ server \in {"reading", "storing"} /\ at \notin {"reply", "over"} => Pipe = <<>>
  /\ server = "sending" => plan.op \in EofDelimited \cup {"spawn"}

(* What the far end has sent and the client has written *)
Counts ==
  /\ \A s \in Streams : made[s] <= plan.size[s]
  /\ server \notin {"sending", "done"} => \A s \in Streams : made[s] = 0
  /\ \A s \in Streams : \A i \in DOMAIN got[s] : got[s][i] \in 1 .. made[s]
  /\ plan.op = "put" /\ at = "status" => sent = plan.size["out"]

(* What a status that grants says of the operation *)
Done ==
  CASE plan.op \in {"request", "probe"} -> server = "done" /\ made["out"] = plan.size["out"]
    [] plan.op = "put" -> server = "done" /\ (stored = plan.size["out"] \/ MayHappen("close"))
    [] plan.op = "get" -> \/ server = "sending" \/ made["out"] = plan.size["out"]
                          \/ MayHappen("cut") \/ MayHappen("ioerror")
    [] OTHER -> TRUE

Status ==
  /\ at \in {"status", "upload", "drain"} =>
       \A i \in DOMAIN Pipe : i <= 2 /\ Pipe[i].value # 0 => Done
  /\ at = "file" => Done
  /\ outcome = "ok" =>
       at = "over" /\ (plan.op \in {"request", "probe", "put"} => Done)

(* The byte n came last before those under way *)
After(n) ==
  /\ \A i \in DOMAIN Pipe : i > Ahead => Pipe[i].value = n + i - Ahead
  /\ \A i \in DOMAIN got["out"] : got["out"][i] = n - Len(got["out"]) + i
  /\ Headed => n = 0 /\ got["out"] = <<>>
  /\ plan.op \notin Dropping => n = Len(got["out"])
  /\ Len(Pipe) >= Ahead => n + Len(Pipe) - Ahead <= made["out"]
  /\ server = "sending" \/ (~MayHappen("cut") /\ Len(Pipe) >= Ahead) =>
       n + Len(Pipe) - Ahead = made["out"]

(* A second data event in one turn may come before what setImmediate holds *)
Overtaking == plan.op = "tcp" /\ at = "stream" /\ MayHappen("burst")

Bytes ==
  plan.op \in EofDelimited /\ at \notin {"dial", "over"} /\ ~Overtaking =>
    \E n \in Nat : After(n)

(* What it comes before is bytes all the same *)
Loose ==
  plan.op = "tcp" /\ at = "stream" =>
    \A q \in {inbox, leftover, down} : \A i \in DOMAIN q : q[i].value \in 1 .. made["out"]

(* Behind what the client waits for, the j-th message under way is one of    *)
(* stream s with its n-th byte                                               *)
Behind(j) == 2 * j > Ahead /\ 2 * j \in DOMAIN Pipe
Frame(j, s, n) == Behind(j) /\ Pipe[2 * j].kind = s /\ Pipe[2 * j].value = n

(* What is left of the first n bytes of stream s comes before the j-th *)
Before(j, s, n) ==
  \A v \in Len(got[s]) + 1 .. n : \E k \in Nat : k < j /\ Frame(k, s, v)

(* All that was sent of a process's output is under way, in whole messages *)
Sending ==
  /\ \E m \in Nat : Len(Pipe) = 2 * m /\ 2 * m >= Ahead
  /\ \A s \in Streams : \A v \in Len(got[s]) + 1 .. made[s] : \E j \in Nat : Frame(j, s, v)

Frames ==
  plan.op = "spawn" /\ at \notin {"dial", "over"} =>
    /\ \A s \in Streams : \A i \in DOMAIN got[s] : got[s][i] = i
    /\ Headed => \A s \in Streams : got[s] = <<>>
    /\ server = "sending" => Sending
    /\ \A j \in Nat : Behind(j) => Pipe[2 * j].kind \in Streams \cup {"exit"}
    /\ \A s \in Streams, j \in Nat, v \in Nat : Frame(j, s, v) =>
         Len(got[s]) < v /\ v <= made[s] /\ Before(j, s, v - 1)
    /\ \A s \in Streams, j \in Nat, k \in Nat, v \in Nat, w \in Nat :
         Frame(j, s, v) /\ Frame(k, s, w) /\ j < k => v < w
    /\ \A j \in Nat : Behind(j) /\ Pipe[2 * j].kind = "exit" =>
         \A s \in Streams : Before(j, s, plan.size[s])

IInv == TypeOK /\ InTurn /\ Counts /\ Status /\ Bytes /\ Loose /\ Frames /\ SuccessIsWhole

-----------------------------------------------------------------------------
(* Sequences of units *)

LEMMA Longer ==
  ASSUME NEW a \in Seq(Nat), NEW b \in Seq(Nat), Len(b) # 0
  PROVE  Len(a \o b) > Len(a)
  OBVIOUS

LEMMA ConcatFacts ==
  ASSUME NEW S, NEW a \in Seq(S), NEW b \in Seq(S)
  PROVE  /\ a \o b \in Seq(S) /\ Len(a \o b) = Len(a) + Len(b)
         /\ \A i \in 1 .. Len(a) : (a \o b)[i] = a[i]
         /\ \A i \in 1 .. Len(b) : (a \o b)[Len(a) + i] = b[i]
  OBVIOUS

LEMMA NatConcatFacts ==
  ASSUME NEW a \in Seq(Nat), NEW b \in Seq(Nat)
  PROVE  /\ Len(a \o b) = Len(a) + Len(b) /\ Len(a) \in Nat /\ Len(b) \in Nat
         /\ DOMAIN a = 1 .. Len(a) /\ DOMAIN (a \o b) = 1 .. Len(a \o b)
         /\ \A i \in 1 .. Len(a) : (a \o b)[i] = a[i]
         /\ \A i \in 1 .. Len(b) : (a \o b)[Len(a) + i] = b[i]
  OBVIOUS

LEMMA SubSeqFacts ==
  ASSUME NEW S, NEW q \in Seq(S), NEW m \in 1 .. Len(q) + 1, NEW n \in 0 .. Len(q)
  PROVE  /\ SubSeq(q, m, n) \in Seq(S)
         /\ Len(SubSeq(q, m, n)) = IF m <= n THEN n - m + 1 ELSE 0
         /\ \A i \in 1 .. Len(SubSeq(q, m, n)) : SubSeq(q, m, n)[i] = q[m + i - 1]
  BY SubSeqProperties

LEMMA MessageFacts ==
  ASSUME NEW kind \in Kinds, NEW value \in Nat
  PROVE  /\ Message(kind, value) \in Seq(Unit) /\ Len(Message(kind, value)) = 2
         /\ Message(kind, value)[1].value = value /\ Message(kind, value)[2].value = value
         /\ Message(kind, value)[2].kind = kind
  BY DEF Message, Unit

LEMMA ByteFacts ==
  ASSUME NEW n \in Nat
  PROVE  /\ Byte(n) \in Seq(Unit) /\ Len(Byte(n)) = 1 /\ Byte(n)[1].value = n
  BY DEF Byte, Unit, Kinds, Streams

LEMMA PlanFacts ==
  ASSUME TypeOK
  PROVE  plan.op \in Ops /\ plan.size["out"] \in Nat /\ plan.size["err"] \in Nat
           /\ \A s \in Streams : plan.size[s] \in Nat
<1>1. plan \in Plan
  BY PlansAssumption DEF TypeOK
<1>2. plan.op \in Ops /\ plan.size \in [Streams -> Nat]
  BY <1>1 DEF Plan
<1>. QED BY <1>2 DEF Streams

(* Where the units of three sequences are in the whole *)
Lengths(p, a, b, c) ==
  /\ Len(p) \in Nat /\ Len(a) \in Nat /\ Len(b) \in Nat /\ Len(c) \in Nat
  /\ Len(p) = Len(a) + Len(b) + Len(c)
Under(p, a, b, c) ==
  /\ p \in Seq(Unit) /\ DOMAIN p = 1 .. Len(p)
  /\ Lengths(p, a, b, c)
  /\ \A i \in 1 .. Len(a) : p[i] = a[i]
  /\ \A i \in 1 .. Len(b) : p[Len(a) + i] = b[i]
  /\ \A i \in 1 .. Len(c) : p[Len(a) + Len(b) + i] = c[i]

LEMMA UnderFacts ==
  ASSUME NEW a \in Seq(Unit), NEW b \in Seq(Unit), NEW c \in Seq(Unit)
  PROVE  Under(a \o b \o c, a, b, c)
<1>. DEFINE d == a \o b
<1>1. /\ d \in Seq(Unit) /\ Len(d) = Len(a) + Len(b)
      /\ \A i \in 1 .. Len(a) : d[i] = a[i]
      /\ \A i \in 1 .. Len(b) : d[Len(a) + i] = b[i]
  BY ConcatFacts
<1>. HIDE DEF d
<1>2. /\ d \o c \in Seq(Unit) /\ Len(d \o c) = Len(d) + Len(c)
      /\ \A i \in 1 .. Len(d) : (d \o c)[i] = d[i]
      /\ \A i \in 1 .. Len(c) : (d \o c)[Len(d) + i] = c[i]
  <2>1. d \in Seq(Unit) /\ c \in Seq(Unit)
    BY <1>1
  <2>. QED BY <2>1, ConcatFacts
<1>3. PICK p : p = d \o c
  OBVIOUS
<1>4. /\ Len(a) \in Nat /\ Len(b) \in Nat /\ Len(c) \in Nat /\ Len(p) \in Nat
      /\ DOMAIN p = 1 .. Len(p)
  BY <1>2, <1>3
<1>5. Under(p, a, b, c)
  BY <1>1, <1>2, <1>3, <1>4 DEF Under, Lengths
<1>. QED BY <1>3, <1>5 DEF d

LEMMA NoneUnder ==
  ASSUME NEW p, NEW a, NEW b, NEW c, Lengths(p, a, b, c), Len(p) = 0
  PROVE  Len(c) = 0
BY DEF Lengths

LEMMA PipeFacts == TypeOK => Under(Pipe, inbox, leftover, down)
  BY UnderFacts DEF TypeOK, Pipe

LEMMA PipeNext == TypeOK' => Under(Pipe', inbox', leftover', down')
  BY UnderFacts DEF TypeOK, Pipe

(* What a step does to the units under way: the first k leave, some come, or *)
(* the last are lost *)
Shift(k) ==
  /\ k \in Nat /\ Len(Pipe') = Len(Pipe) - k
  /\ \A i \in 1 .. Len(Pipe') : Pipe'[i] = Pipe[i + k]
Adds(q) ==
  /\ Len(Pipe') = Len(Pipe) + Len(q)
  /\ \A i \in 1 .. Len(Pipe) : Pipe'[i] = Pipe[i]
  /\ \A i \in 1 .. Len(q) : Pipe'[Len(Pipe) + i] = q[i]
Shortens ==
  /\ Len(Pipe') <= Len(Pipe)
  /\ \A i \in 1 .. Len(Pipe') : Pipe'[i] = Pipe[i]

LEMMA AddsFacts ==
  ASSUME TypeOK, TypeOK', NEW q \in Seq(Unit), down' = down \o q, UNCHANGED <<inbox, leftover>>
  PROVE  Adds(q)
<1>1. Under(Pipe, inbox, leftover, down) /\ Under(Pipe', inbox, leftover, down')
  BY PipeFacts, PipeNext
<1>2. /\ Len(down') = Len(down) + Len(q)
      /\ \A i \in 1 .. Len(down) : down'[i] = down[i]
      /\ \A i \in 1 .. Len(q) : down'[Len(down) + i] = q[i]
  BY ConcatFacts DEF TypeOK
<1>3. Len(q) \in Nat
  OBVIOUS
<1>. DEFINE li == Len(inbox)
            ll == Len(leftover)
<1>4. Len(Pipe') = Len(Pipe) + Len(q)
  BY <1>1, <1>2, <1>3 DEF Under, Lengths
<1>5. ASSUME NEW i \in 1 .. Len(Pipe) PROVE Pipe'[i] = Pipe[i]
  <2>1. CASE i <= li
    BY <1>1, <2>1 DEF Under, Lengths
  <2>2. CASE i > li /\ i <= li + ll
    <3>1. PICK j \in 1 .. ll : i = li + j
      <4>1. i - li \in 1 .. ll /\ i = li + (i - li)
        BY <1>1, <2>2 DEF Under, Lengths
      <4>. QED BY <4>1
    <3>2. Pipe'[i] = leftover[j] /\ Pipe[i] = leftover[j]
      BY <1>1, <3>1 DEF Under
    <3>. QED BY <3>2
  <2>3. CASE i > li + ll
    <3>1. PICK j \in 1 .. Len(down) : i = li + ll + j /\ j \in 1 .. Len(down')
      <4>1. i - (li + ll) \in 1 .. Len(down) /\ i = li + ll + (i - (li + ll)) /\ i - (li + ll) \in 1 .. Len(down')
        BY <1>1, <1>2, <1>3, <2>3 DEF Under, Lengths
      <4>. QED BY <4>1
    <3>2. Pipe'[i] = down'[j] /\ Pipe[i] = down[j]
      BY <1>1, <3>1 DEF Under, Lengths
    <3>. QED BY <1>2, <3>2
  <2>. QED BY <1>1, <2>1, <2>2, <2>3 DEF Under, Lengths
<1>6. ASSUME NEW i \in 1 .. Len(q) PROVE Pipe'[Len(Pipe) + i] = q[i]
  <2>1. Len(down) + i \in 1 .. Len(down') /\ Len(Pipe) + i = li + ll + (Len(down) + i)
    BY <1>1, <1>2, <1>3 DEF Under, Lengths
  <2>. QED BY <1>1, <1>2, <2>1 DEF Under, Lengths
<1>. QED BY <1>4, <1>5, <1>6 DEF Adds

(* The last units in the socket are lost *)
LEMMA ShortensFacts ==
  ASSUME TypeOK, TypeOK', NEW n \in 0 .. Len(down), down' = SubSeq(down, 1, n),
         UNCHANGED <<inbox, leftover>>
  PROVE  Shortens
<1>1. Under(Pipe, inbox, leftover, down) /\ Under(Pipe', inbox, leftover, down')
  BY PipeFacts, PipeNext
<1>2. Len(down') = n /\ \A i \in 1 .. n : down'[i] = down[i]
  <2>1. down \in Seq(Unit) /\ n \in Nat
    BY DEF TypeOK
  <2>2. 1 \in 1 .. Len(down) + 1
    BY <1>1 DEF Under, Lengths
  <2>. QED BY <1>1, <2>1, <2>2, SubSeqFacts
<1>. DEFINE li == Len(inbox)
            ll == Len(leftover)
<1>4. Len(Pipe') <= Len(Pipe)
  BY <1>1, <1>2 DEF Under, Lengths
<1>5. ASSUME NEW i \in 1 .. Len(Pipe') PROVE Pipe'[i] = Pipe[i]
  <2>1. CASE i <= li
    BY <1>1, <2>1 DEF Under, Lengths
  <2>2. CASE i > li /\ i <= li + ll
    <3>1. PICK j \in 1 .. ll : i = li + j
      <4>1. i - li \in 1 .. ll /\ i = li + (i - li)
        BY <1>1, <2>2 DEF Under, Lengths
      <4>. QED BY <4>1
    <3>2. Pipe'[i] = leftover[j] /\ Pipe[i] = leftover[j]
      BY <1>1, <3>1 DEF Under
    <3>. QED BY <3>2
  <2>3. CASE i > li + ll
    <3>1. PICK j \in 1 .. n : i = li + ll + j /\ j \in 1 .. Len(down) /\ j \in 1 .. Len(down')
      <4>1. i - (li + ll) \in 1 .. Len(down) /\ i = li + ll + (i - (li + ll)) /\ i - (li + ll) \in 1 .. n
        BY <1>1, <1>2, <2>3 DEF Under, Lengths
      <4>. QED BY <1>2, <4>1
    <3>2. Pipe'[i] = down'[j] /\ Pipe[i] = down[j]
      BY <1>1, <3>1 DEF Under, Lengths
    <3>. QED BY <1>2, <3>2
  <2>. QED BY <1>1, <2>1, <2>2, <2>3 DEF Under, Lengths
<1>. QED BY <1>4, <1>5 DEF Shortens

(* The first k units that the listener has are taken *)
LEMMA TakenFacts ==
  ASSUME TypeOK, TypeOK', NEW k \in Nat, k <= Len(inbox),
         inbox' = SubSeq(inbox, k + 1, Len(inbox)), leftover = <<>>, UNCHANGED <<leftover, down>>
  PROVE  Shift(k)
<1>1. Under(Pipe, inbox, leftover, down) /\ Under(Pipe', inbox', leftover, down)
  BY PipeFacts, PipeNext
<1>2. Len(leftover) = 0
  OBVIOUS
<1>3. Len(inbox') = Len(inbox) - k /\ \A i \in 1 .. Len(inbox') : inbox'[i] = inbox[i + k]
  <2>1. inbox \in Seq(Unit) /\ Len(inbox) \in Nat
    BY DEF TypeOK
  <2>2. k + 1 \in 1 .. Len(inbox) + 1 /\ Len(inbox) \in 0 .. Len(inbox)
    BY <2>1
  <2>3. /\ Len(inbox') = IF k + 1 <= Len(inbox) THEN Len(inbox) - (k + 1) + 1 ELSE 0
        /\ \A i \in 1 .. Len(inbox') : inbox'[i] = inbox[k + 1 + i - 1]
    BY <2>1, <2>2, SubSeqFacts
  <2>4. \A i \in 1 .. Len(inbox') : k + 1 + i - 1 = i + k
    BY <2>1, <2>3
  <2>. QED BY <2>1, <2>3, <2>4
<1>0. Lengths(Pipe, inbox, leftover, down) /\ Lengths(Pipe', inbox', leftover, down)
  BY <1>1 DEF Under
<1>4. Len(Pipe') = Len(Pipe) - k
  BY <1>0, <1>2, <1>3 DEF Lengths
<1>5. ASSUME NEW i \in 1 .. Len(Pipe') PROVE Pipe'[i] = Pipe[i + k]
  <2>1. CASE i <= Len(inbox')
    <3>1. i + k \in 1 .. Len(inbox) /\ i \in 1 .. Len(inbox')
      BY <1>1, <1>3, <2>1 DEF Under, Lengths
    <3>2. Pipe'[i] = inbox'[i] /\ Pipe[i + k] = inbox[i + k]
      BY <1>1, <3>1 DEF Under, Lengths
    <3>. QED BY <1>3, <3>1, <3>2
  <2>2. CASE i > Len(inbox')
    <3>1. PICK j \in 1 .. Len(down) : i = Len(inbox') + Len(leftover) + j
      <4>1. i - Len(inbox') \in 1 .. Len(down) /\ i = Len(inbox') + Len(leftover) + (i - Len(inbox'))
        BY <1>1, <1>2, <2>2 DEF Under, Lengths
      <4>. QED BY <4>1
    <3>2. i + k = Len(inbox) + Len(leftover) + j
      BY <1>1, <1>2, <1>3, <3>1 DEF Under, Lengths
    <3>3. Pipe'[i] = down[j]
      BY <1>1, <3>1 DEF Under
    <3>4. Pipe[i + k] = down[j]
      BY <1>1, <3>2 DEF Under
    <3>. QED BY <3>3, <3>4
  <2>. QED BY <1>1, <2>1, <2>2 DEF Under, Lengths
<1>. QED BY <1>4, <1>5 DEF Shift

LEMMA SplitFacts ==
  ASSUME NEW q \in Seq(Unit), NEW n \in 0 .. Len(q)
  PROVE  /\ SubSeq(q, 1, n) \in Seq(Unit) /\ SubSeq(q, n + 1, Len(q)) \in Seq(Unit)
         /\ Len(SubSeq(q, 1, n)) = n /\ Len(SubSeq(q, n + 1, Len(q))) = Len(q) - n
         /\ \A i \in 1 .. n : SubSeq(q, 1, n)[i] = q[i]
         /\ \A i \in 1 .. Len(q) - n : SubSeq(q, n + 1, Len(q))[i] = q[n + i]
<1>1. Len(q) \in Nat /\ n \in Nat /\ 1 \in 1 .. Len(q) + 1 /\ n + 1 \in 1 .. Len(q) + 1 /\ Len(q) \in 0 .. Len(q)
  OBVIOUS
<1>2. /\ SubSeq(q, 1, n) \in Seq(Unit)
      /\ Len(SubSeq(q, 1, n)) = IF 1 <= n THEN n - 1 + 1 ELSE 0
      /\ \A i \in 1 .. Len(SubSeq(q, 1, n)) : SubSeq(q, 1, n)[i] = q[1 + i - 1]
  BY <1>1, SubSeqFacts
<1>3. /\ SubSeq(q, n + 1, Len(q)) \in Seq(Unit)
      /\ Len(SubSeq(q, n + 1, Len(q))) = IF n + 1 <= Len(q) THEN Len(q) - (n + 1) + 1 ELSE 0
      /\ \A i \in 1 .. Len(SubSeq(q, n + 1, Len(q))) : SubSeq(q, n + 1, Len(q))[i] = q[n + 1 + i - 1]
  BY <1>1, SubSeqFacts
<1>4. Len(SubSeq(q, 1, n)) = n /\ Len(SubSeq(q, n + 1, Len(q))) = Len(q) - n
  BY <1>1, <1>2, <1>3
<1>5. (\A i \in 1 .. n : 1 + i - 1 = i) /\ (\A i \in 1 .. Len(q) - n : n + 1 + i - 1 = n + i)
  BY <1>1
<1>. QED BY <1>2, <1>3, <1>4, <1>5

(* The first n units of b have passed to the end of a *)
Passed(n, a, b, c, d) ==
  /\ n \in Nat /\ Len(c) = Len(a) + n /\ Len(d) = Len(b) - n
  /\ \A i \in 1 .. Len(a) : c[i] = a[i]
  /\ \A i \in 1 .. n : c[Len(a) + i] = b[i]
  /\ \A i \in 1 .. Len(b) - n : d[i] = b[n + i]

LEMMA PassFacts ==
  ASSUME NEW p, NEW r, NEW a, NEW b, NEW c, NEW d, NEW e, NEW n,
         Under(p, a, e, b), Under(r, c, e, d), Len(e) = 0, Passed(n, a, b, c, d)
  PROVE  Len(r) = Len(p) /\ \A i \in 1 .. Len(r) : r[i] = p[i]
<1>0. /\ n \in Nat /\ Len(c) = Len(a) + n /\ Len(d) = Len(b) - n
      /\ \A i \in 1 .. Len(a) : c[i] = a[i]
      /\ \A i \in 1 .. n : c[Len(a) + i] = b[i]
      /\ \A i \in 1 .. Len(b) - n : d[i] = b[n + i]
  BY DEF Passed
<1>1. /\ Len(a) \in Nat /\ Len(b) \in Nat /\ Len(c) \in Nat /\ Len(d) \in Nat /\ Len(p) \in Nat /\ Len(r) \in Nat
      /\ Len(p) = Len(a) + Len(b) /\ Len(r) = Len(c) + Len(d)
  BY DEF Under, Lengths
<1>2. /\ \A i \in 1 .. Len(a) : p[i] = a[i]
      /\ \A i \in 1 .. Len(c) : r[i] = c[i]
      /\ \A i \in 1 .. Len(b) : p[Len(a) + i] = b[i]
      /\ \A i \in 1 .. Len(d) : r[Len(c) + i] = d[i]
  <2>1. Len(a) + Len(e) = Len(a) /\ Len(c) + Len(e) = Len(c)
    BY <1>1
  <2>. QED BY <2>1 DEF Under
<1>3. Len(r) = Len(p)
  BY <1>0, <1>1
<1>4. ASSUME NEW i \in 1 .. Len(r) PROVE r[i] = p[i]
  <2>1. CASE i <= Len(a)
    <3>1. i \in 1 .. Len(a) /\ i \in 1 .. Len(c)
      BY <1>0, <1>1, <2>1
    <3>. QED BY <1>0, <1>2, <3>1
  <2>2. CASE i > Len(a) /\ i <= Len(c)
    <3>1. PICK j \in 1 .. n : i = Len(a) + j
      <4>1. i - Len(a) \in 1 .. n /\ i = Len(a) + (i - Len(a))
        BY <1>0, <1>1, <2>2
      <4>. QED BY <4>1
    <3>2. j \in 1 .. Len(b) /\ i \in 1 .. Len(c)
      BY <1>0, <1>1, <2>2, <3>1
    <3>. QED BY <1>0, <1>2, <3>1, <3>2
  <2>3. CASE i > Len(c)
    <3>1. PICK j \in 1 .. Len(d) : i = Len(c) + j
      <4>1. i - Len(c) \in 1 .. Len(d) /\ i = Len(c) + (i - Len(c))
        BY <1>1, <2>3
      <4>. QED BY <4>1
    <3>2. i = Len(a) + (n + j) /\ n + j \in 1 .. Len(b) /\ j \in 1 .. Len(b) - n
      BY <1>0, <1>1, <3>1
    <3>3. r[i] = d[j] /\ p[i] = b[n + j]
      BY <1>2, <3>1, <3>2
    <3>. QED BY <1>0, <3>2, <3>3
  <2>. QED BY <1>1, <2>1, <2>2, <2>3
<1>. QED BY <1>3, <1>4

(* The socket hands n units to the listener *)
LEMMA HandedFacts ==
  ASSUME TypeOK, TypeOK', NEW n \in 1 .. Len(down), leftover = <<>>, UNCHANGED leftover,
         inbox' = inbox \o SubSeq(down, 1, n), down' = SubSeq(down, n + 1, Len(down))
  PROVE  Shift(0)
<1>1. Under(Pipe, inbox, leftover, down) /\ Under(Pipe', inbox', leftover, down')
  BY PipeFacts, PipeNext
<1>2. Len(leftover) = 0
  OBVIOUS
<1>3. /\ Len(down') = Len(down) - n /\ \A i \in 1 .. Len(down) - n : down'[i] = down[n + i]
      /\ SubSeq(down, 1, n) \in Seq(Unit) /\ Len(SubSeq(down, 1, n)) = n
      /\ \A i \in 1 .. n : SubSeq(down, 1, n)[i] = down[i]
  <2>1. down \in Seq(Unit) /\ n \in 0 .. Len(down)
    BY <1>1 DEF TypeOK, Under, Lengths
  <2>. QED BY <2>1, SplitFacts
<1>4. /\ Len(inbox') = Len(inbox) + n
      /\ \A i \in 1 .. Len(inbox) : inbox'[i] = inbox[i]
      /\ \A i \in 1 .. n : inbox'[Len(inbox) + i] = down[i]
  <2>1. inbox \in Seq(Unit)
    BY DEF TypeOK
  <2>. QED BY <1>3, <2>1, ConcatFacts
<1>5. n \in Nat
  BY <1>1 DEF Under, Lengths
<1>6. Len(Pipe') = Len(Pipe) /\ \A i \in 1 .. Len(Pipe') : Pipe'[i] = Pipe[i]
  <2>1. Passed(n, inbox, down, inbox', down')
    BY <1>3, <1>4, <1>5 DEF Passed
  <2>. QED BY <1>1, <1>2, <2>1, PassFacts
<1>7. Len(Pipe) \in Nat
  BY <1>1 DEF Under, Lengths
<1>8. \A i \in 1 .. Len(Pipe) : i + 0 = i
  BY <1>7
<1>. QED BY <1>6, <1>7, <1>8 DEF Shift

(* The socket loses n units, since nobody listens *)
LEMMA UnheardFacts ==
  ASSUME TypeOK, TypeOK', NEW n \in 1 .. Len(down), inbox = <<>>, leftover = <<>>,
         UNCHANGED <<inbox, leftover>>, down' = SubSeq(down, n + 1, Len(down))
  PROVE  Shift(n)
<1>1. Under(Pipe, inbox, leftover, down) /\ Under(Pipe', inbox, leftover, down')
  BY PipeFacts, PipeNext
<1>2. Len(leftover) = 0 /\ Len(inbox) = 0
  OBVIOUS
<1>3. Len(down') = Len(down) - n /\ \A i \in 1 .. Len(down) - n : down'[i] = down[n + i]
  <2>1. down \in Seq(Unit) /\ n \in 0 .. Len(down)
    BY <1>1 DEF TypeOK, Under, Lengths
  <2>. QED BY <2>1, SplitFacts
<1>4. \A i \in 1 .. Len(down') : i = 0 + 0 + i
  BY <1>1 DEF Under, Lengths
<1>5. Len(Pipe) = Len(down) /\ \A i \in 1 .. Len(down) : Pipe[i] = down[i]
  BY <1>1, <1>2 DEF Under, Lengths
<1>6. Len(Pipe') = Len(down') /\ \A i \in 1 .. Len(down') : Pipe'[i] = down'[i]
  BY <1>1, <1>2 DEF Under, Lengths
<1>0. Lengths(Pipe, inbox, leftover, down) /\ Lengths(Pipe', inbox, leftover, down')
  BY <1>1 DEF Under
<1>7. \A i \in 1 .. Len(down') : n + i \in 1 .. Len(down) /\ n + i = i + n
  BY <1>0, <1>3 DEF Lengths
<1>8. Len(Pipe') = Len(Pipe) - n /\ n \in Nat
  BY <1>0, <1>2, <1>3 DEF Lengths
<1>9. \A i \in 1 .. Len(down') : i \in 1 .. Len(down) - n /\ Pipe'[i] = down[n + i]
  BY <1>3, <1>6
<1>10. \A i \in 1 .. Len(down') : Pipe'[i] = Pipe[i + n]
  BY <1>5, <1>7, <1>9
<1>. QED BY <1>6, <1>8, <1>10 DEF Shift

(* setImmediate hands over what waited for it *)
LEMMA EmittedFacts ==
  ASSUME TypeOK, inbox' = inbox \o leftover, leftover' = <<>>, UNCHANGED down
  PROVE  Shift(0)
<1>1. inbox \in Seq(Unit) /\ leftover \in Seq(Unit)
  BY DEF TypeOK
<1>2. (inbox \o leftover) \o <<>> = inbox \o leftover
  BY <1>1, ConcatFacts, ConcatEmptySeq
<1>3. Pipe' = Pipe
  BY <1>2 DEF Pipe
<1>4. Under(Pipe, inbox, leftover, down)
  BY PipeFacts
<1>5. \A i \in 1 .. Len(Pipe) : i + 0 = i
  BY <1>4 DEF Under, Lengths
<1>. QED BY <1>3, <1>4, <1>5 DEF Shift, Under, Lengths

LEMMA SameFacts ==
  ASSUME TypeOK, UNCHANGED <<inbox, leftover, down>>
  PROVE  Shift(0) /\ Pipe' = Pipe
<1>1. Pipe' = Pipe
  BY DEF Pipe
<1>2. Under(Pipe, inbox, leftover, down)
  BY PipeFacts
<1>3. \A i \in 1 .. Len(Pipe) : i + 0 = i
  BY <1>2 DEF Under, Lengths
<1>. QED BY <1>1, <1>2, <1>3 DEF Shift, Under, Lengths

-----------------------------------------------------------------------------
(* Type correctness *)

ValuesOf(q) == [i \in 1 .. Len(q) |-> q[i].value]

LEMMA ValuesFacts ==
  ASSUME NEW q \in Seq(Unit)
  PROVE  /\ ValuesOf(q) \in Seq(Nat) /\ Len(ValuesOf(q)) = Len(q)
         /\ \A i \in 1 .. Len(q) : ValuesOf(q)[i] = q[i].value
<1>1. Len(q) \in Nat /\ \A i \in 1 .. Len(q) : q[i] \in Unit
  OBVIOUS
<1>2. \A i \in 1 .. Len(q) : q[i].value \in Nat
  BY <1>1 DEF Unit
<1>3. ValuesOf(q) \in [1 .. Len(q) -> Nat]
  BY <1>1, <1>2 DEF ValuesOf
<1>. QED BY <1>1, <1>3 DEF ValuesOf

LEMMA RestType ==
  ASSUME NEW q \in Seq(Unit), NEW m \in Nat \ {0}, NEW n \in Nat, n <= Len(q)
  PROVE  SubSeq(q, m, n) \in Seq(Unit)
<1>1. \A i \in m .. n : q[i] \in Unit
  OBVIOUS
<1>. QED BY <1>1, SubSeqProperties

LEMMA TypeClient ==
  ASSUME TypeOK, Client \/ Dial \/ Timer PROVE TypeOK'
<1>. USE DEF remotevars, clientvars
<1>0. /\ inbox \in Seq(Unit) /\ down \in Seq(Unit) /\ leftover \in Seq(Unit) /\ <<>> \in Seq(Unit)
      /\ Len(inbox) \in Nat /\ Len(down) \in Nat
  BY DEF TypeOK
<1>1. Parsed => Rest \in Seq(Unit) /\ inbox[2] \in Unit
  BY <1>0, RestType DEF Rest, Parsed
<1>2. ASSUME TakeGreeting \/ TakeReply \/ TakeStatus \/ WriteChunk \/ FinishUpload \/ Drain \/ SeeEnd \/ SeeError \/ Dial \/ Timer
      PROVE  TypeOK'
  <2>1. inbox' \in Seq(Unit) /\ leftover' \in Seq(Unit) /\ UNCHANGED <<plan, down, line, got, server, made, stored>>
    BY <1>0, <1>1, <1>2 DEF TakeGreeting, TakeReply, TakeStatus, WriteChunk, FinishUpload, Drain, SeeEnd, SeeError, Dial, Timer
  <2>2. at' \in States /\ outcome' \in {"pending", "ok", "error"}
    BY <1>2 DEF TakeGreeting, TakeReply, TakeStatus, WriteChunk, FinishUpload, Drain, SeeEnd, SeeError, Dial, Timer, TypeOK,
                States, Handshake, Settle, AfterHandshake, Granted
  <2>3. proxy' \in {"idle", "dialled", "asked", "open", "gone"}
    BY <1>2 DEF TakeGreeting, TakeReply, TakeStatus, WriteChunk, FinishUpload, Drain, SeeEnd, SeeError, Dial, Timer, TypeOK
  <2>4. sent' \in Nat
    <3>1. sent' = sent \/ sent' = sent + 1
      BY <1>2 DEF TakeGreeting, TakeReply, TakeStatus, WriteChunk, FinishUpload, Drain, SeeEnd, SeeError, Dial, Timer
    <3>2. sent \in Nat
      BY DEF TypeOK
    <3>. QED BY <3>1, <3>2
  <2>. QED BY <2>1, <2>2, <2>3, <2>4 DEF TypeOK
<1>3. ASSUME EmitLeftover PROVE TypeOK'
  <2>1. inbox' \in Seq(Unit) /\ leftover' \in Seq(Unit)
    BY <1>0, <1>3, ConcatFacts DEF EmitLeftover
  <2>. QED BY <1>3, <2>1 DEF EmitLeftover, TypeOK
<1>4. ASSUME NEW n \in 1 .. Len(down), Deliver(n) PROVE TypeOK'
  <2>1. SubSeq(down, 1, n) \in Seq(Unit) /\ SubSeq(down, n + 1, Len(down)) \in Seq(Unit)
    BY <1>0, RestType
  <2>2. inbox \o SubSeq(down, 1, n) \in Seq(Unit)
    BY <1>0, <2>1, ConcatFacts
  <2>. QED BY <1>4, <2>1, <2>2 DEF Deliver, TypeOK
<1>5. ASSUME TakeFrame PROVE TypeOK'
  <2>1. got' = got \/ (inbox[2].kind \in Streams /\ got' = [got EXCEPT ![inbox[2].kind] = Append(@, inbox[2].value)])
    BY <1>5 DEF TakeFrame
  <2>2. inbox[2].value \in Nat
    BY <1>1, <1>5 DEF TakeFrame, Unit
  <2>3. got \in [Streams -> Seq(Nat)]
    BY DEF TypeOK
  <2>4. \A s \in Streams : Append(got[s], inbox[2].value) \in Seq(Nat)
    BY <2>2, <2>3
  <2>5. got' \in [Streams -> Seq(Nat)]
    BY <2>1, <2>3, <2>4
  <2>. QED BY <1>1, <1>5, <2>5 DEF TakeFrame, TypeOK, Settle, States
<1>6. ASSUME TakeBytes PROVE TypeOK'
  <2>1. got' = [got EXCEPT !["out"] = got["out"] \o ValuesOf(inbox)]
    BY <1>6 DEF TakeBytes, ValuesOf
  <2>2. got \in [Streams -> Seq(Nat)] /\ got["out"] \in Seq(Nat) /\ "out" \in Streams
    BY DEF TypeOK, Streams
  <2>3. got["out"] \o ValuesOf(inbox) \in Seq(Nat)
    BY <1>0, <2>2, ConcatFacts, ValuesFacts
  <2>4. got' \in [Streams -> Seq(Nat)]
    BY <2>1, <2>2, <2>3
  <2>. QED BY <1>0, <1>6, <2>4 DEF TakeBytes, TypeOK
<1>. QED BY <1>2, <1>3, <1>4, <1>5, <1>6 DEF Client

LEMMA TypeRemote ==
  ASSUME TypeOK, Remote \/ Cut PROVE TypeOK'
<1>. USE DEF clientvars
<1>0. down \in Seq(Unit) /\ Len(down) \in Nat /\ made \in [Streams -> Nat] /\ stored \in Nat
  BY DEF TypeOK
<1>1. \A q \in Seq(Unit) : down \o q \in Seq(Unit)
  BY <1>0, ConcatFacts
<1>2. \A kind \in Kinds, value \in {0, 1} : down \o Message(kind, value) \in Seq(Unit)
  BY <1>1, MessageFacts
<1>3. <<>> \in Seq(Unit)
  OBVIOUS
<1>4. ASSUME ProxyGreets \/ ProxyConnects \/ Refuse \/ StartGet \/ StartSpawn \/ StartRelay
             \/ SendExit \/ EndOfData \/ StartPut \/ StoreFails
      PROVE  TypeOK'
  <2>1. down' \in Seq(Unit) /\ UNCHANGED <<plan, at, outcome, inbox, leftover, got, sent, made, stored>>
    BY <1>0, <1>1, <1>2, <1>3, <1>4 DEF ProxyGreets, ProxyConnects, Refuse, StartGet, StartSpawn, StartRelay, Start,
                           SendExit, EndOfData, StartPut, StoreFails, Stored, Reply, Hangup, Kinds
  <2>2. /\ proxy' \in {"idle", "dialled", "asked", "open", "gone"}
        /\ server' \in {"idle", "reading", "sending", "storing", "done"}
        /\ line' \in {"up", "fin", "reset"}
    BY <1>4 DEF ProxyGreets, ProxyConnects, Refuse, StartGet, StartSpawn, StartRelay, Start,
                SendExit, EndOfData, StartPut, StoreFails, Stored, Hangup, TypeOK
  <2>. QED BY <2>1, <2>2 DEF TypeOK
<1>5. ASSUME Answer PROVE TypeOK'
  <2>1. PICK ok \in {0, 1} : /\ made' = [made EXCEPT !["out"] = IF ok = 1 THEN plan.size["out"] ELSE 0]
                             /\ Hangup(Message("status", ok))
    BY <1>5 DEF Answer
  <2>2. made' \in [Streams -> Nat]
    BY <1>0, <2>1, PlanFacts
  <2>. QED BY <1>2, <1>5, <2>1, <2>2 DEF Answer, Hangup, TypeOK, Kinds
<1>6. ASSUME NEW s \in Streams, Produce(s) PROVE TypeOK'
  <2>1. made' = [made EXCEPT ![s] = @ + 1] /\ made' \in [Streams -> Nat] /\ made'[s] \in Nat
    BY <1>0, <1>6 DEF Produce
  <2>2. Message(s, made'[s]) \in Seq(Unit) /\ Byte(made'[s]) \in Seq(Unit)
    <3>1. s \in Kinds
      BY DEF Kinds
    <3>. QED BY <2>1, <3>1, MessageFacts, ByteFacts
  <2>3. down' \in Seq(Unit)
    BY <1>1, <1>6, <2>2 DEF Produce
  <2>. QED BY <1>6, <2>1, <2>3 DEF Produce, TypeOK
<1>7. ASSUME Store PROVE TypeOK'
  BY <1>0, <1>7 DEF Store, TypeOK
<1>10. ASSUME Stored PROVE TypeOK'
  <2>1. /\ down' \in Seq(Unit) /\ stored' \in Nat /\ line' = "fin" /\ server' = "done"
        /\ UNCHANGED <<plan, at, outcome, inbox, leftover, got, sent, made, proxy>>
    BY <1>0, <1>1, <1>2, <1>3, <1>10 DEF Stored, Hangup, Kinds
  <2>. QED BY <2>1 DEF TypeOK
<1>8. ASSUME Cut PROVE TypeOK'
  <2>1. \A n \in 0 .. Len(down) : SubSeq(down, 1, n) \in Seq(Unit)
    BY <1>0, RestType
  <2>. QED BY <1>8, <2>1 DEF Cut, TypeOK
<1>9. "out" \in Streams /\ "err" \in Streams
  BY DEF Streams
<1>. QED BY <1>4, <1>5, <1>6, <1>7, <1>8, <1>9, <1>10 DEF Remote

-----------------------------------------------------------------------------
(* Where the units go *)

(* The socks5 code sets aside what came behind the reply *)
LEMMA AsideFacts ==
  ASSUME TypeOK, TypeOK', Parsed, leftover = <<>>, inbox' = <<>>, leftover' = Rest, UNCHANGED down
  PROVE  Shift(2)
<1>1. Under(Pipe, inbox, leftover, down) /\ Under(Pipe', inbox', leftover', down)
  BY PipeFacts, PipeNext
<1>2. Len(leftover) = 0 /\ Len(inbox') = 0
  OBVIOUS
<1>3. 2 <= Len(inbox) /\ Len(inbox) \in Nat /\ Len(down) \in Nat /\ inbox \in Seq(Unit)
  BY DEF TypeOK, Parsed
<1>4. Len(leftover') = Len(inbox) - 2 /\ \A i \in 1 .. Len(inbox) - 2 : leftover'[i] = inbox[2 + i]
  <2>1. PICK n \in 0 .. Len(inbox) : n = 2 /\ n + 1 = 3
    BY <1>3
  <2>2. leftover' = SubSeq(inbox, n + 1, Len(inbox))
    BY <2>1 DEF Rest
  <2>3. /\ Len(SubSeq(inbox, n + 1, Len(inbox))) = Len(inbox) - n
        /\ \A i \in 1 .. Len(inbox) - n : SubSeq(inbox, n + 1, Len(inbox))[i] = inbox[n + i]
    BY <1>3, SplitFacts
  <2>. QED BY <2>1, <2>2, <2>3
<1>5. /\ Len(Pipe) = Len(inbox) + Len(down) /\ Len(Pipe') = Len(inbox) - 2 + Len(down)
      /\ Len(inbox') + Len(leftover') = Len(inbox) - 2 /\ Len(inbox) + Len(leftover) = Len(inbox)
  BY <1>1, <1>2, <1>3, <1>4 DEF Under, Lengths
<1>6. /\ \A i \in 1 .. Len(inbox) : Pipe[i] = inbox[i]
      /\ \A i \in 1 .. Len(down) : Pipe[Len(inbox) + i] = down[i]
      /\ \A i \in 1 .. Len(inbox) - 2 : Pipe'[i] = leftover'[i]
      /\ \A i \in 1 .. Len(down) : Pipe'[Len(inbox) - 2 + i] = down[i]
  <2>1. \A i \in 1 .. Len(inbox) - 2 : 0 + i = i
    BY <1>3
  <2>. QED BY <1>1, <1>2, <1>4, <1>5, <2>1 DEF Under
<1>7. ASSUME NEW i \in 1 .. Len(Pipe') PROVE Pipe'[i] = Pipe[i + 2]
  <2>1. CASE i <= Len(inbox) - 2
    <3>1. i \in 1 .. Len(inbox) - 2 /\ 2 + i \in 1 .. Len(inbox) /\ i + 2 = 2 + i
      BY <1>3, <2>1
    <3>. QED BY <1>4, <1>6, <3>1
  <2>2. CASE i > Len(inbox) - 2
    <3>1. PICK j \in 1 .. Len(down) : i = Len(inbox) - 2 + j
      <4>1. i - (Len(inbox) - 2) \in 1 .. Len(down) /\ i = Len(inbox) - 2 + (i - (Len(inbox) - 2))
        BY <1>3, <1>5, <2>2
      <4>. QED BY <4>1
    <3>2. i + 2 = Len(inbox) + j
      BY <1>3, <3>1
    <3>. QED BY <1>6, <3>1, <3>2
  <2>. QED BY <1>3, <1>5, <2>1, <2>2
<1>8. Len(Pipe') = Len(Pipe) - 2
  BY <1>3, <1>5
<1>. QED BY <1>7, <1>8 DEF Shift

(* All that the listener has is taken *)
LEMMA EmptiedFacts ==
  ASSUME TypeOK, TypeOK', leftover = <<>>, inbox' = <<>>, UNCHANGED <<leftover, down>>
  PROVE  Shift(Len(inbox))
<1>1. inbox \in Seq(Unit) /\ Len(inbox) \in Nat
  BY DEF TypeOK
<1>2. SubSeq(inbox, Len(inbox) + 1, Len(inbox)) = <<>>
  BY <1>1, SubSeqEmpty
<1>. QED BY <1>1, <1>2, TakenFacts

LEMMA ClientMoves ==
  ASSUME TypeOK, TypeOK', InTurn, at' # "over"
  PROVE  /\ WriteChunk \/ FinishUpload \/ Drain \/ Dial => Shift(0) /\ Pipe' = Pipe
         /\ TakeGreeting \/ TakeReply \/ TakeFrame => Shift(2)
         /\ TakeStatus => Shift(IF plan.op \in Dropping THEN Len(inbox) ELSE 2)
         /\ TakeBytes /\ leftover = <<>> => Shift(Len(inbox))
         /\ EmitLeftover => Shift(0)
         /\ \A n \in 1 .. Len(down) :
              Deliver(n) /\ leftover = <<>> => Shift(IF at = "drain" THEN n ELSE 0)
<1>1. ASSUME WriteChunk \/ FinishUpload \/ Drain \/ Dial PROVE Shift(0) /\ Pipe' = Pipe
  BY <1>1, SameFacts DEF WriteChunk, FinishUpload, Drain, Dial
<1>2. leftover # <<>> => at \in {"stream", "over"}
  BY DEF InTurn
<1>3. Parsed => 2 \in Nat /\ 2 <= Len(inbox) /\ Rest = SubSeq(inbox, 2 + 1, Len(inbox))
  BY DEF Parsed, Rest, TypeOK
<1>4. ASSUME TakeGreeting \/ TakeFrame \/ (TakeStatus /\ plan.op \notin Dropping) PROVE Shift(2)
  <2>1. Parsed /\ leftover = <<>> /\ inbox' = Rest /\ UNCHANGED <<leftover, down>>
    BY <1>2, <1>4 DEF TakeGreeting, TakeFrame, TakeStatus, remotevars
  <2>. QED BY <1>3, <2>1, TakenFacts
<1>5. ASSUME TakeReply PROVE Shift(2)
  <2>1. Parsed /\ leftover = <<>> /\ inbox' = <<>> /\ leftover' = Rest /\ UNCHANGED down
    BY <1>2, <1>5 DEF TakeReply, Settle
  <2>. QED BY <2>1, AsideFacts
<1>6. ASSUME (TakeStatus /\ plan.op \in Dropping) \/ (TakeBytes /\ leftover = <<>>) PROVE Shift(Len(inbox))
  <2>1. leftover = <<>> /\ inbox' = <<>> /\ UNCHANGED <<leftover, down>>
    BY <1>2, <1>6 DEF TakeStatus, TakeBytes
  <2>. QED BY <2>1, EmptiedFacts
<1>7. ASSUME EmitLeftover PROVE Shift(0)
  BY <1>7, EmittedFacts DEF EmitLeftover
<1>8. ASSUME NEW n \in 1 .. Len(down), Deliver(n), leftover = <<>>
      PROVE  Shift(IF at = "drain" THEN n ELSE 0)
  <2>1. CASE at = "drain"
    <3>1. inbox = <<>>
      BY <2>1 DEF InTurn
    <3>. QED BY <1>8, <2>1, <3>1, UnheardFacts DEF Deliver
  <2>2. CASE at # "drain"
    BY <1>8, <2>2, HandedFacts DEF Deliver
  <2>. QED BY <2>1, <2>2
<1>. QED BY <1>1, <1>4, <1>5, <1>6, <1>7, <1>8

LEMMA RemoteMoves ==
  ASSUME TypeOK, TypeOK'
  PROVE  /\ ProxyGreets => \E v \in {0, 1} : Adds(Message("greeting", v))
         /\ ProxyConnects => \E v \in {0, 1} : Adds(Message("reply", v))
         /\ StartGet \/ StartSpawn \/ StartRelay => Adds(Message("status", 1))
         /\ Refuse => Pipe' = Pipe \/ Adds(Message("status", 0))
         /\ Answer => \E ok \in {0, 1} :
              /\ Adds(Message("status", ok))
              /\ made' = [made EXCEPT !["out"] = IF ok = 1 THEN plan.size["out"] ELSE 0]
         /\ \A s \in Streams : Produce(s) =>
              /\ made' = [made EXCEPT ![s] = made[s] + 1]
              /\ Adds(IF plan.op = "spawn" THEN Message(s, made[s] + 1) ELSE Byte(made[s] + 1))
         /\ SendExit => Adds(Message("exit", 0))
         /\ EndOfData \/ StartPut \/ Store => Pipe' = Pipe
         /\ StoreFails => Adds(Message("status", 0))
         /\ Stored => Adds(Message("status", 1))
         /\ Cut => Shortens
<1>0. down \in Seq(Unit) /\ made \in [Streams -> Nat]
  BY DEF TypeOK
<1>1. \A kind \in Kinds, value \in Nat : Message(kind, value) \in Seq(Unit)
  BY MessageFacts
<1>2. ASSUME NEW kind \in Kinds, NEW value \in Nat, down' = down \o Message(kind, value), UNCHANGED <<inbox, leftover>>
      PROVE  Adds(Message(kind, value))
  BY <1>1, <1>2, AddsFacts
<1>3. {"greeting", "reply", "status", "exit"} \subseteq Kinds /\ {0, 1} \subseteq Nat
  BY DEF Kinds
<1>4. ASSUME ProxyGreets PROVE \E v \in {0, 1} : Adds(Message("greeting", v))
  BY <1>2, <1>3, <1>4 DEF ProxyGreets, Reply, clientvars
<1>5. ASSUME ProxyConnects PROVE \E v \in {0, 1} : Adds(Message("reply", v))
  BY <1>2, <1>3, <1>5 DEF ProxyConnects, Reply, clientvars
<1>6. ASSUME StartGet \/ StartSpawn \/ StartRelay PROVE Adds(Message("status", 1))
  BY <1>2, <1>3, <1>6 DEF StartGet, StartSpawn, StartRelay, Start, Reply, clientvars
<1>7. ASSUME Refuse PROVE Pipe' = Pipe \/ Adds(Message("status", 0))
  <2>1. down' = down \o <<>> \/ down' = down \o Message("status", 0)
    BY <1>7 DEF Refuse, Hangup
  <2>2. CASE down' = down \o <<>>
    BY <1>0, <1>7, <2>2, ConcatEmptySeq DEF Refuse, clientvars, Pipe
  <2>. QED BY <1>2, <1>3, <1>7, <2>1, <2>2 DEF Refuse, clientvars
<1>8. ASSUME Answer
      PROVE  \E ok \in {0, 1} :
               /\ Adds(Message("status", ok))
               /\ made' = [made EXCEPT !["out"] = IF ok = 1 THEN plan.size["out"] ELSE 0]
  <2>1. PICK ok \in {0, 1} :
          /\ made' = [made EXCEPT !["out"] = IF ok = 1 THEN plan.size["out"] ELSE 0]
          /\ down' = down \o Message("status", ok)
    BY <1>8 DEF Answer, Hangup
  <2>2. Adds(Message("status", ok))
    BY <1>2, <1>3, <1>8, <2>1 DEF Answer, clientvars
  <2>. QED BY <2>1, <2>2
<1>9. ASSUME NEW s \in Streams, Produce(s)
      PROVE  /\ made' = [made EXCEPT ![s] = made[s] + 1]
             /\ Adds(IF plan.op = "spawn" THEN Message(s, made[s] + 1) ELSE Byte(made[s] + 1))
  <2>1. made' = [made EXCEPT ![s] = made[s] + 1] /\ made'[s] = made[s] + 1 /\ made[s] + 1 \in Nat
    BY <1>0, <1>9 DEF Produce
  <2>2. down' = down \o IF plan.op = "spawn" THEN Message(s, made[s] + 1) ELSE Byte(made[s] + 1)
    BY <1>9, <2>1 DEF Produce
  <2>3. s \in Kinds /\ Byte(made[s] + 1) \in Seq(Unit) /\ Message(s, made[s] + 1) \in Seq(Unit)
    <3>1. s \in Kinds
      BY DEF Kinds
    <3>. QED BY <2>1, <3>1, ByteFacts, MessageFacts
  <2>. QED BY <1>9, <2>1, <2>2, <2>3, AddsFacts DEF Produce, clientvars
<1>10. ASSUME SendExit PROVE Adds(Message("exit", 0))
  BY <1>2, <1>3, <1>10 DEF SendExit, Hangup, clientvars
<1>11. ASSUME EndOfData \/ StartPut \/ Store PROVE Pipe' = Pipe
  <2>1. UNCHANGED <<inbox, leftover>> /\ (down' = down \/ down' = down \o <<>>)
    BY <1>11 DEF EndOfData, StartPut, Store, Hangup, clientvars
  <2>. QED BY <1>0, <2>1, ConcatEmptySeq DEF Pipe
<1>12. ASSUME Stored PROVE Adds(Message("status", 1))
  BY <1>2, <1>3, <1>12 DEF Stored, Hangup, clientvars
<1>13. ASSUME Cut PROVE Shortens
  BY <1>13, ShortensFacts DEF Cut, clientvars
<1>14. ASSUME StoreFails PROVE Adds(Message("status", 0))
  BY <1>2, <1>3, <1>14 DEF StoreFails, Hangup, clientvars
<1>. QED BY <1>4, <1>5, <1>6, <1>7, <1>8, <1>9, <1>10, <1>11, <1>12, <1>13, <1>14

LEMMA EmptyFacts ==
  ASSUME TypeOK, TypeOK'
  PROVE  /\ Len(Pipe) \in Nat /\ Len(Pipe') \in Nat
         /\ Pipe = <<>> <=> Len(Pipe) = 0
         /\ Pipe' = <<>> <=> Len(Pipe') = 0
<1>1. Pipe \in Seq(Unit) /\ Pipe' \in Seq(Unit)
  BY PipeFacts, PipeNext DEF Under
<1>. QED BY <1>1

(* The client is done: nothing is asked of what is under way *)
LEMMA OverTurn ==
  ASSUME TypeOK, TypeOK', InTurn, Client \/ Dial \/ Timer, at' = "over" PROVE InTurn'
<1>1. UNCHANGED <<plan, line, server>>
  BY DEF Client, TakeGreeting, TakeReply, EmitLeftover, TakeStatus, TakeFrame, TakeBytes, WriteChunk,
         FinishUpload, Drain, SeeEnd, SeeError, Deliver, Dial, Timer, remotevars
<1>2. proxy' = proxy
  BY DEF Client, TakeGreeting, TakeReply, EmitLeftover, TakeStatus, TakeFrame, TakeBytes, WriteChunk,
         FinishUpload, Drain, SeeEnd, SeeError, Deliver, Dial, Timer, remotevars
<1>3. leftover' = leftover \/ leftover' = <<>>
  BY DEF Client, TakeGreeting, TakeReply, EmitLeftover, TakeStatus, TakeFrame, TakeBytes, WriteChunk,
         FinishUpload, Drain, SeeEnd, SeeError, Deliver, Dial, Timer, AfterHandshake, Settle
<1>4. MayHappen("burst")' <=> MayHappen("burst")
  BY <1>1 DEF MayHappen
<1>. QED BY <1>1, <1>2, <1>3, <1>4 DEF InTurn, Handshake

LEMMA TurnClient ==
  ASSUME TypeOK, TypeOK', InTurn, Client \/ Dial \/ Timer PROVE InTurn'
<1>. SUFFICES ASSUME at' # "over" PROVE InTurn'
  BY OverTurn
<1>0. /\ Len(Pipe) \in Nat /\ Len(Pipe') \in Nat
      /\ Pipe = <<>> <=> Len(Pipe) = 0
      /\ Pipe' = <<>> <=> Len(Pipe') = 0
  BY EmptyFacts
<1>1. UNCHANGED <<plan, line, server>>
  BY DEF Client, TakeGreeting, TakeReply, EmitLeftover, TakeStatus, TakeFrame, TakeBytes, WriteChunk,
         FinishUpload, Drain, SeeEnd, SeeError, Deliver, Dial, Timer, remotevars
<1>2. MayHappen("burst")' <=> MayHappen("burst")
  BY <1>1 DEF MayHappen
<1>3. Parsed => Len(Pipe) >= 2
  <2>1. Lengths(Pipe, inbox, leftover, down)
    BY PipeFacts DEF Under
  <2>. QED BY <2>1 DEF Lengths, Parsed
<1>4. CASE TakeGreeting
  <2>1. /\ at = "greeting" /\ at' = "reply" /\ proxy' = "asked" /\ leftover' = leftover /\ Parsed
    BY <1>4 DEF TakeGreeting, Settle
  <2>2. Len(Pipe') = Len(Pipe) - 2
    BY <1>4, ClientMoves DEF Shift
  <2>3. Len(Pipe') = 0
    BY <1>0, <1>3, <2>1, <2>2 DEF InTurn
  <2>. QED BY <1>0, <1>1, <1>2, <2>1, <2>3 DEF InTurn
<1>5. CASE TakeReply
  <2>1. /\ at = "reply" /\ at' = AfterHandshake /\ proxy' = proxy /\ leftover' = Rest /\ inbox' = <<>> /\ Parsed
    BY <1>5 DEF TakeReply, Settle, remotevars
  <2>2. Len(Pipe') = Len(Pipe) - 2
    BY <1>5, ClientMoves DEF Shift
  <2>3. plan.op # "tcp" => Len(Pipe') = 0
    BY <1>0, <1>3, <2>1, <2>2 DEF InTurn
  <2>4. leftover' # <<>> => Len(Pipe') # 0
    <3>1. Lengths(Pipe', inbox', leftover', down')
      BY PipeNext DEF Under
    <3>2. Len(leftover') # 0 <=> leftover' # <<>>
      BY DEF TypeOK
    <3>. QED BY <3>1, <3>2 DEF Lengths
  <2>5. proxy \notin {"dialled", "asked"}
    BY <1>0, <1>3, <2>1 DEF InTurn
  <2>6. /\ plan.op = "tcp" => at' = "stream"
        /\ plan.op = "put" => at' = "upload"
        /\ plan.op \notin {"tcp", "put"} => at' = "status"
    BY <2>1 DEF AfterHandshake
  <2>. QED BY <1>0, <1>1, <1>2, <2>1, <2>3, <2>4, <2>5, <2>6 DEF InTurn
<1>6. CASE EmitLeftover
  <2>1. at' = at /\ proxy' = proxy /\ leftover' = <<>> /\ leftover # <<>>
    BY <1>6 DEF EmitLeftover, remotevars
  <2>. QED BY <1>0, <1>1, <1>2, <2>1 DEF InTurn
<1>7. CASE TakeStatus
  <2>1. /\ at = "status" /\ at' = Granted /\ proxy' = proxy /\ leftover' = leftover
    BY <1>7 DEF TakeStatus, remotevars
  <2>2. /\ Parsed /\ plan.op \in Ops
    BY <1>7, PlanFacts DEF TakeStatus
  <2>3. plan.op # "tcp" /\ leftover = <<>> /\ server \notin {"reading", "storing"}
    BY <1>0, <1>3, <2>1, <2>2 DEF InTurn
  <2>4. /\ plan.op = "get" => at' = "file"
        /\ plan.op = "spawn" => at' = "frames"
        /\ plan.op \in {"read", "unix"} => at' = "stream"
        /\ plan.op \in {"request", "probe", "put"} => at' = "over"
    BY <2>1 DEF Granted
  <2>5. /\ at' \in {"file", "frames", "stream"}
        /\ at' = "file" => plan.op = "get"
        /\ at' = "frames" => plan.op = "spawn"
        /\ at' = "stream" => plan.op \in {"read", "unix", "tcp"}
    BY <2>2, <2>3, <2>4 DEF Ops
  <2>. QED BY <1>0, <1>1, <1>2, <2>1, <2>3, <2>5 DEF InTurn
<1>8. CASE TakeFrame
  <2>1. at = "frames" /\ at' = at /\ proxy' = proxy /\ leftover' = leftover
    BY <1>8 DEF TakeFrame, remotevars, Settle
  <2>. QED BY <1>0, <1>1, <1>2, <2>1 DEF InTurn
<1>9. CASE TakeBytes
  <2>1. at \in {"file", "stream"} /\ at' = at /\ proxy' = proxy /\ leftover' = leftover /\ inbox' = <<>>
    BY <1>9 DEF TakeBytes, remotevars
  <2>. QED BY <1>0, <1>1, <1>2, <2>1 DEF InTurn
<1>10. CASE WriteChunk \/ FinishUpload \/ Drain \/ Dial
  <2>1. Len(Pipe') = Len(Pipe) /\ UNCHANGED <<inbox, leftover>>
    BY <1>10, ClientMoves DEF WriteChunk, FinishUpload, Drain, Dial
  <2>2. \/ at = "dial" /\ at' = "greeting" /\ proxy' = "dialled"
        \/ at \in {"upload", "drain"} /\ at' \in {"upload", "drain", "status"} /\ proxy' = proxy
    BY <1>10 DEF WriteChunk, FinishUpload, Drain, Dial, Settle, remotevars
  <2>. QED BY <1>0, <1>1, <1>2, <2>1, <2>2 DEF InTurn
<1>11. ASSUME NEW n \in 1 .. Len(down), Deliver(n) PROVE InTurn'
  <2>1. at' = at /\ proxy' = proxy /\ leftover' = leftover /\ (leftover = <<>> \/ MayHappen("burst"))
    BY <1>11 DEF Deliver, Event, remotevars
  <2>2. at = "drain" => inbox' = inbox
    BY <1>11 DEF Deliver
  <2>3. at # "upload"
    BY <1>11 DEF Deliver, Event, Handling
  <2>4. leftover = <<>> => Len(Pipe') <= Len(Pipe)
    <3>1. n \in Nat
      BY DEF TypeOK
    <3>2. ASSUME leftover = <<>> PROVE \E k \in Nat : Len(Pipe') = Len(Pipe) - k
      BY <1>11, <3>1, <3>2, ClientMoves DEF Shift
    <3>. QED BY <1>0, <3>2
  <2>5. CASE leftover = <<>>
    BY <1>0, <1>1, <1>2, <2>1, <2>2, <2>3, <2>4, <2>5 DEF InTurn
  <2>6. CASE leftover # <<>>
    BY <1>1, <1>2, <2>1, <2>6 DEF InTurn
  <2>. QED BY <2>5, <2>6
<1>12. ASSUME SeeEnd \/ SeeError \/ Timer PROVE FALSE
  BY <1>12 DEF SeeEnd, SeeError, Timer, Settle
<1>. QED BY <1>4, <1>5, <1>6, <1>7, <1>8, <1>9, <1>10, <1>11, <1>12 DEF Client

LEMMA TurnRemote ==
  ASSUME TypeOK, TypeOK', InTurn, Remote \/ Cut PROVE InTurn'
<1>0. /\ Len(Pipe) \in Nat /\ Len(Pipe') \in Nat
      /\ Pipe = <<>> <=> Len(Pipe) = 0
      /\ Pipe' = <<>> <=> Len(Pipe') = 0
  BY EmptyFacts
<1>1. UNCHANGED <<plan, at, inbox, leftover>>
  BY DEF Remote, ProxyGreets, ProxyConnects, Refuse, Answer, StartGet, StartSpawn, StartRelay, Start,
         Produce, SendExit, EndOfData, StartPut, Store, StoreFails, Stored, Cut, clientvars
<1>2. MayHappen("burst")' <=> MayHappen("burst")
  BY <1>1 DEF MayHappen
<1>3. \A kind \in Kinds, value \in Nat : Len(Message(kind, value)) = 2
  BY MessageFacts
<1>4. ASSUME NEW kind \in {"greeting", "reply", "status"}, NEW value \in {0, 1}, Adds(Message(kind, value))
      PROVE  Len(Pipe') = Len(Pipe) + 2
  <2>1. kind \in Kinds /\ value \in Nat
    BY DEF Kinds
  <2>2. Len(Message(kind, value)) = 2
    BY <1>3, <2>1
  <2>. QED BY <1>4, <2>2 DEF Adds
<1>5. CASE ProxyGreets
  <2>1. proxy = "dialled" /\ proxy' = "idle" /\ line = "up" /\ UNCHANGED <<server, line>>
    BY <1>5 DEF ProxyGreets
  <2>2. Len(Pipe') = Len(Pipe) + 2
    BY <1>4, <1>5, RemoteMoves
  <2>. QED BY <1>0, <1>1, <1>2, <2>1, <2>2 DEF InTurn
<1>6. CASE ProxyConnects
  <2>1. /\ proxy = "asked" /\ proxy' \in {"open", "gone"} /\ line = "up" /\ UNCHANGED line
        /\ server' \in {server, "sending", "reading"}
        /\ server' = "sending" => plan.op = "tcp"
        /\ server' = "reading" => server = "reading" \/ plan.op # "tcp"
    <3>1. server # "sending"
      BY <1>6 DEF ProxyConnects, InTurn
    <3>. QED BY <1>6, <3>1 DEF ProxyConnects
  <2>2. Len(Pipe') = Len(Pipe) + 2
    BY <1>4, <1>6, RemoteMoves
  <2>3. at \in {"reply", "over"} /\ server = "idle" /\ (at = "reply" => Len(Pipe') = 2)
    BY <1>0, <2>1, <2>2 DEF InTurn, TypeOK
  <2>4. /\ server' \in {"idle", "sending", "reading"} /\ (server' = "sending" => plan.op = "tcp")
        /\ server' = "reading" => plan.op # "tcp"
    BY <2>1, <2>3
  <2>5. /\ at' \in {"reply", "over"} /\ line' = "up" /\ proxy' \in {"open", "gone"}
        /\ at' = "reply" => Len(Pipe') = 2
    BY <1>1, <2>1, <2>3
  <2>6. /\ leftover' # <<>> => plan'.op = "tcp" /\ at' \in {"stream", "over"}
        /\ leftover' # <<>> /\ at' = "stream" /\ ~MayHappen("burst")' => inbox' = <<>>
    BY <1>1, <1>2 DEF InTurn
  <2>7. server' \in {"reading", "storing"} /\ at' \notin {"reply", "over"} => Pipe' = <<>>
    BY <2>5
  <2>8. server' = "done" <=> line' # "up"
    BY <2>4, <2>5
  <2>9. server' = "sending" => plan'.op \in EofDelimited \cup {"spawn"}
    BY <1>1, <2>4 DEF EofDelimited
  <2>10. server' = "reading" => plan'.op # "tcp" /\ at' \notin {"file", "stream", "frames"}
    BY <1>1, <2>4, <2>5
  <2>11. (at' = "reply" /\ plan'.op # "tcp") => Len(Pipe') <= 2 /\ server' # "sending"
    <3>1. ASSUME at' = "reply" PROVE Len(Pipe') <= 2
      <4>1. Len(Pipe') = 2
        BY <2>5, <3>1
      <4>. QED BY <4>1
    <3>2. plan'.op # "tcp" => server' # "sending"
      BY <1>1, <2>4
    <3>. QED BY <3>1, <3>2
  <2>. QED BY <2>4, <2>5, <2>6, <2>7, <2>8, <2>9, <2>10, <2>11 DEF InTurn
<1>7. CASE StartGet \/ StartSpawn \/ StartRelay \/ Refuse \/ Answer \/ StoreFails \/ Stored
  <2>1. /\ server \in {"reading", "storing"} /\ line = "up" /\ at # "reply" /\ proxy' = proxy
        /\ \/ server' = "done" /\ line' = "fin"
           \/ server' = "sending" /\ line' = line /\ plan.op \in {"get", "read", "spawn", "unix"}
    BY <1>7 DEF StartGet, StartSpawn, StartRelay, Start, Refuse, Answer, StoreFails, Stored, Requested,
                 Hangup, InTurn
  <2>2. Len(Pipe') <= Len(Pipe) + 2
    BY <1>0, <1>4, <1>7, RemoteMoves
  <2>3. at \notin {"dial", "greeting"} /\ proxy \notin {"dialled", "asked"}
    BY <2>1 DEF InTurn
  <2>4. at \in {"upload", "drain"} => Len(Pipe') <= 2
    BY <1>0, <2>1, <2>2 DEF InTurn
  <2>. QED BY <1>0, <1>1, <1>2, <2>1, <2>3, <2>4 DEF InTurn, EofDelimited
<1>8. CASE (\E s \in Streams : Produce(s)) \/ SendExit \/ EndOfData
  <2>1. /\ server = "sending" /\ line = "up" /\ proxy' = proxy
        /\ \/ server' = "done" /\ line' = "fin"
           \/ server' = "sending" /\ line' = line
    BY <1>8 DEF Produce, SendExit, EndOfData, Hangup
  <2>2. /\ at \notin {"dial", "greeting", "upload", "drain"} /\ proxy \notin {"dialled", "asked"}
        /\ at = "reply" => plan.op = "tcp"
    BY <2>1 DEF InTurn, EofDelimited
  <2>. QED BY <1>0, <1>1, <1>2, <2>1, <2>2 DEF InTurn
<1>9. CASE StartPut \/ Store
  <2>1. /\ (server' = server /\ server = "storing") \/ (server' = "storing" /\ server = "reading" /\ plan.op = "put")
        /\ UNCHANGED <<proxy, line>> /\ Pipe' = Pipe
    BY <1>9, RemoteMoves DEF StartPut, Store, Requested
  <2>2. server = "reading" => at # "reply"
    BY <1>9 DEF StartPut, Store, Requested
  <2>. QED BY <1>1, <1>2, <2>1, <2>2 DEF InTurn
<1>10. CASE Cut
  <2>1. line' # "up" /\ server' = "done" /\ proxy' = "gone" /\ at # "dial" /\ Len(Pipe') <= Len(Pipe)
    BY <1>10, RemoteMoves DEF Cut, Shortens
  <2>. QED BY <1>0, <1>1, <1>2, <2>1 DEF InTurn
<1>. QED BY <1>5, <1>6, <1>7, <1>8, <1>9, <1>10 DEF Remote, Streams

-----------------------------------------------------------------------------
(* What was sent, received and written *)

(* The listener's units are the first under way *)
LEMMA HeardFacts ==
  ASSUME TypeOK
  PROVE  /\ \A i \in 1 .. Len(inbox) : Pipe[i] = inbox[i] /\ i \in 1 .. Len(Pipe)
         /\ Len(inbox) \in Nat /\ Len(Pipe) \in Nat /\ Len(inbox) <= Len(Pipe)
         /\ DOMAIN Pipe = 1 .. Len(Pipe)
<1>1. Under(Pipe, inbox, leftover, down)
  BY PipeFacts
<1>2. Len(inbox) <= Len(Pipe) /\ Len(inbox) \in Nat /\ Len(Pipe) \in Nat
  BY <1>1 DEF Under, Lengths
<1>3. \A i \in 1 .. Len(inbox) : i \in 1 .. Len(Pipe)
  BY <1>2
<1>. QED BY <1>1, <1>2, <1>3 DEF Under

(* A handler of the far end leaves the client's state alone, and what it has *)
(* sent only grows *)
LEMMA RemoteSends ==
  ASSUME TypeOK, InTurn, Counts, Remote \/ Cut
  PROVE  /\ UNCHANGED <<plan, clientvars>>
         /\ \A s \in Streams : /\ made[s] \in Nat /\ made'[s] \in Nat
                               /\ made[s] <= made'[s] /\ made'[s] <= plan.size[s]
                               /\ server' \notin {"sending", "done"} => made'[s] = 0
<1>1. /\ \A s \in Streams : made[s] \in Nat /\ plan.size[s] \in Nat /\ made[s] <= plan.size[s]
      /\ made \in [Streams -> Nat] /\ "out" \in Streams
  BY PlanFacts DEF TypeOK, Counts, Streams
<1>2. UNCHANGED <<plan, clientvars>>
  BY DEF Remote, ProxyGreets, ProxyConnects, Refuse, Answer, StartGet, StartSpawn, StartRelay, Start,
         Produce, SendExit, EndOfData, StartPut, Store, StoreFails, Stored, Cut
<1>3. CASE ProxyGreets \/ ProxyConnects \/ Refuse \/ StartGet \/ StartSpawn \/ StartRelay
             \/ SendExit \/ EndOfData \/ StartPut \/ Store \/ StoreFails \/ Stored \/ Cut
  <2>1. made' = made
    BY <1>3 DEF ProxyGreets, ProxyConnects, Refuse, StartGet, StartSpawn, StartRelay, Start,
                SendExit, EndOfData, StartPut, Store, StoreFails, Stored, Cut
  <2>0. ProxyConnects => server \in {"idle", "done"} /\ line = "up"
    BY DEF ProxyConnects, InTurn
  <2>2. server' \notin {"sending", "done"} => server \notin {"sending", "done"}
    BY <1>3, <2>0 DEF ProxyGreets, ProxyConnects, Refuse, StartGet, StartSpawn, StartRelay, Start,
                SendExit, EndOfData, StartPut, Store, StoreFails, Stored, Cut, Hangup, Requested, InTurn
  <2>3. server' \notin {"sending", "done"} => \A s \in Streams : made[s] = 0
    BY <2>2 DEF Counts
  <2>. QED BY <1>1, <1>2, <2>1, <2>3
<1>4. CASE Answer
  <2>1. PICK ok \in {0, 1} : made' = [made EXCEPT !["out"] = IF ok = 1 THEN plan.size["out"] ELSE 0]
    BY <1>4 DEF Answer
  <2>2. server = "reading" /\ server' = "done"
    BY <1>4 DEF Answer, Requested, Hangup
  <2>3. \A s \in Streams : made[s] = 0
    BY <2>2 DEF Counts
  <2>4. \A s \in Streams : made'[s] = 0 \/ (s = "out" /\ made'[s] = plan.size["out"])
    BY <1>1, <2>1, <2>3
  <2>. QED BY <1>1, <1>2, <2>2, <2>3, <2>4
<1>5. ASSUME NEW t \in Streams, Produce(t)
      PROVE  \A s \in Streams : /\ made'[s] \in Nat
                                /\ made[s] <= made'[s] /\ made'[s] <= plan.size[s]
                                /\ server' \notin {"sending", "done"} => made'[s] = 0
  <2>1. made' = [made EXCEPT ![t] = made[t] + 1] /\ made[t] < plan.size[t] /\ server' = "sending"
    BY <1>5 DEF Produce
  <2>. QED BY <1>1, <2>1
<1>. QED BY <1>1, <1>2, <1>3, <1>4, <1>5 DEF Remote, Streams

LEMMA ClientSends ==
  ASSUME Client \/ Dial \/ Timer
  PROVE  UNCHANGED <<plan, server, made, stored, line>>
BY DEF Client, TakeGreeting, TakeReply, EmitLeftover, TakeStatus, TakeFrame, TakeBytes, WriteChunk,
       FinishUpload, Drain, SeeEnd, SeeError, Deliver, Dial, Timer, remotevars

(* What the consumer is about to get *)
LEMMA BytesTaken ==
  ASSUME TypeOK, InTurn, Counts, Bytes, Loose, TakeBytes
  PROVE  \A i \in 1 .. Len(inbox) : inbox[i].value \in 1 .. made["out"]
<1>1. /\ at \in {"file", "stream"} /\ plan.op \in EofDelimited /\ ~Headed /\ Ahead = 0
      /\ at = "stream" => plan.op \in {"read", "unix", "tcp"}
  BY DEF TakeBytes, InTurn, EofDelimited, Headed, Ahead, Handshake
<1>2. CASE Overtaking
  BY <1>2, <1>1 DEF Overtaking, Loose, TypeOK
<1>3. CASE ~Overtaking
  <2>1. PICK n \in Nat : After(n)
    BY <1>1, <1>3 DEF Bytes
  <2>2. /\ \A i \in DOMAIN Pipe : i > 0 => Pipe[i].value = n + i - 0
        /\ Len(Pipe) >= 0 => n + Len(Pipe) - 0 <= made["out"]
    BY <1>1, <2>1 DEF After
  <2>3. made["out"] \in Nat
    BY DEF TypeOK, Streams
  <2>4. ASSUME NEW i \in 1 .. Len(inbox) PROVE inbox[i].value \in 1 .. made["out"]
    <3>1. i \in 1 .. Len(Pipe) /\ inbox[i] = Pipe[i] /\ Len(Pipe) \in Nat /\ i \in DOMAIN Pipe
      BY HeardFacts
    <3>. QED BY <2>2, <2>3, <3>1
  <2>. QED BY <2>4
<1>. QED BY <1>2, <1>3

LEMMA FrameTaken ==
  ASSUME TypeOK, InTurn, Frames, TakeFrame, NEW s \in Streams, inbox[2].kind = s
  PROVE  /\ inbox[2].value = Len(got[s]) + 1
         /\ inbox[2].value <= made[s]
         /\ got' = [got EXCEPT ![s] = Append(got[s], inbox[2].value)]
<1>1. /\ at = "frames" /\ Parsed /\ plan.op = "spawn" /\ Ahead = 0
      /\ got' = [got EXCEPT ![s] = Append(got[s], inbox[2].value)]
  BY DEF TakeFrame, InTurn, Ahead, Headed, Handshake, Streams
<1>2. Pipe[2] = inbox[2] /\ 2 \in DOMAIN Pipe /\ DOMAIN Pipe = 1 .. Len(Pipe)
  BY <1>1, HeardFacts DEF Parsed
<1>3. inbox[2].value \in Nat
  <2>1. inbox[2] \in Unit
    BY <1>1 DEF TypeOK, Parsed
  <2>. QED BY <2>1 DEF Unit
<1>4. /\ Len(got[s]) < inbox[2].value /\ inbox[2].value <= made[s]
      /\ \A v \in Len(got[s]) + 1 .. inbox[2].value - 1 : \E k \in Nat : k < 1 /\ Frame(k, s, v)
  <2>1. PICK j \in Nat : j = 1
    OBVIOUS
  <2>2. Frame(j, s, inbox[2].value)
    BY <1>1, <1>2, <2>1 DEF Behind, Frame
  <2>3. Len(got[s]) < inbox[2].value /\ inbox[2].value <= made[s] /\ Before(j, s, inbox[2].value - 1)
    BY <1>1, <1>3, <2>2 DEF Frames
  <2>. QED BY <2>1, <2>3 DEF Before
<1>5. \A k \in Nat, v \in Nat : ~(k < 1 /\ Frame(k, s, v))
  BY <1>1 DEF Frame, Behind
<1>6. Len(got[s]) \in Nat /\ inbox[2].value \in Nat
  <2>1. inbox[2] \in Unit
    BY <1>1 DEF TypeOK, Parsed
  <2>. QED BY <2>1 DEF TypeOK, Unit
<1>7. ~(Len(got[s]) + 1 \in Len(got[s]) + 1 .. inbox[2].value - 1)
  <2>. SUFFICES ASSUME Len(got[s]) + 1 \in Len(got[s]) + 1 .. inbox[2].value - 1
                PROVE  FALSE
    OBVIOUS
  <2>1. PICK v \in Nat : v = Len(got[s]) + 1
    BY <1>6
  <2>2. PICK k \in Nat : k < 1 /\ Frame(k, s, v)
    BY <1>4, <2>1
  <2>. QED BY <1>5, <2>2
<1>8. inbox[2].value = Len(got[s]) + 1
  <2>1. PICK a \in Nat, b \in Nat : a = Len(got[s]) /\ b = inbox[2].value
    BY <1>6
  <2>2. a < b /\ ~(a + 1 \in a + 1 .. b - 1)
    BY <1>4, <1>7, <2>1
  <2>3. b = a + 1
    BY <2>2
  <2>. QED BY <2>1, <2>3
<1>. QED BY <1>1, <1>4, <1>8

LEMMA CountsRemote ==
  ASSUME TypeOK, InTurn, Counts, Remote \/ Cut PROVE Counts'
<1>1. /\ UNCHANGED <<plan, at, got, sent>>
      /\ \A s \in Streams : /\ made[s] \in Nat /\ made'[s] \in Nat
                            /\ made[s] <= made'[s] /\ made'[s] <= plan.size[s]
                            /\ server' \notin {"sending", "done"} => made'[s] = 0
  BY RemoteSends DEF clientvars
<1>2. ASSUME NEW s \in Streams, NEW i \in DOMAIN got[s] PROVE got[s][i] \in 1 .. made'[s]
  <2>1. got[s][i] \in 1 .. made[s]
    BY DEF Counts
  <2>. QED BY <1>1, <2>1
<1>3. plan.op = "put" /\ at = "status" => sent = plan.size["out"]
  BY DEF Counts
<1>. QED BY <1>1, <1>2, <1>3 DEF Counts

(* What is received was sent, and what was received stays *)
Carries(s) ==
  /\ Len(got[s]) \in Nat /\ Len(got'[s]) \in Nat /\ Len(got[s]) <= Len(got'[s])
  /\ \A i \in 1 .. Len(got[s]) : got'[s][i] = got[s][i]
  /\ \A i \in 1 .. Len(got'[s]) : got'[s][i] \in 1 .. made[s]

LEMMA ClientGets ==
  ASSUME TypeOK, InTurn, Counts, Bytes, Loose, Frames, Client \/ Dial \/ Timer
  PROVE  \A s \in Streams : Carries(s)
<1>1. /\ got \in [Streams -> Seq(Nat)] /\ made \in [Streams -> Nat] /\ "out" \in Streams
      /\ inbox \in Seq(Unit) /\ Len(inbox) \in Nat
      /\ \A s \in Streams : got[s] \in Seq(Nat) /\ Len(got[s]) \in Nat /\ DOMAIN got[s] = 1 .. Len(got[s])
  BY DEF TypeOK, Streams
<1>2. \A s \in Streams : \A i \in 1 .. Len(got[s]) : got[s][i] \in 1 .. made[s]
  BY <1>1 DEF Counts
<1>3. CASE got' = got
  BY <1>1, <1>2, <1>3 DEF Carries
<1>4. CASE TakeBytes
  <2>1. got' = [got EXCEPT !["out"] = got["out"] \o ValuesOf(inbox)]
    BY <1>4 DEF TakeBytes, ValuesOf
  <2>2. /\ ValuesOf(inbox) \in Seq(Nat) /\ Len(ValuesOf(inbox)) = Len(inbox)
        /\ \A i \in 1 .. Len(inbox) : ValuesOf(inbox)[i] \in 1 .. made["out"]
    BY <1>1, <1>4, BytesTaken, ValuesFacts
  <2>3. got'["out"] = got["out"] \o ValuesOf(inbox) /\ \A s \in Streams : s # "out" => got'[s] = got[s]
    BY <1>1, <2>1
  <2>4. /\ Len(got'["out"]) = Len(got["out"]) + Len(inbox)
        /\ \A i \in 1 .. Len(got["out"]) : got'["out"][i] = got["out"][i]
        /\ \A i \in 1 .. Len(inbox) : got'["out"][Len(got["out"]) + i] = ValuesOf(inbox)[i]
    <3>1. got["out"] \in Seq(Nat)
      BY <1>1
    <3>2. PICK g, v : g = got["out"] /\ v = ValuesOf(inbox)
      OBVIOUS
    <3>3. g \in Seq(Nat) /\ v \in Seq(Nat) /\ Len(v) = Len(inbox)
      BY <2>2, <3>1, <3>2
    <3>4. /\ Len(g \o v) = Len(g) + Len(v)
          /\ \A i \in 1 .. Len(g) : (g \o v)[i] = g[i]
          /\ \A i \in 1 .. Len(v) : (g \o v)[Len(g) + i] = v[i]
      BY <3>3
    <3>. QED BY <2>3, <3>2, <3>3, <3>4
  <2>5. ASSUME NEW i \in 1 .. Len(got'["out"]) PROVE got'["out"][i] \in 1 .. made["out"]
    <3>1. CASE i <= Len(got["out"])
      BY <1>1, <1>2, <2>4, <3>1
    <3>2. CASE i > Len(got["out"])
      <4>1. i - Len(got["out"]) \in 1 .. Len(inbox) /\ i = Len(got["out"]) + (i - Len(got["out"]))
        BY <1>1, <2>4, <3>2
      <4>. QED BY <2>2, <2>4, <4>1
    <3>. QED BY <1>1, <2>4, <3>1, <3>2
  <2>6. Carries("out")
    BY <1>1, <2>4, <2>5 DEF Carries
  <2>7. \A s \in Streams : s # "out" => Carries(s)
    BY <1>1, <1>2, <2>3 DEF Carries
  <2>. QED BY <2>6, <2>7
<1>5. ASSUME NEW t \in Streams, TakeFrame, inbox[2].kind = t
      PROVE  \A s \in Streams : Carries(s)
  <2>1. /\ inbox[2].value = Len(got[t]) + 1
        /\ inbox[2].value <= made[t]
        /\ got' = [got EXCEPT ![t] = Append(got[t], inbox[2].value)]
    BY <1>5, FrameTaken
  <2>2. got'[t] = Append(got[t], Len(got[t]) + 1) /\ \A s \in Streams : s # t => got'[s] = got[s]
    BY <1>1, <2>1
  <2>3. /\ Len(got'[t]) = Len(got[t]) + 1
        /\ \A i \in 1 .. Len(got[t]) : got'[t][i] = got[t][i]
        /\ got'[t][Len(got[t]) + 1] = Len(got[t]) + 1
    BY <1>1, <2>2
  <2>4. ASSUME NEW i \in 1 .. Len(got'[t]) PROVE got'[t][i] \in 1 .. made[t]
    <3>1. CASE i = Len(got[t]) + 1
      BY <1>1, <2>1, <2>3, <3>1
    <3>2. CASE i # Len(got[t]) + 1
      <4>1. i \in 1 .. Len(got[t])
        BY <1>1, <2>3, <3>2
      <4>. QED BY <1>2, <2>3, <4>1
    <3>. QED BY <3>1, <3>2
  <2>5. Carries(t)
    BY <1>1, <2>3, <2>4 DEF Carries
  <2>6. \A s \in Streams : s # t => Carries(s)
    BY <1>1, <1>2, <2>2 DEF Carries
  <2>. QED BY <2>5, <2>6
<1>6. TakeFrame => got' = got \/ inbox[2].kind \in Streams
  BY DEF TakeFrame
<1>7. Client \/ Dial \/ Timer => got' = got \/ TakeFrame \/ TakeBytes
  BY DEF Client, TakeGreeting, TakeReply, EmitLeftover, TakeStatus, WriteChunk,
         FinishUpload, Drain, SeeEnd, SeeError, Deliver, Dial, Timer
<1>. QED BY <1>3, <1>4, <1>5, <1>6, <1>7

LEMMA CountsClient ==
  ASSUME TypeOK, TypeOK', InTurn, Counts, Bytes, Loose, Frames, Client \/ Dial \/ Timer PROVE Counts'
<1>1. UNCHANGED <<plan, server, made>>
  BY ClientSends
<1>2. \A s \in Streams : \A i \in 1 .. Len(got'[s]) : got'[s][i] \in 1 .. made[s]
  BY ClientGets DEF Carries
<1>3. \A s \in Streams : DOMAIN got'[s] = 1 .. Len(got'[s])
  BY DEF TypeOK
<1>4. plan.op = "put" /\ at' = "status" => sent' = plan.size["out"]
  <2>1. CASE FinishUpload
    BY <2>1 DEF FinishUpload
  <2>2. CASE TakeReply
    BY <2>2 DEF TakeReply, AfterHandshake, Settle
  <2>3. ~FinishUpload /\ ~TakeReply /\ plan.op = "put" => (at' = "status" => at = "status" /\ sent' = sent)
    BY DEF Client, TakeGreeting, EmitLeftover, TakeStatus, TakeFrame, TakeBytes, WriteChunk, Granted,
           Drain, SeeEnd, SeeError, Deliver, Dial, Timer, Settle
  <2>. QED BY <2>1, <2>2, <2>3 DEF Counts
<1>5. /\ \A s \in Streams : made[s] <= plan.size[s]
      /\ server \notin {"sending", "done"} => \A s \in Streams : made[s] = 0
  BY DEF Counts
<1>. QED BY <1>1, <1>2, <1>3, <1>4, <1>5 DEF Counts

-----------------------------------------------------------------------------
(* What a status says *)

LEMMA DoneStays ==
  ASSUME TypeOK, InTurn, Counts, Done, Next PROVE Done'
<1>1. UNCHANGED plan
  BY DEF Next, Client, TakeGreeting, TakeReply, EmitLeftover, TakeStatus, TakeFrame, TakeBytes, WriteChunk,
         FinishUpload, Drain, SeeEnd, SeeError, Deliver, Dial, Timer, Remote, ProxyGreets, ProxyConnects,
         Refuse, Answer, StartGet, StartSpawn, StartRelay, Start, Produce, SendExit, EndOfData, StartPut,
         Store, StoreFails, Stored, Cut
<1>2. \A fault : MayHappen(fault)' <=> MayHappen(fault)
  BY <1>1 DEF MayHappen
<1>3. CASE Client \/ Dial \/ Timer
  BY <1>2, <1>3, ClientSends DEF Done
<1>4. CASE server = "done"
  <2>1. line # "up"
    BY <1>4 DEF InTurn
  <2>2. ~Remote /\ ~Cut
    BY <1>4, <2>1 DEF Remote, ProxyGreets, ProxyConnects, Refuse, Answer, StartGet, StartSpawn, StartRelay,
         Start, Requested, Produce, SendExit, EndOfData, StartPut, Store, StoreFails, Stored, Cut
  <2>. QED BY <1>3, <2>2 DEF Next
<1>5. CASE (Remote \/ Cut) /\ plan.op = "get" /\ server # "done"
  <2>1. \/ server = "sending" \/ made["out"] = plan.size["out"]
        \/ MayHappen("cut") \/ MayHappen("ioerror")
    BY <1>5 DEF Done
  <2>2. /\ made["out"] \in Nat /\ plan.size["out"] \in Nat /\ made'["out"] \in Nat
        /\ made["out"] <= made'["out"] /\ made'["out"] <= plan.size["out"]
    BY <1>5, PlanFacts, RemoteSends DEF Streams
  <2>3. CASE MayHappen("cut") \/ MayHappen("ioerror") \/ made["out"] = plan.size["out"]
    <3>1. made["out"] = plan.size["out"] => made'["out"] = plan.size["out"]
      BY <2>2
    <3>. QED BY <1>1, <1>2, <1>5, <2>3, <3>1 DEF Done
  <2>4. CASE server = "sending" /\ ~MayHappen("cut") /\ ~MayHappen("ioerror")
    <3>1. server' = "sending" \/ Drained \/ plan.op # "get"
      BY <1>5, <2>4 DEF Remote, ProxyGreets, ProxyConnects, Refuse, Answer, StartGet, StartSpawn, StartRelay,
         Start, Requested, Produce, SendExit, EndOfData, StartPut, Store, StoreFails, Stored, Cut, InTurn
    <3>2. Drained => made'["out"] = plan.size["out"]
      BY <2>2 DEF Drained
    <3>. QED BY <1>1, <1>5, <3>1, <3>2 DEF Done
  <2>. QED BY <2>1, <2>3, <2>4
<1>6. CASE plan.op \notin {"request", "probe", "put", "get"}
  BY <1>1, <1>6 DEF Done
<1>7. plan.op \in {"request", "probe", "put"} => server = "done"
  BY DEF Done
<1>. QED BY <1>3, <1>4, <1>5, <1>6, <1>7 DEF Next

LEMMA StatusRemote ==
  ASSUME TypeOK, TypeOK', InTurn, Counts, Status, Remote \/ Cut PROVE Status'
<1>0. UNCHANGED <<plan, at, outcome>>
  BY RemoteSends DEF clientvars
<1>1. Done => Done'
  BY DoneStays DEF Next
<1>2. at' = "file" => Done'
  BY <1>0, <1>1 DEF Status
<1>3. outcome' = "ok" => at' = "over" /\ (plan'.op \in {"request", "probe", "put"} => Done')
  BY <1>0, <1>1 DEF Status
<1>4. /\ Len(Pipe) \in Nat /\ Len(Pipe') \in Nat
      /\ Pipe = <<>> <=> Len(Pipe) = 0
      /\ DOMAIN Pipe = 1 .. Len(Pipe) /\ DOMAIN Pipe' = 1 .. Len(Pipe')
  BY EmptyFacts, PipeFacts, PipeNext DEF Under
<1>. SUFFICES ASSUME at \in {"status", "upload", "drain"}, NEW i \in 1 .. Len(Pipe'), i <= 2, Pipe'[i].value # 0
     PROVE  Done'
  BY <1>0, <1>2, <1>3, <1>4 DEF Status
<1>5. ASSUME i <= Len(Pipe), Pipe'[i] = Pipe[i] PROVE Done'
  BY <1>1, <1>4, <1>5 DEF Status
<1>6. ASSUME NEW v \in {0, 1}, Pipe = <<>>, Adds(Message("status", v)) PROVE v = 1
  <2>1. /\ Len(Message("status", v)) = 2
        /\ Message("status", v)[1].value = v /\ Message("status", v)[2].value = v
    <3>1. "status" \in Kinds /\ v \in Nat
      BY DEF Kinds
    <3>. QED BY <3>1, MessageFacts
  <2>2. i \in 1 .. 2 /\ Pipe'[i] = Message("status", v)[i]
    <3>1. Len(Pipe) = 0 /\ \A k \in 1 .. 2 : Pipe'[0 + k] = Message("status", v)[k]
      BY <1>4, <1>6, <2>1 DEF Adds
    <3>2. i \in 1 .. 2 /\ 0 + i = i
      BY <1>4
    <3>. QED BY <3>1, <3>2
  <2>3. i = 1 \/ i = 2
    BY <2>2
  <2>. QED BY <2>1, <2>2, <2>3
<1>7. server \in {"reading", "storing"} => Pipe = <<>>
  BY DEF InTurn
<1>8. ~ProxyGreets /\ ~ProxyConnects
  BY DEF ProxyGreets, ProxyConnects, InTurn
<1>9. CASE Refuse
  <2>1. Pipe = <<>>
    BY <1>7, <1>9 DEF Refuse, Requested
  <2>2. Pipe' = Pipe \/ Adds(Message("status", 0))
    BY <1>9, RemoteMoves
  <2>. QED BY <1>4, <1>6, <2>1, <2>2
<1>10. CASE Answer
  <2>1. Pipe = <<>> /\ plan.op \in {"request", "probe"} /\ server' = "done"
    BY <1>7, <1>10 DEF Answer, Requested, Hangup
  <2>2. PICK ok \in {0, 1} :
          /\ Adds(Message("status", ok))
          /\ made' = [made EXCEPT !["out"] = IF ok = 1 THEN plan.size["out"] ELSE 0]
    BY <1>10, RemoteMoves
  <2>3. ok = 1 /\ made'["out"] = plan.size["out"]
    <3>1. ok = 1
      BY <1>6, <2>1, <2>2
    <3>2. made \in [Streams -> Nat] /\ "out" \in Streams
      BY DEF TypeOK, Streams
    <3>. QED BY <2>2, <3>1, <3>2
  <2>. QED BY <1>0, <2>1, <2>3 DEF Done
<1>11. CASE StartGet \/ StartSpawn \/ StartRelay
  <2>1. server' = "sending" /\ plan.op \in {"get", "read", "spawn", "unix"}
    BY <1>11 DEF StartGet, StartSpawn, StartRelay, Start
  <2>. QED BY <1>0, <2>1 DEF Done
<1>12. CASE Stored
  <2>1. /\ server = "storing" /\ stored = sent /\ at = "status" /\ server' = "done"
        /\ stored' = stored \/ MayHappen("close")
    BY <1>12 DEF Stored, Hangup
  <2>2. plan.op = "put" /\ sent = plan.size["out"]
    BY <2>1 DEF InTurn, Counts
  <2>3. MayHappen("close")' <=> MayHappen("close")
    BY <1>0 DEF MayHappen
  <2>. QED BY <1>0, <2>1, <2>2, <2>3 DEF Done
<1>16. CASE StoreFails
  <2>1. Pipe = <<>> /\ Adds(Message("status", 0))
    BY <1>7, <1>16, RemoteMoves DEF StoreFails
  <2>. QED BY <1>6, <2>1
<1>13. CASE (\E s \in Streams : Produce(s)) \/ SendExit \/ EndOfData
  <2>1. /\ server = "sending"
        /\ \/ server' = "sending" \/ plan.op # "get" \/ (Drained /\ made' = made)
           \/ MayHappen("ioerror")'
    <3>1. MayHappen("ioerror")' <=> MayHappen("ioerror")
      BY <1>0 DEF MayHappen
    <3>. QED BY <1>13, <3>1 DEF Produce, SendExit, EndOfData
  <2>2. plan.op \in EofDelimited \cup {"spawn"}
    BY <2>1 DEF InTurn
  <2>3. plan.op \in {"get", "read", "unix", "tcp", "spawn"}
    BY <2>2 DEF EofDelimited
  <2>. QED BY <1>0, <2>1, <2>3 DEF Done, Drained
<1>14. CASE StartPut \/ Store
  <2>1. Pipe' = Pipe
    BY <1>14, RemoteMoves
  <2>. QED BY <1>4, <1>5, <2>1
<1>15. CASE Cut
  <2>1. Shortens
    BY <1>15, RemoteMoves
  <2>. QED BY <1>4, <1>5, <2>1 DEF Shortens
<1>. QED BY <1>8, <1>9, <1>10, <1>11, <1>12, <1>13, <1>14, <1>15, <1>16 DEF Remote, Streams

LEMMA StatusClient ==
  ASSUME TypeOK, TypeOK', InTurn, InTurn', Status, Client \/ Dial \/ Timer PROVE Status'
<1>0. UNCHANGED <<plan, server, made, stored, line>>
  BY ClientSends
<1>1. Done' <=> Done
  <2>1. MayHappen("cut")' <=> MayHappen("cut")
    BY <1>0 DEF MayHappen
  <2>. QED BY <1>0, <2>1 DEF Done
<1>2. /\ Len(Pipe) \in Nat /\ Len(Pipe') \in Nat
      /\ DOMAIN Pipe = 1 .. Len(Pipe) /\ DOMAIN Pipe' = 1 .. Len(Pipe')
  BY EmptyFacts, PipeFacts, PipeNext DEF Under
<1>3. TakeStatus => /\ Pipe[2] = inbox[2] /\ 2 \in DOMAIN Pipe /\ at = "status"
  BY HeardFacts DEF TakeStatus, Parsed
<1>4. TakeStatus /\ inbox[2].value # 0 => Done
  <2>. SUFFICES ASSUME TakeStatus, inbox[2].value # 0 PROVE Done
    OBVIOUS
  <2>1. 2 \in DOMAIN Pipe /\ 2 <= 2 /\ Pipe[2].value # 0 /\ at \in {"status", "upload", "drain"}
    BY <1>3
  <2>. QED BY <2>1 DEF Status
<1>5. at' = "file" => Done
  <2>1. at' = "file" => at = "file" \/ (TakeStatus /\ inbox[2].value = 1)
    BY DEF Client, TakeGreeting, TakeReply, EmitLeftover, TakeStatus, TakeFrame, TakeBytes, WriteChunk,
           FinishUpload, Drain, SeeEnd, SeeError, Deliver, Dial, Timer, AfterHandshake, Settle
  <2>. QED BY <1>4, <2>1 DEF Status
<1>6. outcome' = "ok" => at' = "over"
  <2>1. outcome = "ok" => at = "over"
    BY DEF Status
  <2>2. outcome' = "ok" => (outcome = "ok" /\ at' = at) \/ at' = "over"
    <3>1. CASE TakeStatus
      BY <3>1, <2>1 DEF TakeStatus
    <3>2. CASE outcome' = outcome /\ ~TakeStatus
      BY <2>1, <3>2 DEF Client, TakeGreeting, TakeReply, EmitLeftover, TakeFrame, TakeBytes, WriteChunk,
           FinishUpload, Drain, SeeEnd, SeeError, Deliver, Dial, Timer, Settle, Event
    <3>3. CASE outcome' # outcome /\ ~TakeStatus
      BY <3>3 DEF Client, TakeGreeting, TakeReply, EmitLeftover, TakeFrame, TakeBytes, WriteChunk,
           FinishUpload, Drain, SeeEnd, SeeError, Deliver, Dial, Timer, Settle
    <3>. QED BY <3>1, <3>2, <3>3
  <2>. QED BY <2>1, <2>2
<1>7. outcome' = "ok" /\ plan.op \in {"request", "probe", "put"} => Done
  <2>1. outcome' = "ok" => \/ outcome = "ok"
                           \/ TakeStatus /\ inbox[2].value # 0
                           \/ at \in {"frames", "file", "stream"}
    <3>1. CASE TakeStatus
      BY <3>1 DEF TakeStatus
    <3>2. CASE SeeError \/ SeeEnd
      BY <3>2 DEF SeeError, SeeEnd, Settle
    <3>3. CASE ~TakeStatus /\ ~SeeError /\ ~SeeEnd
      BY <3>3 DEF Client, TakeGreeting, TakeReply, EmitLeftover, TakeFrame, TakeBytes, WriteChunk,
           FinishUpload, Drain, Deliver, Dial, Timer, Settle
    <3>. QED BY <3>1, <3>2, <3>3
  <2>2. at \in {"frames", "file", "stream"} => plan.op \notin {"request", "probe", "put"}
    BY DEF InTurn
  <2>. QED BY <1>4, <2>1, <2>2 DEF Status
<1>8. ASSUME at' \in {"status", "upload", "drain"}, NEW i \in DOMAIN Pipe', i <= 2, Pipe'[i].value # 0
      PROVE  Done
  <2>0. i \in 1 .. Len(Pipe') /\ i \in Nat
    BY <1>2
  <2>1. CASE at \in {"status", "upload", "drain"}
    <3>1. PICK k \in Nat : Shift(k) /\ (k = 0 \/ at \in {"upload", "drain"})
      <4>1. ~TakeGreeting /\ ~TakeReply /\ ~TakeFrame /\ ~TakeBytes
        BY <2>1 DEF TakeGreeting, TakeReply, TakeFrame, TakeBytes
      <4>2. ~TakeStatus /\ ~Timer /\ ~SeeEnd /\ ~SeeError
        BY <1>8, PlanFacts DEF TakeStatus, Granted, Timer, SeeEnd, SeeError, Settle, Ops
      <4>3. leftover = <<>> /\ at' # "over"
        BY <1>8, <2>1 DEF InTurn
      <4>4. WriteChunk \/ FinishUpload \/ Drain \/ Dial \/ EmitLeftover => Shift(0)
        BY <4>3, ClientMoves
      <4>5. ASSUME NEW n \in 1 .. Len(down), Deliver(n) PROVE \E k \in Nat : Shift(k) /\ (k = 0 \/ at \in {"upload", "drain"})
        <5>1. n \in Nat
          BY DEF TypeOK
        <5>. QED BY <4>3, <4>5, <5>1, ClientMoves
      <4>6. 0 \in Nat
        OBVIOUS
      <4>. QED BY <4>1, <4>2, <4>4, <4>5, <4>6 DEF Client
    <3>2. i + k \in DOMAIN Pipe /\ Pipe'[i] = Pipe[i + k]
      <4>1. Len(Pipe') = Len(Pipe) - k /\ Pipe'[i] = Pipe[i + k]
        BY <2>0, <3>1 DEF Shift
      <4>2. i + k \in 1 .. Len(Pipe)
        BY <1>2, <2>0, <3>1, <4>1
      <4>. QED BY <1>2, <4>1, <4>2
    <3>3. i + k <= 2
      <4>1. CASE k = 0
        BY <1>8, <2>0, <4>1
      <4>2. CASE at \in {"upload", "drain"}
        <5>1. Len(Pipe) <= 2
          BY <4>2 DEF InTurn
        <5>. QED BY <1>2, <3>2, <5>1
      <4>. QED BY <3>1, <4>1, <4>2
    <3>. QED BY <1>8, <2>1, <3>2, <3>3 DEF Status
  <2>2. CASE at \notin {"status", "upload", "drain"}
    <3>1. TakeReply /\ at' = AfterHandshake
      BY <1>8, <2>2 DEF Client, TakeGreeting, TakeReply, EmitLeftover, TakeStatus, TakeFrame, TakeBytes, WriteChunk,
           FinishUpload, Drain, SeeEnd, SeeError, Deliver, Dial, Timer, Settle
    <3>2. at = "reply" /\ plan.op # "tcp" /\ Parsed
      BY <1>8, <3>1 DEF AfterHandshake, TakeReply
    <3>3. Len(Pipe) = 2
      BY <3>2, HeardFacts DEF InTurn, Parsed
    <3>4. Len(Pipe') = Len(Pipe) - 2
      BY <1>8, <3>1, ClientMoves DEF Shift
    <3>. QED BY <2>0, <3>3, <3>4
  <2>. QED BY <2>1, <2>2
<1>. QED BY <1>0, <1>1, <1>5, <1>6, <1>7, <1>8 DEF Status

-----------------------------------------------------------------------------
(* The bytes of a body *)

LEMMA LengthFacts ==
  ASSUME TypeOK, TypeOK'
  PROVE  /\ Len(Pipe) \in Nat /\ Len(Pipe') \in Nat
         /\ DOMAIN Pipe = 1 .. Len(Pipe) /\ DOMAIN Pipe' = 1 .. Len(Pipe')
         /\ Ahead \in Nat /\ Ahead' \in Nat
         /\ made["out"] \in Nat /\ made'["out"] \in Nat
BY EmptyFacts, PipeFacts, PipeNext DEF Under, Ahead, TypeOK, Streams

(* A header comes, or is all that there was *)
LEMMA AfterHeader ==
  ASSUME TypeOK, TypeOK', Headed', got'["out"] = <<>>,
         \/ Len(Pipe') = 0 /\ server' # "sending"
         \/ Len(Pipe') = 2 /\ made'["out"] = 0
  PROVE  After(0)'
<1>1. Ahead' = 2 /\ DOMAIN Pipe' = 1 .. Len(Pipe') /\ Len(got'["out"]) = 0 /\ DOMAIN got'["out"] = {} /\ made'["out"] \in Nat
  BY LengthFacts DEF Ahead
<1>2. \A i \in DOMAIN Pipe' : ~(i > 2)
  BY <1>1
<1>3. /\ Len(Pipe') >= 2 => 0 + Len(Pipe') - 2 <= made'["out"]
      /\ server' = "sending" \/ (~MayHappen("cut")' /\ Len(Pipe') >= 2) => 0 + Len(Pipe') - 2 = made'["out"]
  <2>1. CASE Len(Pipe') = 0 /\ server' # "sending"
    BY <2>1
  <2>2. CASE Len(Pipe') = 2 /\ made'["out"] = 0
    BY <2>2
  <2>. QED BY <2>1, <2>2
<1>. QED BY <1>1, <1>2, <1>3 DEF After

(* The client takes k units: a header, bytes that the consumer gets, or both *)
LEMMA AfterTake ==
  ASSUME TypeOK, TypeOK', NEW n \in Nat, After(n), NEW k \in Nat, Shift(k), NEW m \in Nat,
         UNCHANGED <<plan, made, server>>,
         k >= Ahead - Ahead', m = n + k - (Ahead - Ahead'),
         \A i \in DOMAIN got'["out"] : got'["out"][i] = m - Len(got'["out"]) + i,
         Headed' => m = 0 /\ got'["out"] = <<>>,
         plan.op \notin Dropping => m = Len(got'["out"])
  PROVE  After(m)'
<1>1. /\ Len(Pipe) \in Nat /\ Len(Pipe') \in Nat
      /\ DOMAIN Pipe = 1 .. Len(Pipe) /\ DOMAIN Pipe' = 1 .. Len(Pipe')
      /\ Ahead \in Nat /\ Ahead' \in Nat /\ made["out"] \in Nat
  BY LengthFacts
<1>2. /\ Len(Pipe') = Len(Pipe) - k
      /\ \A i \in 1 .. Len(Pipe') : Pipe'[i] = Pipe[i + k]
  BY DEF Shift
<1>3. \A i \in 1 .. Len(Pipe) : i > Ahead => Pipe[i].value = n + i - Ahead
  BY <1>1 DEF After
<1>4. ASSUME NEW i \in 1 .. Len(Pipe'), i > Ahead' PROVE Pipe'[i].value = m + i - Ahead'
  <2>1. i + k \in 1 .. Len(Pipe) /\ i + k > Ahead
    <3>1. PICK a \in Nat, b \in Nat, p \in Nat, q \in Nat :
            a = Ahead /\ b = Ahead' /\ p = Len(Pipe) /\ q = Len(Pipe')
      BY <1>1
    <3>2. i \in 1 .. q /\ q = p - k /\ i > b /\ k >= a - b
      BY <1>2, <1>4, <3>1
    <3>3. i + k \in 1 .. p /\ i + k > a
      BY <3>2
    <3>. QED BY <3>1, <3>3
  <2>2. n + (i + k) - Ahead = m + i - Ahead'
    <3>1. PICK a \in Nat, b \in Nat : a = Ahead /\ b = Ahead'
      BY <1>1
    <3>2. m = n + k - (a - b)
      BY <3>1
    <3>3. n + (i + k) - a = m + i - b
      <4>1. i \in Nat
        BY <1>1
      <4>. QED BY <3>2, <4>1
    <3>. QED BY <3>1, <3>3
  <2>. QED BY <1>2, <1>3, <2>1, <2>2
<1>5. /\ Len(Pipe) >= Ahead => n + Len(Pipe) - Ahead <= made["out"]
      /\ server = "sending" \/ (~MayHappen("cut") /\ Len(Pipe) >= Ahead) =>
           n + Len(Pipe) - Ahead = made["out"]
  BY DEF After
<1>6. m + Len(Pipe') - Ahead' = n + Len(Pipe) - Ahead /\ (Len(Pipe') >= Ahead' => Len(Pipe) >= Ahead)
  <2>1. PICK a \in Nat, b \in Nat, p \in Nat, q \in Nat : a = Ahead /\ b = Ahead' /\ p = Len(Pipe) /\ q = Len(Pipe')
    BY <1>1
  <2>2. m = n + k - (a - b) /\ q = p - k /\ k >= a - b
    BY <1>2, <2>1
  <2>3. m + q - b = n + p - a /\ (q >= b => p >= a)
    BY <2>2
  <2>. QED BY <2>1, <2>3
<1>7. MayHappen("cut")' <=> MayHappen("cut")
  BY DEF MayHappen
<1>8. /\ Len(Pipe') >= Ahead' => m + Len(Pipe') - Ahead' <= made'["out"]
      /\ server' = "sending" \/ (~MayHappen("cut")' /\ Len(Pipe') >= Ahead') =>
           m + Len(Pipe') - Ahead' = made'["out"]
  BY <1>5, <1>6, <1>7
<1>. QED BY <1>1, <1>4, <1>8 DEF After

(* A byte is sent *)
LEMMA AfterByte ==
  ASSUME TypeOK, TypeOK', NEW n \in Nat, After(n), Adds(Byte(made["out"] + 1)),
         UNCHANGED <<plan, got, at>>, made'["out"] = made["out"] + 1,
         server = "sending"
  PROVE  After(n)'
<1>1. /\ Len(Pipe) \in Nat /\ Len(Pipe') \in Nat
      /\ DOMAIN Pipe = 1 .. Len(Pipe) /\ DOMAIN Pipe' = 1 .. Len(Pipe')
      /\ Ahead \in Nat /\ made["out"] \in Nat
  BY LengthFacts
<1>2. Ahead' = Ahead /\ (Headed' <=> Headed)
  BY DEF Ahead, Headed
<1>3. Len(Byte(made["out"] + 1)) = 1 /\ Byte(made["out"] + 1)[1].value = made["out"] + 1
  BY <1>1, ByteFacts
<1>4. /\ Len(Pipe') = Len(Pipe) + 1
      /\ \A i \in 1 .. Len(Pipe) : Pipe'[i] = Pipe[i]
      /\ Pipe'[Len(Pipe) + 1].value = made["out"] + 1
  BY <1>3 DEF Adds
<1>5. /\ \A i \in 1 .. Len(Pipe) : i > Ahead => Pipe[i].value = n + i - Ahead
      /\ n + Len(Pipe) - Ahead = made["out"]
  BY <1>1 DEF After
<1>6. ASSUME NEW i \in 1 .. Len(Pipe'), i > Ahead PROVE Pipe'[i].value = n + i - Ahead
  <2>1. CASE i = Len(Pipe) + 1
    BY <1>1, <1>4, <1>5, <2>1
  <2>2. CASE i # Len(Pipe) + 1
    <3>1. i \in 1 .. Len(Pipe)
      BY <1>1, <1>4, <2>2
    <3>. QED BY <1>4, <1>5, <1>6, <3>1
  <2>. QED BY <2>1, <2>2
<1>7. n + Len(Pipe') - Ahead = made'["out"]
  BY <1>1, <1>4, <1>5
<1>8. n + Len(Pipe') - Ahead <= made'["out"]
  BY <1>1, <1>7
<1>9. /\ \A i \in DOMAIN got["out"] : got["out"][i] = n - Len(got["out"]) + i
      /\ Headed => n = 0 /\ got["out"] = <<>>
      /\ plan.op \notin Dropping => n = Len(got["out"])
  BY DEF After
<1>. QED BY <1>1, <1>2, <1>6, <1>7, <1>8, <1>9 DEF After

(* The connection ends, with all that was sent or, if it is cut, less *)
LEMMA AfterEnd ==
  ASSUME TypeOK, TypeOK', NEW n \in Nat, After(n), UNCHANGED <<plan, got, at, made>>,
         server' # "sending",
         \/ Pipe' = Pipe /\ server = "sending"
         \/ Shortens /\ MayHappen("cut")
  PROVE  After(n)'
<1>1. /\ Len(Pipe) \in Nat /\ Len(Pipe') \in Nat
      /\ DOMAIN Pipe = 1 .. Len(Pipe) /\ DOMAIN Pipe' = 1 .. Len(Pipe')
      /\ Ahead \in Nat /\ made["out"] \in Nat
  BY LengthFacts
<1>2. Ahead' = Ahead /\ (Headed' <=> Headed) /\ (MayHappen("cut")' <=> MayHappen("cut"))
  BY DEF Ahead, Headed, MayHappen
<1>3. /\ Len(Pipe') <= Len(Pipe)
      /\ \A i \in 1 .. Len(Pipe') : Pipe'[i] = Pipe[i] /\ i \in 1 .. Len(Pipe)
  BY <1>1 DEF Shortens
<1>4. /\ \A i \in 1 .. Len(Pipe) : i > Ahead => Pipe[i].value = n + i - Ahead
      /\ \A i \in DOMAIN got["out"] : got["out"][i] = n - Len(got["out"]) + i
      /\ Headed => n = 0 /\ got["out"] = <<>>
      /\ plan.op \notin Dropping => n = Len(got["out"])
      /\ Len(Pipe) >= Ahead => n + Len(Pipe) - Ahead <= made["out"]
      /\ server = "sending" => n + Len(Pipe) - Ahead = made["out"]
  BY <1>1 DEF After
<1>5. Len(Pipe') >= Ahead => n + Len(Pipe') - Ahead <= made["out"]
  BY <1>1, <1>3, <1>4
<1>6. ~MayHappen("cut") => n + Len(Pipe') - Ahead = made["out"]
  BY <1>4
<1>7. \A i \in 1 .. Len(Pipe') : i > Ahead => Pipe'[i].value = n + i - Ahead
  BY <1>3, <1>4
<1>. QED BY <1>1, <1>2, <1>4, <1>5, <1>6, <1>7 DEF After

(* A chunk that the consumer gets carries on from what it has *)
LEMMA ChunkFacts ==
  ASSUME TypeOK, NEW n \in Nat, After(n), Ahead = 0, TakeBytes, NEW m \in Nat, m = n + Len(inbox)
  PROVE  /\ Len(got'["out"]) = Len(got["out"]) + Len(inbox)
         /\ \A i \in DOMAIN got'["out"] : got'["out"][i] = m - Len(got'["out"]) + i
<1>1. /\ got \in [Streams -> Seq(Nat)] /\ got["out"] \in Seq(Nat) /\ "out" \in Streams /\ inbox \in Seq(Unit)
      /\ Len(got["out"]) \in Nat /\ Len(inbox) \in Nat
  BY DEF TypeOK, Streams
<1>2. PICK g, v : g = got["out"] /\ v = ValuesOf(inbox)
  OBVIOUS
<1>3. got'["out"] = g \o v
  BY <1>1, <1>2 DEF TakeBytes, ValuesOf
<1>4. /\ g \in Seq(Nat) /\ v \in Seq(Nat) /\ Len(v) = Len(inbox)
      /\ \A i \in 1 .. Len(v) : v[i] = inbox[i].value
  BY <1>1, <1>2, ValuesFacts
<1>5. /\ Len(g \o v) = Len(g) + Len(v) /\ Len(g) \in Nat /\ Len(v) \in Nat
      /\ DOMAIN g = 1 .. Len(g) /\ DOMAIN (g \o v) = 1 .. Len(g \o v)
      /\ \A i \in 1 .. Len(g) : (g \o v)[i] = g[i]
      /\ \A i \in 1 .. Len(v) : (g \o v)[Len(g) + i] = v[i]
  <2>1. g \in Seq(Nat) /\ v \in Seq(Nat)
    BY <1>4
  <2>. QED BY <2>1, NatConcatFacts
<1>6. \A i \in 1 .. Len(g) : g[i] = n - Len(g) + i
  <2>1. \A i \in DOMAIN got["out"] : got["out"][i] = n - Len(got["out"]) + i
    BY DEF After
  <2>. QED BY <1>2, <1>5, <2>1
<1>7. ASSUME NEW i \in 1 .. Len(v) PROVE v[i] = n + i
  <2>1. i \in 1 .. Len(Pipe) /\ Pipe[i] = inbox[i] /\ DOMAIN Pipe = 1 .. Len(Pipe) /\ i \in Nat
    BY <1>1, <1>4, HeardFacts
  <2>2. Pipe[i].value = n + i - 0
    <3>1. i > 0
      BY <1>5
    <3>. QED BY <2>1, <3>1 DEF After
  <2>. QED BY <1>4, <2>1, <2>2
<1>8. ASSUME NEW i \in 1 .. Len(g \o v) PROVE (g \o v)[i] = m - Len(g \o v) + i
  <2>1. PICK lg \in Nat, lv \in Nat : lg = Len(g) /\ lv = Len(v)
    BY <1>5
  <2>2. i \in 1 .. lg + lv /\ i \in Nat
    BY <1>5, <2>1
  <2>3. m - Len(g \o v) + i = n - lg + i
    <3>1. m = n + lv
      BY <1>4, <2>1
    <3>2. m - (lg + lv) + i = n - lg + i
      BY <2>2, <3>1
    <3>. QED BY <1>5, <2>1, <3>2
  <2>4. CASE i <= lg
    <3>1. i \in 1 .. Len(g)
      BY <2>1, <2>2, <2>4
    <3>2. (g \o v)[i] = n - Len(g) + i
      BY <1>5, <1>6, <3>1
    <3>. QED BY <2>1, <2>3, <3>2
  <2>5. CASE i > lg
    <3>1. PICK j \in 1 .. lv : i = lg + j
      <4>1. i - lg \in 1 .. lv /\ i = lg + (i - lg)
        BY <2>2, <2>5
      <4>. QED BY <4>1
    <3>2. (g \o v)[i] = n + j
      BY <1>5, <1>7, <2>1, <3>1
    <3>3. n + j = n - lg + i
      <4>1. j \in Nat
        OBVIOUS
      <4>. QED BY <3>1, <4>1
    <3>. QED BY <2>3, <3>2, <3>3
  <2>. QED BY <2>2, <2>4, <2>5
<1>. QED BY <1>2, <1>3, <1>4, <1>5, <1>8

LEMMA BytesClient ==
  ASSUME TypeOK, TypeOK', InTurn, Counts, Bytes, Client \/ Dial \/ Timer PROVE Bytes'
<1>0. UNCHANGED <<plan, server, made>> /\ (MayHappen("burst")' <=> MayHappen("burst"))
  BY ClientSends DEF MayHappen
<1>. SUFFICES ASSUME plan.op \in EofDelimited, at' \notin {"dial", "over"}, ~Overtaking'
     PROVE  \E n \in Nat : After(n)'
  BY <1>0 DEF Bytes, Overtaking, EofDelimited
<1>1. /\ Len(Pipe) \in Nat /\ Len(Pipe') \in Nat
      /\ Pipe = <<>> <=> Len(Pipe) = 0
      /\ Pipe' = <<>> <=> Len(Pipe') = 0
  BY EmptyFacts
<1>2. plan.op \notin {"put", "spawn", "request", "probe"} /\ plan.op \in {"get", "read", "unix", "tcp"}
  BY DEF EofDelimited
<1>3. at # "over" /\ ~Overtaking
  BY <1>0, <1>2 DEF Client, TakeGreeting, TakeReply, EmitLeftover, TakeStatus, TakeFrame, TakeBytes, WriteChunk,
         FinishUpload, Drain, SeeEnd, SeeError, Deliver, Event, Dial, Timer, Settle, Overtaking
<1>4. at # "dial" => \E n \in Nat : After(n)
  BY <1>3 DEF Bytes
<1>5. 0 \in Nat /\ 2 \in Nat
  OBVIOUS
<1>6. CASE Dial
  <2>1. at = "dial" /\ at' = "greeting" /\ got' = got /\ Pipe' = Pipe
    BY <1>6, ClientMoves DEF Dial, Settle
  <2>2. Pipe = <<>> /\ server \in {"idle", "done"} /\ line = "up" /\ server # "done"
    BY <2>1 DEF InTurn
  <2>3. got["out"] = <<>>
    <3>1. made["out"] = 0 /\ "out" \in Streams
      BY <2>2 DEF Counts, Streams
    <3>2. \A i \in DOMAIN got["out"] : got["out"][i] \in 1 .. 0
      BY <3>1 DEF Counts
    <3>3. got["out"] \in Seq(Nat)
      BY <3>1 DEF TypeOK
    <3>4. DOMAIN got["out"] = 1 .. Len(got["out"]) /\ Len(got["out"]) \in Nat /\ (Len(got["out"]) = 0 => got["out"] = <<>>)
      BY <3>3
    <3>5. 1 \notin DOMAIN got["out"]
      BY <3>2
    <3>. QED BY <3>4, <3>5
  <2>4. Headed' /\ got'["out"] = <<>> /\ Len(Pipe') = 0 /\ server' # "sending"
    BY <1>0, <1>1, <2>1, <2>2, <2>3 DEF Headed, Handshake
  <2>. QED BY <1>5, <2>4, AfterHeader
<1>7. CASE TakeGreeting \/ (TakeReply /\ plan.op # "tcp")
  <2>1. /\ Parsed /\ got' = got /\ at \in Handshake
        /\ \/ at = "greeting" /\ at' = "reply"
           \/ at = "reply" /\ at' = "status" /\ plan.op # "tcp"
    BY <1>2, <1>7 DEF TakeGreeting, TakeReply, Settle, AfterHandshake, Handshake
  <2>2. Len(Pipe) <= 2 /\ server # "sending"
    BY <2>1 DEF InTurn
  <2>3. Len(Pipe') = Len(Pipe) - 2
    BY <1>7, ClientMoves DEF Shift
  <2>4. Headed /\ Headed' /\ at # "dial"
    BY <2>1 DEF Headed, Handshake
  <2>5. got["out"] = <<>>
    BY <1>4, <2>4 DEF After
  <2>6. got'["out"] = <<>> /\ Len(Pipe') = 0 /\ server' # "sending"
    BY <1>0, <1>1, <2>1, <2>2, <2>3, <2>5
  <2>. QED BY <1>5, <2>4, <2>6, AfterHeader
<1>8. CASE (TakeReply /\ plan.op = "tcp") \/ TakeStatus
  <2>1. /\ Parsed /\ got' = got
        /\ \/ at = "reply" /\ at' = "stream" /\ TakeReply /\ plan.op = "tcp"
           \/ at = "status" /\ at' = Granted /\ TakeStatus
    BY <1>8 DEF TakeReply, TakeStatus, Settle, AfterHandshake
  <2>2. at' \in {"file", "stream"}
    BY <1>2, <2>1 DEF Granted
  <2>3. Headed /\ ~Headed' /\ Ahead = 2 /\ Ahead' = 0 /\ at # "dial"
    BY <2>1, <2>2 DEF Headed, Ahead, Handshake
  <2>4. PICK n \in Nat : After(n)
    BY <1>4, <2>3
  <2>5. n = 0 /\ got["out"] = <<>>
    BY <2>3, <2>4 DEF After
  <2>6. PICK k \in Nat : Shift(k) /\ k >= 2 /\ (plan.op \notin Dropping => k = 2)
    <3>1. CASE plan.op \in Dropping
      <4>1. TakeStatus /\ Len(inbox) >= 2 /\ Len(inbox) \in Nat
        BY <2>1, <3>1 DEF Dropping, Parsed, TypeOK
      <4>. QED BY <3>1, <4>1, ClientMoves
    <3>2. CASE plan.op \notin Dropping
      BY <1>5, <2>1, <3>2, ClientMoves
    <3>. QED BY <3>1, <3>2
  <2>7. PICK m \in Nat : m = k - 2
    BY <2>6
  <2>8. k >= Ahead - Ahead' /\ m = n + k - (Ahead - Ahead')
    <3>1. k >= 2 - 0 /\ m = 0 + k - (2 - 0)
      BY <2>6, <2>7
    <3>. QED BY <2>3, <2>5, <3>1
  <2>9. /\ \A i \in DOMAIN got'["out"] : got'["out"][i] = m - Len(got'["out"]) + i
        /\ plan.op \notin Dropping => m = Len(got'["out"])
    BY <2>1, <2>5, <2>6, <2>7
  <2>. QED BY <1>0, <2>3, <2>4, <2>6, <2>8, <2>9, AfterTake
<1>9. ASSUME Shift(0), UNCHANGED <<at, got>>, at # "dial" PROVE \E n \in Nat : After(n)'
  <2>1. PICK n \in Nat : After(n)
    BY <1>4, <1>9
  <2>2. Ahead' = Ahead /\ (Headed' <=> Headed) /\ Ahead \in Nat
    BY <1>9 DEF Ahead, Headed
  <2>3. /\ \A i \in DOMAIN got'["out"] : got'["out"][i] = n - Len(got'["out"]) + i
        /\ Headed' => n = 0 /\ got'["out"] = <<>>
        /\ plan.op \notin Dropping => n = Len(got'["out"])
    BY <1>9, <2>1, <2>2 DEF After
  <2>4. 0 >= Ahead - Ahead' /\ n = n + 0 - (Ahead - Ahead')
    <3>1. PICK a \in Nat : a = Ahead /\ a = Ahead'
      BY <2>2
    <3>2. 0 >= a - a /\ n = n + 0 - (a - a)
      OBVIOUS
    <3>. QED BY <3>1, <3>2
  <2>. QED BY <1>0, <1>5, <1>9, <2>1, <2>3, <2>4, AfterTake
<1>10. leftover # <<>> => plan.op = "tcp" /\ at = "stream" /\ ~MayHappen("burst") /\ inbox = <<>>
  BY <1>3 DEF InTurn, Overtaking
<1>11. CASE EmitLeftover
  <2>1. Shift(0) /\ UNCHANGED <<at, got>> /\ at # "dial"
    BY <1>10, <1>11, ClientMoves DEF EmitLeftover
  <2>. QED BY <1>9, <2>1
<1>12. ASSUME NEW n \in 1 .. Len(down), Deliver(n) PROVE \E m \in Nat : After(m)'
  <2>1. leftover = <<>> /\ UNCHANGED <<at, got>>
    BY <1>10, <1>12 DEF Deliver, Event
  <2>2. at # "drain"
    BY <1>2 DEF InTurn
  <2>3. Shift(0)
    BY <1>12, <2>1, <2>2, ClientMoves
  <2>4. at # "dial"
    <3>1. CASE at = "dial"
      <4>1. Len(Pipe) = 0
        BY <1>1, <3>1 DEF InTurn
      <4>2. Lengths(Pipe, inbox, leftover, down)
        BY PipeFacts DEF Under
      <4>3. Len(down) = 0
        BY <4>1, <4>2, NoneUnder
      <4>. QED BY <4>3
    <3>. QED BY <3>1
  <2>. QED BY <1>9, <2>1, <2>3, <2>4
<1>13. CASE TakeBytes
  <2>1. at \in {"file", "stream"} /\ at' = at /\ leftover = <<>> /\ Len(inbox) \in Nat
    BY <1>10, <1>13 DEF TakeBytes, TypeOK
  <2>2. ~Headed /\ ~Headed' /\ Ahead = 0 /\ Ahead' = 0 /\ at # "dial"
    BY <2>1 DEF Headed, Ahead, Handshake
  <2>3. PICK n \in Nat : After(n)
    BY <1>4, <2>2
  <2>4. Len(got'["out"]) = Len(got["out"]) + Len(inbox)
    <3>1. n + Len(inbox) \in Nat /\ n + Len(inbox) = n + Len(inbox)
      BY <2>1
    <3>. QED BY <1>13, <2>2, <2>3, <3>1, ChunkFacts
  <2>5. Shift(Len(inbox))
    BY <1>13, <2>1, ClientMoves
  <2>6. PICK m \in Nat, k \in Nat : m = n + k /\ k = Len(inbox)
    BY <2>1
  <2>7. k >= Ahead - Ahead' /\ m = n + k - (Ahead - Ahead')
    <3>1. k >= 0 - 0 /\ m = n + k - (0 - 0)
      BY <2>6
    <3>. QED BY <2>2, <3>1
  <2>8. plan.op \notin Dropping => m = Len(got'["out"])
    <3>1. plan.op \notin Dropping => n = Len(got["out"])
      BY <2>3 DEF After
    <3>. QED BY <2>4, <2>6, <3>1
  <2>9. \A i \in DOMAIN got'["out"] : got'["out"][i] = m - Len(got'["out"]) + i
    <3>1. m = n + Len(inbox)
      BY <2>6
    <3>. QED BY <1>13, <2>2, <2>3, <3>1, ChunkFacts
  <2>. QED BY <1>0, <2>2, <2>3, <2>5, <2>6, <2>7, <2>8, <2>9, AfterTake
<1>14. ~TakeFrame /\ ~WriteChunk /\ ~FinishUpload /\ ~Drain
  BY <1>2 DEF TakeFrame, WriteChunk, FinishUpload, Drain, InTurn
<1>15. ~SeeEnd /\ ~SeeError /\ ~Timer
  BY DEF SeeEnd, SeeError, Timer, Settle
<1>. QED BY <1>6, <1>7, <1>8, <1>11, <1>12, <1>13, <1>14, <1>15 DEF Client

LEMMA BytesRemote ==
  ASSUME TypeOK, TypeOK', InTurn, Counts, Bytes, Remote \/ Cut PROVE Bytes'
<1>0. UNCHANGED <<plan, at, got, inbox, leftover>> /\ (MayHappen("burst")' <=> MayHappen("burst"))
  BY RemoteSends DEF clientvars, MayHappen
<1>. SUFFICES ASSUME plan.op \in EofDelimited, at \notin {"dial", "over"}, ~Overtaking
     PROVE  \E n \in Nat : After(n)'
  BY <1>0 DEF Bytes, Overtaking, EofDelimited
<1>1. /\ Len(Pipe) \in Nat /\ Len(Pipe') \in Nat
      /\ Pipe = <<>> <=> Len(Pipe) = 0
      /\ Pipe' = <<>> <=> Len(Pipe') = 0
  BY EmptyFacts
<1>2. plan.op \notin {"put", "spawn", "request", "probe"}
  BY DEF EofDelimited
<1>3. PICK n \in Nat : After(n)
  BY DEF Bytes
<1>4. 0 \in Nat /\ "out" \in Streams
  BY DEF Streams
<1>5. ASSUME NEW kind \in {"greeting", "reply", "status"}, NEW v \in {0, 1}, Adds(Message(kind, v)), Pipe = <<>>
      PROVE  Len(Pipe') = 2
  <2>1. kind \in Kinds /\ v \in Nat
    BY DEF Kinds
  <2>2. Len(Message(kind, v)) = 2
    BY <2>1, MessageFacts
  <2>3. Len(Pipe') = 0 + 2
    BY <1>1, <1>5, <2>2 DEF Adds
  <2>. QED BY <2>3
<1>6. ASSUME Headed, made' = made, server \notin {"sending", "done"},
             (Len(Pipe') = 0 /\ server' # "sending") \/ Len(Pipe') = 2
      PROVE  \E m \in Nat : After(m)'
  <2>1. made'["out"] = 0
    BY <1>4, <1>6 DEF Counts
  <2>2. Headed' /\ got'["out"] = <<>>
    BY <1>0, <1>3, <1>6 DEF Headed, After
  <2>. QED BY <1>4, <1>6, <2>1, <2>2, AfterHeader
<1>7. CASE ProxyGreets
  <2>1. at = "greeting" /\ Pipe = <<>> /\ server = "idle" /\ made' = made
    BY <1>7 DEF ProxyGreets, InTurn, TypeOK
  <2>2. Len(Pipe') = 2
    BY <1>5, <1>7, <2>1, RemoteMoves
  <2>3. Headed
    BY <2>1 DEF Headed, Handshake
  <2>. QED BY <1>6, <2>1, <2>2, <2>3
<1>8. CASE ProxyConnects
  <2>1. at = "reply" /\ Pipe = <<>> /\ server = "idle" /\ made' = made
    BY <1>8 DEF ProxyConnects, InTurn, TypeOK
  <2>2. Len(Pipe') = 2
    BY <1>5, <1>8, <2>1, RemoteMoves
  <2>3. Headed
    BY <2>1 DEF Headed, Handshake
  <2>. QED BY <1>6, <2>1, <2>2, <2>3
<1>9. CASE StartGet \/ StartRelay \/ Refuse
  <2>1. /\ server = "reading" /\ at # "reply" /\ made' = made
        /\ StartGet \/ StartRelay \/ server' = "done"
    BY <1>9 DEF StartGet, StartRelay, Start, Refuse, Requested, Hangup
  <2>2. at \notin {"file", "stream", "frames"} /\ Pipe = <<>>
    BY <2>1 DEF InTurn
  <2>3. Headed
    BY <2>1, <2>2 DEF Headed, Handshake, TypeOK, States
  <2>4. Len(Pipe') = 2 \/ (Len(Pipe') = 0 /\ server' # "sending")
    <3>1. CASE StartGet \/ StartRelay
      BY <1>5, <2>2, <3>1, RemoteMoves
    <3>2. CASE Refuse /\ server' = "done"
      BY <1>1, <1>5, <2>2, <3>2, RemoteMoves
    <3>. QED BY <1>9, <2>1, <3>1, <3>2
  <2>. QED BY <1>6, <2>1, <2>3, <2>4
<1>10. ASSUME NEW s \in Streams, Produce(s) PROVE \E m \in Nat : After(m)'
  <2>1. s = "out" /\ server = "sending" /\ made' = [made EXCEPT !["out"] = made["out"] + 1]
    BY <1>2, <1>10 DEF Produce
  <2>2. Adds(Byte(made["out"] + 1))
    BY <1>2, <1>10, <2>1, RemoteMoves
  <2>3. made'["out"] = made["out"] + 1
    BY <1>4, <2>1 DEF TypeOK
  <2>. QED BY <1>0, <1>3, <2>1, <2>2, <2>3, AfterByte
<1>11. CASE EndOfData \/ Cut
  <2>1. made' = made /\ server' # "sending"
    BY <1>11 DEF EndOfData, Cut, Hangup
  <2>2. \/ Pipe' = Pipe /\ server = "sending"
        \/ Shortens /\ MayHappen("cut")
    BY <1>11, RemoteMoves DEF EndOfData, Cut
  <2>. QED BY <1>0, <1>3, <2>1, <2>2, AfterEnd
<1>12. ~Answer /\ ~StartSpawn /\ ~SendExit /\ ~StartPut /\ ~Store /\ ~StoreFails /\ ~Stored
  BY <1>2 DEF Answer, StartSpawn, Start, SendExit, StartPut, Store, StoreFails, Stored, InTurn
<1>. QED BY <1>7, <1>8, <1>9, <1>10, <1>11, <1>12 DEF Remote, Streams

(* The bytes that a second data event may overtake *)
Within(q, b) == \A i \in DOMAIN q : q[i].value \in 1 .. b

LEMMA WithinFacts ==
  ASSUME NEW q \in Seq(Unit), NEW r \in Seq(Unit), NEW b \in Nat, NEW c \in Nat, b <= c, Within(q, b)
  PROVE  /\ Within(r, c) => Within(q \o r, c)
         /\ \A n \in 0 .. Len(q) : Within(SubSeq(q, 1, n), c) /\ Within(SubSeq(q, n + 1, Len(q)), c)
<1>1. Len(q) \in Nat /\ Len(r) \in Nat /\ DOMAIN q = 1 .. Len(q) /\ DOMAIN r = 1 .. Len(r)
  OBVIOUS
<1>2. \A i \in 1 .. Len(q) : q[i].value \in 1 .. c
  BY <1>1 DEF Within
<1>3. ASSUME Within(r, c) PROVE Within(q \o r, c)
  <2>1. PICK p : p = q \o r
    OBVIOUS
  <2>2. /\ p \in Seq(Unit) /\ Len(p) = Len(q) + Len(r)
        /\ \A i \in 1 .. Len(q) : p[i] = q[i]
        /\ \A i \in 1 .. Len(r) : p[Len(q) + i] = r[i]
    BY <2>1, ConcatFacts
  <2>3. DOMAIN p = 1 .. Len(p)
    BY <2>2
  <2>4. ASSUME NEW i \in 1 .. Len(p) PROVE p[i].value \in 1 .. c
    <3>1. CASE i <= Len(q)
      <4>1. i \in 1 .. Len(q)
        BY <1>1, <2>2, <3>1
      <4>. QED BY <1>2, <2>2, <4>1
    <3>2. CASE i > Len(q)
      <4>1. i - Len(q) \in 1 .. Len(r) /\ i = Len(q) + (i - Len(q))
        BY <1>1, <2>2, <3>2
      <4>2. PICK j \in 1 .. Len(r) : i = Len(q) + j
        BY <4>1
      <4>. QED BY <1>1, <1>3, <2>2, <4>2 DEF Within
    <3>. QED BY <1>1, <2>2, <3>1, <3>2
  <2>. QED BY <2>1, <2>3, <2>4 DEF Within
<1>4. ASSUME NEW n \in 0 .. Len(q)
      PROVE  Within(SubSeq(q, 1, n), c) /\ Within(SubSeq(q, n + 1, Len(q)), c)
  <2>1. PICK a, d : a = SubSeq(q, 1, n) /\ d = SubSeq(q, n + 1, Len(q))
    OBVIOUS
  <2>2. /\ a \in Seq(Unit) /\ d \in Seq(Unit) /\ Len(a) = n /\ Len(d) = Len(q) - n
        /\ \A i \in 1 .. n : a[i] = q[i]
        /\ \A i \in 1 .. Len(q) - n : d[i] = q[n + i]
    BY <2>1, SplitFacts
  <2>3. DOMAIN a = 1 .. n /\ DOMAIN d = 1 .. Len(q) - n
    BY <2>2
  <2>4. (\A i \in 1 .. n : i \in 1 .. Len(q)) /\ (\A i \in 1 .. Len(q) - n : n + i \in 1 .. Len(q))
    BY <1>1
  <2>. QED BY <1>2, <2>1, <2>2, <2>3, <2>4 DEF Within
<1>. QED BY <1>3, <1>4

LEMMA LooseFacts == Loose <=> (plan.op = "tcp" /\ at = "stream" =>
                        /\ Within(inbox, made["out"]) /\ Within(leftover, made["out"])
                        /\ Within(down, made["out"]))
BY DEF Loose, Within

LEMMA LooseNext == Loose' <=> (plan'.op = "tcp" /\ at' = "stream" =>
                        /\ Within(inbox', made'["out"]) /\ Within(leftover', made'["out"])
                        /\ Within(down', made'["out"]))
BY DEF Loose, Within

LEMMA LooseRemote ==
  ASSUME TypeOK, TypeOK', InTurn, Counts, Loose, Remote \/ Cut PROVE Loose'
<1>0. /\ UNCHANGED <<plan, at, inbox, leftover>> /\ "out" \in Streams
      /\ made["out"] \in Nat /\ made'["out"] \in Nat /\ made["out"] <= made'["out"]
  BY RemoteSends DEF clientvars, Streams
<1>. SUFFICES ASSUME plan.op = "tcp", at = "stream"
     PROVE  Within(inbox, made'["out"]) /\ Within(leftover, made'["out"]) /\ Within(down', made'["out"])
  BY <1>0, LooseNext
<1>1. /\ Within(inbox, made["out"]) /\ Within(leftover, made["out"]) /\ Within(down, made["out"])
      /\ inbox \in Seq(Unit) /\ leftover \in Seq(Unit) /\ down \in Seq(Unit)
  BY LooseFacts DEF TypeOK
<1>2. Within(inbox, made'["out"]) /\ Within(leftover, made'["out"]) /\ Within(down, made'["out"])
  BY <1>0, <1>1 DEF Within
<1>3. ASSUME NEW s \in Streams, Produce(s) PROVE Within(down', made'["out"])
  <2>1. s = "out" /\ made' = [made EXCEPT !["out"] = made["out"] + 1] /\ down' = down \o Byte(made'["out"])
    BY <1>3 DEF Produce
  <2>2. made'["out"] = made["out"] + 1
    BY <1>0, <2>1 DEF TypeOK
  <2>3. Byte(made'["out"]) \in Seq(Unit) /\ Within(Byte(made'["out"]), made'["out"])
    <3>1. /\ Byte(made'["out"]) \in Seq(Unit) /\ Len(Byte(made'["out"])) = 1
          /\ Byte(made'["out"])[1].value = made'["out"]
      BY <1>0, ByteFacts
    <3>2. \A i \in DOMAIN Byte(made'["out"]) : i = 1
      BY <3>1
    <3>3. made'["out"] \in 1 .. made'["out"]
      BY <1>0, <2>2
    <3>. QED BY <3>1, <3>2, <3>3 DEF Within
  <2>. QED BY <1>0, <1>1, <2>1, <2>3, WithinFacts
<1>4. CASE EndOfData
  <2>1. down' = down
    BY <1>1, <1>4, ConcatEmptySeq DEF EndOfData, Hangup
  <2>. QED BY <1>2, <2>1
<1>5. CASE Cut
  <2>1. PICK n \in 0 .. Len(down) : down' = SubSeq(down, 1, n)
    BY <1>5 DEF Cut
  <2>2. \A k \in 0 .. Len(down) : Within(SubSeq(down, 1, k), made'["out"])
    BY <1>0, <1>1, WithinFacts
  <2>. QED BY <1>2, <2>1, <2>2
<1>6. ~ProxyGreets /\ ~ProxyConnects /\ ~Refuse /\ ~Answer /\ ~StartGet /\ ~StartRelay
  BY DEF ProxyGreets, ProxyConnects, Refuse, Answer, StartGet, StartRelay, Start, Requested, InTurn
<1>7. ~StartSpawn /\ ~SendExit /\ ~StartPut /\ ~Store /\ ~StoreFails /\ ~Stored
  BY DEF StartSpawn, Start, SendExit, StartPut, Store, StoreFails, Stored, InTurn
<1>. QED BY <1>2, <1>3, <1>4, <1>5, <1>6, <1>7 DEF Remote, Streams

LEMMA LooseClient ==
  ASSUME TypeOK, TypeOK', InTurn, Bytes, Loose, Client \/ Dial \/ Timer PROVE Loose'
<1>0. UNCHANGED <<plan, made>> /\ made["out"] \in Nat
  BY ClientSends DEF TypeOK, Streams
<1>. SUFFICES ASSUME plan.op = "tcp", at' = "stream"
     PROVE  Within(inbox', made["out"]) /\ Within(leftover', made["out"]) /\ Within(down', made["out"])
  BY <1>0, LooseNext
<1>1. inbox \in Seq(Unit) /\ leftover \in Seq(Unit) /\ down \in Seq(Unit) /\ <<>> \in Seq(Unit)
  BY DEF TypeOK
<1>2. Within(<<>>, made["out"])
  BY DEF Within
<1>3. CASE at = "stream"
  <2>1. Within(inbox, made["out"]) /\ Within(leftover, made["out"]) /\ Within(down, made["out"])
    BY <1>3, LooseFacts
  <2>2. CASE EmitLeftover
    <3>1. inbox' = inbox \o leftover /\ leftover' = <<>> /\ down' = down
      BY <1>3, <2>2 DEF EmitLeftover
    <3>. QED BY <1>0, <1>1, <1>2, <2>1, <3>1, WithinFacts
  <2>3. ASSUME NEW n \in 1 .. Len(down), Deliver(n)
        PROVE  Within(inbox', made["out"]) /\ Within(leftover', made["out"]) /\ Within(down', made["out"])
    <3>1. /\ inbox' = inbox \o SubSeq(down, 1, n) /\ leftover' = leftover
          /\ down' = SubSeq(down, n + 1, Len(down)) /\ n \in 0 .. Len(down)
      BY <1>1, <1>3, <2>3 DEF Deliver
    <3>2. Within(SubSeq(down, 1, n), made["out"]) /\ Within(down', made["out"]) /\ SubSeq(down, 1, n) \in Seq(Unit)
      <4>1. Within(SubSeq(down, 1, n), made["out"]) /\ Within(SubSeq(down, n + 1, Len(down)), made["out"])
        BY <1>0, <1>1, <2>1, <3>1, WithinFacts
      <4>2. SubSeq(down, 1, n) \in Seq(Unit)
        BY <1>1, <3>1, SplitFacts
      <4>. QED BY <3>1, <4>1, <4>2
    <3>3. Within(inbox \o SubSeq(down, 1, n), made["out"])
      <4>1. PICK q \in Seq(Unit), b \in Nat : q = SubSeq(down, 1, n) /\ b = made["out"]
        BY <1>0, <3>2
      <4>0. b <= b
        OBVIOUS
      <4>2. Within(inbox, b) /\ Within(q, b)
        BY <2>1, <3>2, <4>1
      <4>3. Within(inbox \o q, b)
        BY <1>1, <4>0, <4>2, WithinFacts
      <4>. QED BY <4>1, <4>3
    <3>. QED BY <2>1, <3>1, <3>2, <3>3
  <2>4. ~EmitLeftover /\ ~(\E n \in 1 .. Len(down) : Deliver(n)) =>
          UNCHANGED <<leftover, down>> /\ (inbox' = inbox \/ inbox' = <<>>)
    BY <1>3 DEF Client, TakeGreeting, TakeReply, TakeStatus, TakeFrame, TakeBytes, WriteChunk,
         FinishUpload, Drain, SeeEnd, SeeError, Dial, Timer
  <2>. QED BY <1>2, <2>1, <2>2, <2>3, <2>4
<1>4. CASE at # "stream"
  <2>1. TakeReply /\ at = "reply" /\ at' # "over"
    BY <1>4 DEF Client, TakeGreeting, TakeReply, EmitLeftover, TakeStatus, TakeFrame, TakeBytes, WriteChunk,
           FinishUpload, Drain, SeeEnd, SeeError, Deliver, Dial, Timer, Settle, Granted, InTurn
  <2>2. Headed /\ Ahead = 2 /\ plan.op \in EofDelimited /\ ~Overtaking
    BY <2>1 DEF Headed, Ahead, Handshake, EofDelimited, Overtaking
  <2>3. PICK n \in Nat : After(n)
    BY <2>1, <2>2 DEF Bytes
  <2>4. /\ n = 0
        /\ \A i \in DOMAIN Pipe : i > 2 => Pipe[i].value = n + i - 2
        /\ Len(Pipe) >= 2 => n + Len(Pipe) - 2 <= made["out"]
    BY <2>2, <2>3 DEF After
  <2>5. Len(Pipe') = Len(Pipe) - 2 /\ \A i \in 1 .. Len(Pipe') : Pipe'[i] = Pipe[i + 2]
    BY <2>1, ClientMoves DEF Shift
  <2>6. Len(Pipe) \in Nat /\ Len(Pipe') \in Nat /\ DOMAIN Pipe = 1 .. Len(Pipe)
    BY LengthFacts
  <2>7. ASSUME NEW i \in 1 .. Len(Pipe') PROVE Pipe'[i].value \in 1 .. made["out"]
    <3>1. i + 2 \in 1 .. Len(Pipe) /\ i + 2 > 2 /\ Len(Pipe) >= 2 /\ i \in 1 .. Len(Pipe) - 2
      BY <2>5, <2>6
    <3>2. Pipe'[i].value = n + (i + 2) - 2 /\ n + (i + 2) - 2 = i
      BY <2>4, <2>5, <2>6, <3>1
    <3>. QED BY <1>0, <2>4, <2>6, <3>1, <3>2
  <2>8. Under(Pipe', inbox', leftover', down')
    BY PipeNext
  <2>9. /\ inbox' \in Seq(Unit) /\ leftover' \in Seq(Unit) /\ down' \in Seq(Unit)
        /\ DOMAIN inbox' = 1 .. Len(inbox') /\ DOMAIN leftover' = 1 .. Len(leftover') /\ DOMAIN down' = 1 .. Len(down')
    BY DEF TypeOK
  <2>10. /\ \A i \in 1 .. Len(inbox') : i \in 1 .. Len(Pipe')
         /\ \A i \in 1 .. Len(leftover') : Len(inbox') + i \in 1 .. Len(Pipe')
         /\ \A i \in 1 .. Len(down') : Len(inbox') + Len(leftover') + i \in 1 .. Len(Pipe')
    <3>1. Lengths(Pipe', inbox', leftover', down')
      BY <2>8 DEF Under
    <3>. QED BY <3>1 DEF Lengths
  <2>11. /\ \A i \in 1 .. Len(inbox') : inbox'[i] = Pipe'[i]
         /\ \A i \in 1 .. Len(leftover') : leftover'[i] = Pipe'[Len(inbox') + i]
         /\ \A i \in 1 .. Len(down') : down'[i] = Pipe'[Len(inbox') + Len(leftover') + i]
    BY <2>8 DEF Under
  <2>. QED BY <2>7, <2>9, <2>10, <2>11 DEF Within
<1>. QED BY <1>3, <1>4

-----------------------------------------------------------------------------
(* The frames of a process *)

(* Nothing but the message that the client waits for is under way *)
LEMMA FramesHeader ==
  ASSUME TypeOK, TypeOK', Headed', Len(Pipe') <= 2, \A s \in Streams : got'[s] = <<>>,
         server' = "sending" => Len(Pipe') = 2 /\ \A s \in Streams : made'[s] = 0
  PROVE  Frames'
<1>1. Ahead' = 2 /\ DOMAIN Pipe' = 1 .. Len(Pipe') /\ Len(Pipe') \in Nat
  BY LengthFacts DEF Ahead
<1>2. \A j \in Nat : ~Behind(j)'
  <2>1. ASSUME NEW j \in Nat, 2 * j \in 1 .. Len(Pipe') PROVE ~(2 * j > 2)
    BY <1>1, <2>1
  <2>. QED BY <1>1, <2>1 DEF Behind
<1>3. \A s \in Streams : Len(got'[s]) = 0 /\ DOMAIN got'[s] = {}
  OBVIOUS
<1>4. server' = "sending" => Sending'
  <2>. SUFFICES ASSUME server' = "sending" PROVE Sending'
    OBVIOUS
  <2>1. PICK m \in Nat : m = 1
    OBVIOUS
  <2>2. Len(Pipe') = 2 * m /\ 2 * m >= Ahead'
    BY <1>1, <2>1
  <2>3. \A s \in Streams : Len(got'[s]) + 1 .. made'[s] = {}
    BY <1>3
  <2>. QED BY <2>2, <2>3 DEF Sending
<1>5. \A s, v : \A j \in Nat : ~Frame(j, s, v)'
  BY <1>2 DEF Frame
<1>. QED BY <1>2, <1>3, <1>4, <1>5 DEF Frames

(* The client takes d messages; those of them that were behind, if any, are  *)
(* not asked about here *)
Slides(d) ==
  \A j \in Nat : /\ Behind(j)' => Behind(j + d) /\ Pipe'[2 * j] = Pipe[2 * (j + d)]
                 /\ Behind(j + d) /\ j >= 1 => Behind(j)'

LEMMA SlideFacts ==
  ASSUME TypeOK, TypeOK', NEW d \in Nat, NEW e \in Nat, e = 2 * d, Shift(e),
         \/ d = 0 /\ Ahead' = Ahead
         \/ Ahead' = 0 /\ Ahead <= e
  PROVE  Slides(d)
<1>1. /\ Len(Pipe) \in Nat /\ Len(Pipe') \in Nat
      /\ DOMAIN Pipe = 1 .. Len(Pipe) /\ DOMAIN Pipe' = 1 .. Len(Pipe')
      /\ Ahead \in Nat /\ Ahead' \in Nat
  BY LengthFacts
<1>2. PICK p \in Nat, q \in Nat, a \in Nat, b \in Nat :
        p = Len(Pipe) /\ q = Len(Pipe') /\ a = Ahead /\ b = Ahead'
  BY <1>1
<1>3. /\ q = p - e
      /\ \A i \in 1 .. q : Pipe'[i] = Pipe[i + e]
      /\ (e = 0 /\ b = a) \/ (b = 0 /\ a <= e)
  BY <1>2 DEF Shift
<1>4. ASSUME NEW j \in Nat, Behind(j)' PROVE Behind(j + d) /\ Pipe'[2 * j] = Pipe[2 * (j + d)]
  <2>1. 2 * j > b /\ 2 * j \in 1 .. q
    BY <1>1, <1>2, <1>4 DEF Behind
  <2>2. 2 * (j + d) = 2 * j + e
    OBVIOUS
  <2>3. PICK i \in Nat : i = 2 * j
    OBVIOUS
  <2>4. i > b /\ i >= 1 /\ i <= q
    BY <2>1, <2>3
  <2>5. i + e > a /\ i + e >= 1 /\ i + e <= p
    BY <1>3, <2>4
  <2>6. i + e \in 1 .. p /\ i \in 1 .. q
    BY <2>4, <2>5
  <2>. QED BY <1>1, <1>2, <1>3, <2>2, <2>3, <2>5, <2>6 DEF Behind
<1>5. ASSUME NEW j \in Nat, j >= 1, Behind(j + d) PROVE Behind(j)'
  <2>1. 2 * (j + d) > a /\ 2 * (j + d) \in 1 .. p
    BY <1>1, <1>2, <1>5 DEF Behind
  <2>2. PICK i \in Nat : i = 2 * j /\ i >= 1
    BY <1>5
  <2>3. 2 * (j + d) = i + e
    BY <2>2
  <2>4. i + e > a /\ i + e <= p
    BY <2>1, <2>3
  <2>5. i > b /\ i <= q
    BY <1>3, <2>2, <2>4
  <2>6. 2 * j > b /\ 2 * j \in 1 .. q
    BY <2>2, <2>5
  <2>. QED BY <1>1, <1>2, <2>6 DEF Behind
<1>. QED BY <1>4, <1>5 DEF Slides

(* The d messages taken hold nothing that the consumer does not have by then *)
Kept(d) ==
  \A j \in Nat, s \in Streams, v \in Nat :
    Frame(j, s, v) /\ Len(got'[s]) < v => j > d
Unread == \A j \in Nat, s \in Streams, v \in Nat : Frame(j, s, v)' => Len(got'[s]) < v
Aligned == \E m \in Nat : Len(Pipe) = 2 * m /\ 2 * m >= Ahead

LEMMA FramesTake ==
  ASSUME TypeOK, TypeOK', Frames, plan.op = "spawn", at \notin {"dial", "over"},
         UNCHANGED <<plan, made, server>>, NEW d \in Nat, Slides(d), Kept(d), Unread,
         \A s \in Streams : Len(got[s]) <= Len(got'[s]),
         \A s \in Streams : \A i \in DOMAIN got'[s] : got'[s][i] = i,
         Headed' => \A s \in Streams : got'[s] = <<>>,
         server = "sending" => Aligned'
  PROVE  Frames'
<1>1. \A s \in Streams : Len(got[s]) \in Nat /\ Len(got'[s]) \in Nat /\ made[s] \in Nat /\ plan.size[s] \in Nat
  BY PlanFacts DEF TypeOK
<1>2. ASSUME NEW j \in Nat, NEW s \in Streams, NEW v \in Nat, Frame(j, s, v)' PROVE Frame(j + d, s, v)
  BY <1>2 DEF Slides, Frame
<1>3. ASSUME NEW k \in Nat, NEW s \in Streams, NEW v \in Nat, Frame(k, s, v), Len(got'[s]) < v
      PROVE  k > d /\ k - d \in Nat /\ Frame(k - d, s, v)'
  <2>1. k > d
    BY <1>3 DEF Kept
  <2>2. k - d \in Nat /\ k - d >= 1 /\ k = (k - d) + d
    BY <2>1
  <2>3. PICK j \in Nat : j = k - d /\ j >= 1 /\ j + d = k
    BY <2>2
  <2>4. Behind(j)' /\ Pipe'[2 * j] = Pipe[2 * k]
    BY <1>3, <2>3 DEF Slides, Frame
  <2>5. Frame(j, s, v)'
    BY <1>3, <2>4 DEF Frame
  <2>. QED BY <2>1, <2>3, <2>5
<1>4. ASSUME NEW j \in Nat, NEW s \in Streams, NEW n \in Int, Before(j + d, s, n) PROVE Before(j, s, n)'
  <2>1. ASSUME NEW v \in Len(got'[s]) + 1 .. n PROVE \E k \in Nat : k < j /\ Frame(k, s, v)'
    <3>1. v \in Nat /\ v \in Len(got[s]) + 1 .. n /\ Len(got'[s]) < v
      BY <1>1
    <3>2. PICK k \in Nat : k < j + d /\ Frame(k, s, v)
      BY <1>4, <3>1 DEF Before
    <3>3. k > d /\ k - d \in Nat /\ Frame(k - d, s, v)'
      BY <1>3, <3>1, <3>2
    <3>4. k - d < j
      BY <3>2
    <3>. QED BY <3>3, <3>4
  <2>. QED BY <2>1 DEF Before
<1>5. server' = "sending" => Sending'
  <2>. SUFFICES ASSUME server = "sending" PROVE Sending'
    OBVIOUS
  <2>1. ASSUME NEW s \in Streams, NEW v \in Len(got'[s]) + 1 .. made[s] PROVE \E k \in Nat : Frame(k, s, v)'
    <3>1. v \in Nat /\ v \in Len(got[s]) + 1 .. made[s] /\ Len(got'[s]) < v
      BY <1>1
    <3>2. PICK k \in Nat : Frame(k, s, v)
      BY <3>1 DEF Frames, Sending
    <3>. QED BY <1>3, <3>1, <3>2
  <2>. QED BY <2>1 DEF Sending, Aligned
<1>6. \A j \in Nat : Behind(j)' => Pipe'[2 * j].kind \in Streams \cup {"exit"}
  <2>1. \A j \in Nat : Behind(j) => Pipe[2 * j].kind \in Streams \cup {"exit"}
    BY DEF Frames
  <2>2. \A j \in Nat : j + d \in Nat
    OBVIOUS
  <2>. QED BY <2>1, <2>2 DEF Slides
<1>7. ASSUME NEW s \in Streams, NEW j \in Nat, NEW v \in Nat, Frame(j, s, v)'
      PROVE  Len(got'[s]) < v /\ v <= made[s] /\ Before(j, s, v - 1)'
  <2>1. Frame(j + d, s, v) /\ j + d \in Nat
    BY <1>2, <1>7
  <2>2. v <= made[s] /\ Before(j + d, s, v - 1)
    BY <2>1 DEF Frames
  <2>3. Before(j, s, v - 1)'
    BY <1>4, <2>2
  <2>. QED BY <1>7, <2>2, <2>3 DEF Unread
<1>8. ASSUME NEW s \in Streams, NEW j \in Nat, NEW k \in Nat, NEW v \in Nat, NEW w \in Nat,
             Frame(j, s, v)', Frame(k, s, w)', j < k
      PROVE  v < w
  <2>1. Frame(j + d, s, v) /\ Frame(k + d, s, w) /\ j + d \in Nat /\ k + d \in Nat /\ j + d < k + d
    BY <1>2, <1>8
  <2>. QED BY <2>1 DEF Frames
<1>9. ASSUME NEW j \in Nat, Behind(j)', Pipe'[2 * j].kind = "exit", NEW s \in Streams
      PROVE  Before(j, s, plan.size[s])'
  <2>1. Behind(j + d) /\ Pipe[2 * (j + d)].kind = "exit" /\ j + d \in Nat
    BY <1>9 DEF Slides
  <2>2. Before(j + d, s, plan.size[s])
    BY <2>1 DEF Frames
  <2>3. PICK n \in Nat : n = plan.size[s]
    BY <1>1
  <2>4. plan'.size[s] = n
    BY <2>3
  <2>5. Before(j, s, n)'
    BY <1>4, <2>2, <2>3
  <2>. QED BY <2>4, <2>5 DEF Before
<1>. QED BY <1>5, <1>6, <1>7, <1>8, <1>9 DEF Frames

(* A message is sent: the (m + 1)-th under way *)
Grows(m, kind, value) ==
  /\ m \in Nat /\ Aligned'
  /\ \A j \in Nat : Behind(j) => j <= m /\ Behind(j)' /\ Pipe'[2 * j] = Pipe[2 * j]
  /\ \A j \in Nat : Behind(j)' => Behind(j) \/ j = m + 1
  /\ Behind(m + 1)' /\ Pipe'[2 * (m + 1)].kind = kind /\ Pipe'[2 * (m + 1)].value = value

LEMMA GrowFacts ==
  ASSUME TypeOK, TypeOK', at' = at, Aligned, NEW kind \in Kinds, NEW value \in Nat, Adds(Message(kind, value))
  PROVE  \E m \in Nat : Grows(m, kind, value)
<1>1. /\ Len(Pipe) \in Nat /\ Len(Pipe') \in Nat
      /\ DOMAIN Pipe = 1 .. Len(Pipe) /\ DOMAIN Pipe' = 1 .. Len(Pipe')
      /\ Ahead \in Nat
  BY LengthFacts
<1>2. Ahead' = Ahead
  BY DEF Ahead, Headed
<1>3. PICK m \in Nat : Len(Pipe) = 2 * m /\ 2 * m >= Ahead
  BY DEF Aligned
<1>4. PICK p \in Nat, q \in Nat, a \in Nat : p = Len(Pipe) /\ q = Len(Pipe') /\ a = Ahead
  BY <1>1
<1>5. PICK msg : msg = Message(kind, value) /\ Len(msg) = 2 /\ msg[2].value = value /\ msg[2].kind = kind
  BY MessageFacts
<1>6. /\ q = p + 2
      /\ \A i \in 1 .. p : Pipe'[i] = Pipe[i]
      /\ \A i \in 1 .. 2 : Pipe'[p + i] = msg[i]
  BY <1>4, <1>5 DEF Adds
<1>7. p = 2 * m /\ p >= a
  BY <1>3, <1>4
<1>8. Pipe'[p + 2] = msg[2] /\ 2 * (m + 1) = p + 2
  BY <1>6, <1>7
<1>9. ASSUME NEW j \in Nat, Behind(j) PROVE j <= m /\ Behind(j)' /\ Pipe'[2 * j] = Pipe[2 * j]
  <2>1. 2 * j > a /\ 2 * j \in 1 .. p
    BY <1>1, <1>4, <1>9 DEF Behind
  <2>2. j <= m /\ 2 * j \in 1 .. q
    BY <1>6, <1>7, <2>1
  <2>. QED BY <1>1, <1>2, <1>4, <1>6, <2>1, <2>2 DEF Behind
<1>10. ASSUME NEW j \in Nat, Behind(j)' PROVE Behind(j) \/ j = m + 1
  <2>1. 2 * j > a /\ 2 * j \in 1 .. q
    BY <1>1, <1>2, <1>4, <1>10 DEF Behind
  <2>2. j = m + 1 \/ 2 * j \in 1 .. p
    BY <1>6, <1>7, <2>1
  <2>. QED BY <1>1, <1>4, <2>1, <2>2 DEF Behind
<1>11. Behind(m + 1)'
  <2>1. p + 2 > a /\ p + 2 \in 1 .. q
    BY <1>6, <1>7
  <2>. QED BY <1>1, <1>2, <1>4, <1>8, <2>1 DEF Behind
<1>12. Aligned'
  <2>1. m + 1 \in Nat /\ q = 2 * (m + 1) /\ 2 * (m + 1) >= a
    BY <1>6, <1>7, <1>8
  <2>. QED BY <1>2, <1>4, <2>1 DEF Aligned
<1>. QED BY <1>5, <1>8, <1>9, <1>10, <1>11, <1>12 DEF Grows

(* A frame of stream t, or the exit, comes behind all that was sent *)
LEMMA FramesSend ==
  ASSUME TypeOK, TypeOK', Frames, Counts, plan.op = "spawn", at \notin {"dial", "over"}, server = "sending",
         UNCHANGED <<plan, got, at>>, NEW m, NEW t \in Streams \cup {"exit"}, NEW value \in Nat, Grows(m, t, value),
         \A s \in Streams : made'[s] = IF s = t THEN made[s] + 1 ELSE made[s],
         t \in Streams => value = made[t] + 1,
         t = "exit" => made = plan.size /\ server' # "sending"
  PROVE  Frames'
<1>1. \A s \in Streams : Len(got[s]) \in Nat /\ made[s] \in Nat /\ made'[s] \in Nat /\ plan.size[s] \in Nat /\ DOMAIN got[s] = 1 .. Len(got[s])
  <2>. TAKE s \in Streams
  <2>1. got[s] \in Seq(Nat)
    BY DEF TypeOK
  <2>2. made[s] \in Nat /\ made'[s] \in Nat
    BY DEF TypeOK
  <2>3. plan.size[s] \in Nat
    BY PlanFacts
  <2>. QED BY <2>1, <2>2, <2>3
<1>2. ASSUME NEW s \in Streams PROVE made[s] <= made'[s]
  <2>1. made'[s] = made[s] \/ made'[s] = made[s] + 1
    OBVIOUS
  <2>. QED BY <1>1, <2>1
<1>3. "exit" \notin Streams
  BY DEF Streams
<1>4. Headed' <=> Headed
  BY DEF Headed
<1>5. ASSUME NEW j \in Nat, NEW s \in Streams, NEW v \in Nat, Frame(j, s, v)
      PROVE  Frame(j, s, v)' /\ j <= m
  BY <1>5 DEF Frame, Grows
<1>6. ASSUME NEW j \in Nat, NEW s \in Streams, NEW v \in Nat, Frame(j, s, v)'
      PROVE  Frame(j, s, v) \/ (j = m + 1 /\ s = t /\ v = value)
  BY <1>6 DEF Frame, Grows
<1>7. m \in Nat /\ m + 1 \in Nat
  BY DEF Grows
<1>8. ASSUME NEW s \in Streams PROVE (\A n \in Nat : n = made[s] => Before(m + 1, s, n)') /\ Len(got[s]) <= made[s]
  <2>1. ASSUME NEW v \in Len(got[s]) + 1 .. made[s] PROVE \E k \in Nat : k < m + 1 /\ Frame(k, s, v)'
    <3>1. v \in Nat
      BY <1>1
    <3>2. PICK k \in Nat : Frame(k, s, v)
      BY DEF Frames, Sending
    <3>. QED BY <1>5, <1>7, <3>1, <3>2
  <2>2. Len(got[s]) <= made[s]
    <3>1. CASE Len(got[s]) = 0
      BY <1>1, <3>1
    <3>2. CASE Len(got[s]) # 0
      <4>1. Len(got[s]) \in DOMAIN got[s]
        BY <1>1, <3>2
      <4>2. got[s][Len(got[s])] = Len(got[s]) /\ got[s][Len(got[s])] \in 1 .. made[s]
        BY <4>1 DEF Frames, Counts
      <4>. QED BY <1>1, <4>2
    <3>. QED BY <3>1, <3>2
  <2>3. ASSUME NEW n \in Nat, n = made[s] PROVE Before(m + 1, s, n)'
    BY <2>1, <2>3 DEF Before
  <2>. QED BY <2>2, <2>3
<1>9. ASSUME NEW j \in Nat, NEW s \in Streams, NEW n \in Int, Before(j, s, n) PROVE Before(j, s, n)'
  <2>1. ASSUME NEW v \in Len(got[s]) + 1 .. n PROVE \E k \in Nat : k < j /\ Frame(k, s, v)'
    <3>1. v \in Nat
      BY <1>1
    <3>2. PICK k \in Nat : k < j /\ Frame(k, s, v)
      BY <1>9 DEF Before
    <3>. QED BY <1>5, <3>1, <3>2
  <2>. QED BY <2>1 DEF Before
<1>10. server' = "sending" => Sending'
  <2>. SUFFICES ASSUME server' = "sending" PROVE Sending'
    OBVIOUS
  <2>1. t \in Streams /\ Aligned'
    BY DEF Grows
  <2>2. ASSUME NEW s \in Streams, NEW v \in Len(got[s]) + 1 .. made'[s] PROVE \E k \in Nat : Frame(k, s, v)'
    <3>1. v \in Nat
      BY <1>1
    <3>2. CASE v <= made[s]
      <4>1. PICK k \in Nat : Frame(k, s, v)
        BY <1>1, <3>2 DEF Frames, Sending
      <4>. QED BY <1>5, <3>1, <4>1
    <3>3. CASE v > made[s]
      <4>1. s = t /\ v = value
        <5>1. s = t
          BY <1>1, <3>3
        <5>2. made'[s] = made[s] + 1 /\ value = made[s] + 1
          BY <2>1, <5>1
        <5>. QED BY <1>1, <3>1, <3>3, <5>1, <5>2
      <4>. QED BY <1>7, <4>1 DEF Grows, Frame
    <3>. QED BY <1>1, <3>1, <3>2, <3>3
  <2>. QED BY <2>1, <2>2 DEF Sending, Aligned
<1>11. \A j \in Nat : Behind(j)' => Pipe'[2 * j].kind \in Streams \cup {"exit"}
  <2>1. \A j \in Nat : Behind(j) => Pipe[2 * j].kind \in Streams \cup {"exit"}
    BY DEF Frames
  <2>. QED BY <2>1 DEF Grows
<1>12. ASSUME NEW s \in Streams, NEW j \in Nat, NEW v \in Nat, Frame(j, s, v)'
       PROVE  Len(got[s]) < v /\ v <= made'[s] /\ Before(j, s, v - 1)'
  <2>1. CASE Frame(j, s, v)
    <3>1. Len(got[s]) < v /\ v <= made[s] /\ Before(j, s, v - 1)
      BY <2>1 DEF Frames
    <3>2. v <= made'[s] /\ v - 1 \in Int
      BY <1>1, <1>2, <3>1
    <3>. QED BY <1>9, <3>1, <3>2
  <2>2. CASE j = m + 1 /\ s = t /\ v = value
    <3>1. v = made[s] + 1 /\ made'[s] = made[s] + 1 /\ Len(got[s]) <= made[s]
      BY <1>8, <2>2
    <3>2. v - 1 = made[s] /\ Len(got[s]) < v /\ v <= made'[s]
      BY <1>1, <3>1
    <3>3. PICK b \in Nat : b = made[s] /\ b = v - 1
      BY <1>1, <3>2
    <3>4. Before(m + 1, s, b)'
      BY <1>8, <3>3
    <3>. QED BY <2>2, <3>2, <3>3, <3>4
  <2>. QED BY <1>6, <1>12, <2>1, <2>2
<1>13. ASSUME NEW s \in Streams, NEW j \in Nat, NEW k \in Nat, NEW v \in Nat, NEW w \in Nat,
              Frame(j, s, v)', Frame(k, s, w)', j < k
       PROVE  v < w
  <2>1. Frame(j, s, v)
    <3>1. k <= m + 1
      <4>1. CASE Frame(k, s, w)
        BY <1>5, <1>7, <4>1
      <4>2. CASE k = m + 1
        BY <4>2
      <4>. QED BY <1>6, <1>13, <4>1, <4>2
    <3>2. j # m + 1
      BY <1>7, <1>13, <3>1
    <3>. QED BY <1>6, <1>13, <3>2
  <2>2. CASE Frame(k, s, w)
    BY <1>13, <2>1, <2>2 DEF Frames
  <2>3. CASE s = t /\ w = value
    <3>1. v <= made[s] /\ w = made[s] + 1
      BY <2>1, <2>3 DEF Frames
    <3>. QED BY <1>1, <3>1
  <2>. QED BY <1>6, <1>13, <2>2, <2>3
<1>14. ASSUME NEW j \in Nat, Behind(j)', Pipe'[2 * j].kind = "exit", NEW s \in Streams
       PROVE  Before(j, s, plan.size[s])'
  <2>0. PICK n \in Nat : n = plan.size[s] /\ n = plan'.size[s]
    BY <1>1
  <2>1. CASE Behind(j)
    <3>1. Before(j, s, n)
      BY <1>14, <2>0, <2>1 DEF Frames, Grows
    <3>2. Before(j, s, n)'
      BY <1>9, <3>1
    <3>. QED BY <2>0, <3>2 DEF Before
  <2>2. CASE j = m + 1 /\ t = "exit"
    <3>1. made[s] = n
      BY <2>0, <2>2
    <3>2. Before(m + 1, s, n)'
      BY <1>8, <2>0, <3>1
    <3>. QED BY <2>0, <2>2, <3>2 DEF Before
  <2>. QED BY <1>14, <2>1, <2>2 DEF Grows
<1>15. /\ \A s \in Streams : \A i \in DOMAIN got[s] : got[s][i] = i
       /\ Headed => \A s \in Streams : got[s] = <<>>
  BY DEF Frames
<1>. QED BY <1>4, <1>10, <1>11, <1>12, <1>13, <1>14, <1>15 DEF Frames

(* The last units under way are lost *)
LEMMA FramesCut ==
  ASSUME TypeOK, TypeOK', Frames, plan.op = "spawn", at \notin {"dial", "over"}, server' # "sending",
         UNCHANGED <<plan, got, at, made>>, Shortens
  PROVE  Frames'
<1>1. /\ Len(Pipe) \in Nat /\ Len(Pipe') \in Nat
      /\ DOMAIN Pipe = 1 .. Len(Pipe) /\ DOMAIN Pipe' = 1 .. Len(Pipe')
      /\ \A s \in Streams : Len(got[s]) \in Nat /\ plan.size[s] \in Nat
  BY LengthFacts, PlanFacts DEF TypeOK
<1>2. Ahead' = Ahead /\ (Headed' <=> Headed)
  BY DEF Ahead, Headed
<1>3. Len(Pipe') <= Len(Pipe) /\ \A i \in 1 .. Len(Pipe') : Pipe'[i] = Pipe[i] /\ i \in 1 .. Len(Pipe)
  BY <1>1 DEF Shortens
<1>4. ASSUME NEW j \in Nat, Behind(j)' PROVE Behind(j) /\ Pipe'[2 * j] = Pipe[2 * j]
  BY <1>1, <1>2, <1>3, <1>4 DEF Behind
<1>5. ASSUME NEW j \in Nat, Behind(j)', NEW k \in Nat, k < j, Behind(k) PROVE Behind(k)' /\ Pipe'[2 * k] = Pipe[2 * k]
  <2>1. 2 * j \in 1 .. Len(Pipe') /\ 2 * k \in 1 .. Len(Pipe) /\ 2 * k > Ahead
    BY <1>1, <1>5 DEF Behind
  <2>2. 2 * k \in 1 .. Len(Pipe')
    <3>1. PICK q \in Nat, p \in Nat : q = Len(Pipe') /\ p = Len(Pipe)
      BY <1>1
    <3>2. 2 * k <= q /\ 2 * k >= 1
      BY <1>5, <2>1, <3>1
    <3>. QED BY <3>1, <3>2
  <2>. QED BY <1>1, <1>2, <1>3, <2>1, <2>2 DEF Behind
<1>6. ASSUME NEW j \in Nat, Behind(j)', NEW s \in Streams, NEW n \in Int, Before(j, s, n) PROVE Before(j, s, n)'
  <2>1. ASSUME NEW v \in Len(got[s]) + 1 .. n PROVE \E k \in Nat : k < j /\ Frame(k, s, v)'
    <3>1. PICK k \in Nat : k < j /\ Frame(k, s, v)
      BY <1>6 DEF Before
    <3>2. Frame(k, s, v)'
      BY <1>5, <1>6, <3>1 DEF Frame
    <3>. QED BY <3>1, <3>2
  <2>. QED BY <2>1 DEF Before
<1>7. ASSUME NEW s \in Streams, NEW j \in Nat, NEW v \in Nat, Frame(j, s, v)' PROVE Frame(j, s, v) /\ Behind(j)'
  BY <1>4, <1>7 DEF Frame
<1>8. ASSUME NEW s \in Streams, NEW j \in Nat, NEW v \in Nat, Frame(j, s, v)'
      PROVE  Len(got[s]) < v /\ v <= made[s] /\ Before(j, s, v - 1)'
  <2>1. Frame(j, s, v) /\ Behind(j)'
    BY <1>7, <1>8
  <2>2. Len(got[s]) < v /\ v <= made[s] /\ Before(j, s, v - 1)
    BY <2>1 DEF Frames
  <2>. QED BY <1>6, <2>1, <2>2
<1>9. ASSUME NEW s \in Streams, NEW j \in Nat, NEW k \in Nat, NEW v \in Nat, NEW w \in Nat,
             Frame(j, s, v)', Frame(k, s, w)', j < k
      PROVE  v < w
  <2>1. Frame(j, s, v) /\ Frame(k, s, w)
    BY <1>7, <1>9
  <2>. QED BY <1>9, <2>1 DEF Frames
<1>10. ASSUME NEW j \in Nat, Behind(j)', Pipe'[2 * j].kind = "exit", NEW s \in Streams
       PROVE  Before(j, s, plan.size[s])'
  <2>0. PICK n \in Nat : n = plan.size[s] /\ n = plan'.size[s]
    BY <1>1
  <2>1. Before(j, s, n)
    BY <1>4, <1>10, <2>0 DEF Frames
  <2>2. Before(j, s, n)'
    BY <1>6, <1>10, <2>1
  <2>. QED BY <2>0, <2>2 DEF Before
<1>11. \A j \in Nat : Behind(j)' => Pipe'[2 * j].kind \in Streams \cup {"exit"}
  BY <1>4 DEF Frames
<1>12. /\ \A s \in Streams : \A i \in DOMAIN got[s] : got[s][i] = i
       /\ Headed => \A s \in Streams : got[s] = <<>>
  BY DEF Frames
<1>. QED BY <1>2, <1>8, <1>9, <1>10, <1>11, <1>12 DEF Frames

LEMMA AlignFacts ==
  ASSUME TypeOK, TypeOK', NEW d \in Nat, NEW e \in Nat, e = 2 * d, Shift(e), Aligned,
         \/ d = 0 /\ Ahead' = Ahead
         \/ Ahead' = 0
  PROVE  Aligned'
<1>1. Len(Pipe) \in Nat /\ Len(Pipe') \in Nat /\ Ahead \in Nat /\ Ahead' \in Nat
  BY LengthFacts
<1>2. PICK m \in Nat : Len(Pipe) = 2 * m /\ 2 * m >= Ahead
  BY DEF Aligned
<1>3. PICK p \in Nat, q \in Nat, a \in Nat, b \in Nat :
        p = Len(Pipe) /\ q = Len(Pipe') /\ a = Ahead /\ b = Ahead'
  BY <1>1
<1>4. q = p - e /\ p = 2 * m /\ p >= a /\ ((d = 0 /\ b = a) \/ b = 0)
  BY <1>2, <1>3 DEF Shift
<1>5. PICK k \in Nat : k = m - d
  <2>1. m - d \in Nat
    BY <1>4
  <2>. QED BY <2>1
<1>6. q = 2 * k /\ q >= b
  BY <1>4, <1>5
<1>. QED BY <1>3, <1>5, <1>6 DEF Aligned

LEMMA FramesClient ==
  ASSUME TypeOK, TypeOK', InTurn, Counts, Frames, Client \/ Dial \/ Timer PROVE Frames'
<1>0. UNCHANGED <<plan, server, made>>
  BY ClientSends
<1>. SUFFICES ASSUME plan.op = "spawn", at' \notin {"dial", "over"} PROVE Frames'
  BY <1>0 DEF Frames
<1>1. /\ Len(Pipe) \in Nat /\ Len(Pipe') \in Nat
      /\ Pipe = <<>> <=> Len(Pipe) = 0
      /\ Pipe' = <<>> <=> Len(Pipe') = 0
  BY EmptyFacts
<1>2. \A s \in Streams : got[s] \in Seq(Nat) /\ Len(got[s]) \in Nat /\ DOMAIN got[s] = 1 .. Len(got[s])
  BY DEF TypeOK
<1>3. at # "over"
  BY DEF Client, TakeGreeting, TakeReply, EmitLeftover, TakeStatus, TakeFrame, TakeBytes, WriteChunk,
         FinishUpload, Drain, SeeEnd, SeeError, Deliver, Event, Dial, Timer, Settle
<1>4. leftover = <<>> /\ at \notin {"file", "stream", "upload", "drain"}
  BY DEF InTurn
<1>5. at # "dial" => /\ \A s \in Streams : \A i \in DOMAIN got[s] : got[s][i] = i
                     /\ Headed => \A s \in Streams : got[s] = <<>>
                     /\ server = "sending" => Sending
                     /\ \A s \in Streams, j \in Nat, v \in Nat : Frame(j, s, v) => Len(got[s]) < v
  BY <1>3 DEF Frames
<1>6. server = "sending" /\ at # "dial" => Aligned
  BY <1>5 DEF Sending, Aligned
<1>7. CASE Dial
  <2>1. at = "dial" /\ at' = "greeting" /\ got' = got /\ Pipe' = Pipe
    BY <1>7, ClientMoves DEF Dial, Settle
  <2>2. Pipe = <<>> /\ server \notin {"sending", "done"}
    BY <2>1 DEF InTurn
  <2>3. ASSUME NEW s \in Streams PROVE got[s] = <<>>
    <3>1. made[s] = 0
      BY <2>2 DEF Counts
    <3>2. \A i \in DOMAIN got[s] : got[s][i] \in 1 .. 0
      BY <3>1 DEF Counts
    <3>3. 1 \notin DOMAIN got[s]
      BY <3>2
    <3>. QED BY <1>2, <3>3
  <2>4. Headed' /\ Len(Pipe') = 0 /\ server' # "sending" /\ \A s \in Streams : got'[s] = <<>>
    BY <1>0, <1>1, <2>1, <2>2, <2>3 DEF Headed, Handshake
  <2>5. Len(Pipe') <= 2
    BY <2>4
  <2>. QED BY <2>4, <2>5, FramesHeader
<1>8. CASE TakeGreeting \/ TakeReply
  <2>1. /\ Parsed /\ got' = got /\ at \in Handshake
        /\ \/ at = "greeting" /\ at' = "reply"
           \/ at = "reply" /\ at' = "status"
    BY <1>8 DEF TakeGreeting, TakeReply, Settle, AfterHandshake, Handshake
  <2>2. Len(Pipe) <= 2 /\ server # "sending"
    BY <2>1 DEF InTurn
  <2>3. Len(Pipe') = Len(Pipe) - 2
    BY <1>3, <1>8, ClientMoves DEF Shift
  <2>4. Headed /\ Headed' /\ at # "dial"
    BY <2>1 DEF Headed, Handshake
  <2>5. (\A s \in Streams : got'[s] = <<>>) /\ server' # "sending"
    BY <1>0, <1>5, <2>1, <2>2, <2>4
  <2>6. Len(Pipe') <= 2
    BY <1>1, <2>2, <2>3
  <2>. QED BY <2>4, <2>5, <2>6, FramesHeader
<1>9. ASSUME NEW d \in Nat, NEW e \in Nat, e = 2 * d, Shift(e), at # "dial", got' = got, Headed' => Headed,
             \/ d = 0 /\ Ahead' = Ahead
             \/ Ahead' = 0 /\ Ahead = e
      PROVE  Frames'
  <2>1. Slides(d) /\ (Aligned => Aligned')
    <3>1. Ahead <= e \/ d = 0
      <4>1. PICK a \in Nat : a = Ahead
        BY LengthFacts
      <4>. QED BY <1>9, <4>1
    <3>. QED BY <1>9, <3>1, SlideFacts, AlignFacts
  <2>2. Kept(d)
    <3>1. ASSUME NEW j \in Nat, Behind(j) PROVE j > d
      <4>1. PICK a \in Nat : a = Ahead
        BY LengthFacts
      <4>2. 2 * j > a /\ (d = 0 \/ a = 2 * d)
        BY <1>9, <3>1, <4>1 DEF Behind
      <4>. QED BY <4>2
    <3>. QED BY <3>1 DEF Kept, Frame
  <2>3. Unread
    <3>1. ASSUME NEW j \in Nat, NEW s \in Streams, NEW v \in Nat, Frame(j, s, v)' PROVE Len(got[s]) < v
      <4>1. Frame(j + d, s, v) /\ j + d \in Nat
        BY <2>1, <3>1 DEF Slides, Frame
      <4>. QED BY <1>5, <1>9, <4>1
    <3>. QED BY <1>9, <3>1 DEF Unread
  <2>4. /\ \A s \in Streams : \A i \in DOMAIN got'[s] : got'[s][i] = i
        /\ Headed' => \A s \in Streams : got'[s] = <<>>
        /\ \A s \in Streams : Len(got[s]) <= Len(got'[s])
        /\ server = "sending" => Aligned'
    BY <1>2, <1>5, <1>6, <1>9, <2>1
  <2>. QED BY <1>0, <1>3, <1>9, <2>1, <2>2, <2>3, <2>4, FramesTake
<1>10. CASE TakeStatus
  <2>1. at = "status" /\ at' = Granted /\ got' = got /\ plan.op \notin Dropping
    BY <1>10 DEF TakeStatus, Dropping
  <2>2. at' = "frames"
    BY <2>1 DEF Granted
  <2>3. Ahead = 2 /\ Ahead' = 0 /\ ~Headed' /\ at # "dial"
    BY <2>1, <2>2 DEF Ahead, Headed, Handshake
  <2>4. Shift(2)
    BY <1>10, <2>1, ClientMoves
  <2>5. PICK d \in Nat, e \in Nat : d = 1 /\ e = 2 * d /\ e = 2
    OBVIOUS
  <2>. QED BY <1>9, <2>1, <2>3, <2>4, <2>5
<1>11. ASSUME NEW n \in 1 .. Len(down), Deliver(n) PROVE Frames'
  <2>1. at' = at /\ got' = got
    BY <1>11 DEF Deliver
  <2>2. Shift(0) /\ Ahead' = Ahead /\ (Headed' => Headed)
    BY <1>4, <1>11, <2>1, ClientMoves DEF Ahead, Headed
  <2>3. PICK d \in Nat, e \in Nat : d = 0 /\ e = 2 * d /\ e = 0
    OBVIOUS
  <2>. QED BY <1>9, <2>1, <2>2, <2>3
<1>12. CASE TakeFrame
  <2>1. PICK t \in Streams : inbox[2].kind = t /\ at = "frames" /\ at' = at
    BY <1>12 DEF TakeFrame, Settle
  <2>2. /\ inbox[2].value = Len(got[t]) + 1
        /\ inbox[2].value <= made[t]
        /\ got' = [got EXCEPT ![t] = Append(got[t], inbox[2].value)]
    BY <1>12, <2>1, FrameTaken
  <2>3. PICK g \in Seq(Nat), v0 \in Nat : g = got[t] /\ v0 = inbox[2].value /\ v0 = Len(g) + 1
    BY <1>2, <2>2
  <2>4. got'[t] = Append(g, v0) /\ \A s \in Streams : s # t => got'[s] = got[s]
    BY <2>2, <2>3 DEF TypeOK
  <2>5. /\ Len(got'[t]) = v0 /\ DOMAIN got'[t] = 1 .. v0
        /\ \A i \in 1 .. Len(g) : got'[t][i] = g[i]
        /\ got'[t][v0] = v0
    BY <2>3, <2>4
  <2>6. Ahead = 0 /\ Ahead' = 0 /\ ~Headed' /\ at # "dial"
    BY <2>1 DEF Ahead, Headed, Handshake
  <2>7. PICK d \in Nat, e \in Nat : d = 1 /\ e = 2 * d /\ e = 2
    OBVIOUS
  <2>8. Slides(d) /\ (Aligned => Aligned')
    <3>1. Shift(e) /\ Ahead <= e
      BY <1>12, <2>6, <2>7, ClientMoves
    <3>. QED BY <2>6, <2>7, <3>1, SlideFacts, AlignFacts
  <2>9. PICK j1 \in Nat : j1 = 1
    OBVIOUS
  <2>10. Frame(j1, t, v0)
    <3>1. Pipe[2] = inbox[2] /\ 2 \in DOMAIN Pipe
      BY <1>12, HeardFacts DEF TakeFrame, Parsed
    <3>2. 2 * j1 = 2 /\ 2 * j1 > 0
      BY <2>9
    <3>3. Behind(j1)
      BY <2>6, <3>1, <3>2 DEF Behind
    <3>4. Pipe[2 * j1].kind = t /\ Pipe[2 * j1].value = v0
      BY <2>1, <2>3, <3>1, <3>2
    <3>. QED BY <3>3, <3>4 DEF Frame
  <2>11. Kept(d)
    <3>1. ASSUME NEW j \in Nat, NEW s \in Streams, NEW v \in Nat, Frame(j, s, v), Len(got'[s]) < v PROVE j > d
      <4>1. j >= 1
        BY <2>6, <3>1 DEF Frame, Behind
      <4>2. j # 1
        <5>. SUFFICES ASSUME j = 1 PROVE FALSE
          OBVIOUS
        <5>1. s = t /\ v = v0
          BY <2>9, <2>10, <3>1 DEF Frame
        <5>. QED BY <2>5, <3>1, <5>1
      <4>. QED BY <2>7, <4>1, <4>2
    <3>. QED BY <3>1 DEF Kept
  <2>12. Unread
    <3>1. ASSUME NEW j \in Nat, NEW s \in Streams, NEW v \in Nat, Frame(j, s, v)' PROVE Len(got'[s]) < v
      <4>1. Frame(j + d, s, v) /\ j + d \in Nat /\ j >= 1
        <5>1. Behind(j)'
          BY <3>1 DEF Frame
        <5>2. j >= 1
          BY <2>6, <5>1 DEF Behind
        <5>. QED BY <2>8, <3>1, <5>2 DEF Slides, Frame
      <4>2. CASE s = t
        <5>1. j1 < j + d
          BY <2>7, <2>9, <4>1
        <5>2. v0 < v
          BY <1>3, <2>6, <2>10, <4>1, <4>2, <5>1 DEF Frames
        <5>. QED BY <2>5, <4>2, <5>2
      <4>3. CASE s # t
        BY <1>5, <2>4, <2>6, <4>1, <4>3
      <4>. QED BY <4>2, <4>3
    <3>. QED BY <3>1 DEF Unread
  <2>13. \A s \in Streams : Len(got[s]) <= Len(got'[s])
    <3>1. Len(g) <= v0
      BY <2>3
    <3>2. \A s \in Streams : s # t => Len(got[s]) <= Len(got'[s])
      BY <1>2, <2>4
    <3>. QED BY <2>3, <2>5, <3>1, <3>2
  <2>14. \A s \in Streams : \A i \in DOMAIN got'[s] : got'[s][i] = i
    <3>1. ASSUME NEW i \in 1 .. v0 PROVE got'[t][i] = i
      <4>1. CASE i = v0
        BY <2>5, <4>1
      <4>2. CASE i # v0
        <5>1. i \in 1 .. Len(g)
          BY <2>3, <4>2
        <5>. QED BY <1>2, <1>5, <2>3, <2>5, <2>6, <5>1
      <4>. QED BY <4>1, <4>2
    <3>. QED BY <1>5, <2>4, <2>5, <2>6, <3>1
  <2>15. server = "sending" => Aligned'
    BY <1>6, <2>6, <2>8
  <2>. QED BY <1>0, <1>3, <2>6, <2>8, <2>11, <2>12, <2>13, <2>14, <2>15, FramesTake
<1>13. ~EmitLeftover /\ ~TakeBytes /\ ~WriteChunk /\ ~FinishUpload /\ ~Drain
  BY <1>4 DEF EmitLeftover, TakeBytes, WriteChunk, FinishUpload, Drain
<1>14. ~SeeEnd /\ ~SeeError /\ ~Timer
  BY DEF SeeEnd, SeeError, Timer, Settle
<1>. QED BY <1>7, <1>8, <1>10, <1>11, <1>12, <1>13, <1>14 DEF Client

LEMMA FramesRemote ==
  ASSUME TypeOK, TypeOK', InTurn, Counts, Frames, Remote \/ Cut PROVE Frames'
<1>0. UNCHANGED <<plan, at, got, inbox, leftover>>
  BY RemoteSends DEF clientvars
<1>. SUFFICES ASSUME plan.op = "spawn", at \notin {"dial", "over"} PROVE Frames'
  BY <1>0 DEF Frames
<1>1. /\ Len(Pipe) \in Nat /\ Len(Pipe') \in Nat
      /\ Pipe = <<>> <=> Len(Pipe) = 0
      /\ Pipe' = <<>> <=> Len(Pipe') = 0
  BY EmptyFacts
<1>2. server = "sending" => Aligned
  BY DEF Frames, Sending, Aligned
<1>3. ASSUME NEW kind \in {"greeting", "reply", "status"}, NEW v \in {0, 1}, Adds(Message(kind, v)), Pipe = <<>>
      PROVE  Len(Pipe') = 2
  <2>1. kind \in Kinds /\ v \in Nat
    BY DEF Kinds
  <2>2. Len(Message(kind, v)) = 2
    BY <2>1, MessageFacts
  <2>3. Len(Pipe') = 0 + 2
    BY <1>1, <1>3, <2>2 DEF Adds
  <2>. QED BY <2>3
<1>4. ASSUME Headed, made' = made, server \notin {"sending", "done"},
             (Len(Pipe') = 0 /\ server' # "sending") \/ Len(Pipe') = 2
      PROVE  Frames'
  <2>1. \A s \in Streams : made'[s] = 0
    BY <1>4 DEF Counts
  <2>2. Headed' /\ \A s \in Streams : got'[s] = <<>>
    BY <1>0, <1>4 DEF Headed, Frames
  <2>3. Len(Pipe') <= 2
    <3>1. CASE Len(Pipe') = 0
      BY <3>1
    <3>2. CASE Len(Pipe') = 2
      BY <3>2
    <3>. QED BY <1>4, <3>1, <3>2
  <2>4. server' = "sending" => Len(Pipe') = 2
    BY <1>4
  <2>. QED BY <2>1, <2>2, <2>3, <2>4, FramesHeader
<1>5. CASE ProxyGreets \/ ProxyConnects
  <2>1. at \in Handshake /\ Pipe = <<>> /\ server = "idle" /\ made' = made
    BY <1>5 DEF ProxyGreets, ProxyConnects, InTurn, TypeOK, Handshake
  <2>2. Len(Pipe') = 2
    BY <1>3, <1>5, <2>1, RemoteMoves
  <2>3. Headed
    BY <2>1 DEF Headed, Handshake
  <2>. QED BY <1>4, <2>1, <2>2, <2>3
<1>6. CASE StartSpawn \/ Refuse
  <2>1. /\ server = "reading" /\ at # "reply" /\ made' = made
        /\ StartSpawn \/ server' = "done"
    BY <1>6 DEF StartSpawn, Start, Refuse, Requested, Hangup
  <2>2. at \notin {"file", "stream", "frames"} /\ Pipe = <<>>
    BY <2>1 DEF InTurn
  <2>3. Headed
    BY <2>1, <2>2 DEF Headed, Handshake, TypeOK, States
  <2>4. Len(Pipe') = 2 \/ (Len(Pipe') = 0 /\ server' # "sending")
    <3>1. CASE StartSpawn
      BY <1>3, <2>2, <3>1, RemoteMoves
    <3>2. CASE Refuse /\ server' = "done"
      BY <1>1, <1>3, <2>2, <3>2, RemoteMoves
    <3>. QED BY <1>6, <2>1, <3>1, <3>2
  <2>. QED BY <1>4, <2>1, <2>3, <2>4
<1>7. ASSUME NEW t \in Streams, Produce(t) PROVE Frames'
  <2>1. /\ server = "sending" /\ made \in [Streams -> Nat]
        /\ made' = [made EXCEPT ![t] = made[t] + 1] /\ Adds(Message(t, made[t] + 1))
    BY <1>7, RemoteMoves DEF Produce, TypeOK
  <2>2. t \in Kinds /\ made[t] + 1 \in Nat
    BY <2>1 DEF Kinds
  <2>3. PICK m \in Nat : Grows(m, t, made[t] + 1)
    BY <1>0, <1>2, <2>1, <2>2, GrowFacts
  <2>4. \A s \in Streams : made'[s] = IF s = t THEN made[s] + 1 ELSE made[s]
    BY <2>1
  <2>5. t # "exit"
    BY DEF Streams
  <2>. QED BY <1>0, <2>1, <2>2, <2>3, <2>4, <2>5, FramesSend
<1>8. CASE SendExit
  <2>1. server = "sending" /\ server' = "done" /\ made = plan.size /\ made' = made /\ Adds(Message("exit", 0))
    BY <1>8, RemoteMoves DEF SendExit, Hangup
  <2>2. "exit" \in Kinds /\ 0 \in Nat /\ "exit" \notin Streams
    BY DEF Kinds, Streams
  <2>3. PICK m \in Nat : Grows(m, "exit", 0)
    BY <1>0, <1>2, <2>1, <2>2, GrowFacts
  <2>4. \A s \in Streams : made'[s] = IF s = "exit" THEN made[s] + 1 ELSE made[s]
    BY <2>1, <2>2
  <2>. QED BY <1>0, <2>1, <2>2, <2>3, <2>4, FramesSend
<1>9. CASE Cut
  <2>1. Shortens /\ server' # "sending" /\ made' = made
    BY <1>9, RemoteMoves DEF Cut
  <2>. QED BY <1>0, <2>1, FramesCut
<1>10. ~Answer /\ ~StartGet /\ ~StartRelay /\ ~EndOfData /\ ~StartPut /\ ~Store /\ ~StoreFails /\ ~Stored
  BY DEF Answer, StartGet, StartRelay, Start, EndOfData, StartPut, Store, StoreFails, Stored, InTurn
<1>. QED BY <1>5, <1>6, <1>7, <1>8, <1>9, <1>10 DEF Remote, Streams

-----------------------------------------------------------------------------
(* What is reported as a success was done completely *)

LEMMA WholeRemote ==
  ASSUME TypeOK, TypeOK', InTurn, SuccessIsWhole, Status', Remote \/ Cut PROVE SuccessIsWhole'
<1>1. UNCHANGED <<plan, outcome, got>> /\ \A fault : MayHappen(fault)' <=> MayHappen(fault)
  BY DEF Remote, ProxyGreets, ProxyConnects, Refuse, Answer, StartGet, StartSpawn, StartRelay, Start,
         Produce, SendExit, EndOfData, StartPut, Store, StoreFails, Stored, Cut, clientvars, MayHappen
<1>2. line # "up" => UNCHANGED line
  BY DEF Remote, ProxyGreets, ProxyConnects, Refuse, Answer, StartGet, StartSpawn, StartRelay, Start,
         Produce, SendExit, EndOfData, StartPut, Store, StoreFails, Stored, Cut, Requested
<1>3. line = "fin" => line' = "fin"
  BY <1>2
<1>4. outcome = "ok" /\ plan.op \in {"request", "probe", "put"} => Done'
  BY <1>1 DEF Status
<1>. SUFFICES ASSUME outcome = "ok" PROVE SuccessIsWhole'
  BY <1>1 DEF SuccessIsWhole
<1>5. CASE plan.op \in {"request", "probe", "put"}
  BY <1>1, <1>4, <1>5 DEF SuccessIsWhole, Done
<1>6. CASE plan.op = "spawn"
  BY <1>1, <1>6 DEF SuccessIsWhole
<1>7. CASE plan.op = "get"
  BY <1>1, <1>3, <1>7 DEF SuccessIsWhole
<1>8. CASE plan.op \notin {"request", "probe", "put", "spawn", "get"}
  BY <1>1, <1>8 DEF SuccessIsWhole
<1>. QED BY <1>5, <1>6, <1>7, <1>8

LEMMA WholeClient ==
  ASSUME TypeOK, TypeOK', InTurn, Counts, Status, Bytes, Frames, SuccessIsWhole, Status',
         Client \/ Dial \/ Timer
  PROVE  SuccessIsWhole'
<1>1. UNCHANGED <<plan, server, made, stored, line>> /\ \A fault : MayHappen(fault)' <=> MayHappen(fault)
  BY ClientSends DEF MayHappen
<1>2. \A s \in Streams : /\ got[s] \in Seq(Nat) /\ Len(got[s]) \in Nat /\ DOMAIN got[s] = 1 .. Len(got[s])
                         /\ made[s] \in Nat /\ plan.size[s] \in Nat /\ made[s] <= plan.size[s]
  BY PlanFacts DEF TypeOK, Counts
<1>3. outcome' = "ok" /\ plan.op \in {"request", "probe", "put"} => Done'
  BY <1>1 DEF Status
<1>. SUFFICES ASSUME outcome' = "ok" PROVE SuccessIsWhole'
  BY DEF SuccessIsWhole
<1>4. CASE plan.op \in {"request", "probe", "put"}
  BY <1>1, <1>3, <1>4 DEF SuccessIsWhole, Done
<1>5. CASE outcome = "ok"
  <2>1. at = "over"
    BY <1>5 DEF Status
  <2>2. got' = got
    BY <2>1 DEF Client, TakeGreeting, TakeReply, EmitLeftover, TakeStatus, TakeFrame, TakeBytes, WriteChunk,
         FinishUpload, Drain, SeeEnd, SeeError, Deliver, Event, Dial, Timer, Handshake
  <2>. QED BY <1>1, <1>5, <2>2 DEF SuccessIsWhole
<1>6. CASE outcome # "ok" /\ plan.op = "spawn"
  <2>1. TakeFrame /\ inbox[2].kind = "exit" /\ Parsed /\ at = "frames" /\ got' = got
    BY <1>6 DEF Client, TakeGreeting, TakeReply, EmitLeftover, TakeStatus, TakeFrame, TakeBytes, WriteChunk,
         FinishUpload, Drain, SeeEnd, SeeError, Deliver, Dial, Timer, Settle, Granted, InTurn, Streams
  <2>2. Pipe[2] = inbox[2] /\ 2 \in DOMAIN Pipe /\ Ahead = 0
    BY <2>1, HeardFacts DEF Parsed, Ahead, Headed, Handshake
  <2>3. PICK j \in Nat : j = 1
    OBVIOUS
  <2>4. Behind(j) /\ Pipe[2 * j].kind = "exit"
    BY <2>1, <2>2, <2>3 DEF Behind
  <2>5. ASSUME NEW s \in Streams PROVE Len(got[s]) = plan.size[s]
    <3>1. Before(j, s, plan.size[s])
      BY <1>6, <2>1, <2>4 DEF Frames
    <3>2. \A v : \A k \in Nat : ~(k < j /\ Frame(k, s, v))
      BY <2>2, <2>3 DEF Frame, Behind
    <3>3. ~(plan.size[s] \in Len(got[s]) + 1 .. plan.size[s])
      BY <3>1, <3>2 DEF Before
    <3>4. plan.size[s] <= Len(got[s])
      BY <1>2, <3>3
    <3>5. Len(got[s]) <= made[s]
      <4>1. CASE Len(got[s]) = 0
        BY <1>2, <4>1
      <4>2. CASE Len(got[s]) # 0
        <5>1. Len(got[s]) \in DOMAIN got[s]
          BY <1>2, <4>2
        <5>2. got[s][Len(got[s])] = Len(got[s]) /\ got[s][Len(got[s])] \in 1 .. made[s]
          BY <1>6, <2>1, <5>1 DEF Frames, Counts
        <5>. QED BY <1>2, <5>2
      <4>. QED BY <4>1, <4>2
    <3>. QED BY <1>2, <3>4, <3>5
  <2>. QED BY <1>1, <1>6, <2>1, <2>5 DEF SuccessIsWhole
<1>7. CASE outcome # "ok" /\ plan.op = "get"
  <2>1. SeeEnd /\ at = "file" /\ got' = got /\ line = "fin" /\ down = <<>> /\ inbox = <<>>
    BY <1>7 DEF Client, TakeGreeting, TakeReply, EmitLeftover, TakeStatus, TakeFrame, TakeBytes, WriteChunk,
         FinishUpload, Drain, SeeEnd, SeeError, Deliver, Dial, Timer, Settle, Granted, InTurn, Event, Handling
  <2>2. leftover = <<>> /\ server # "sending"
    BY <1>7, <2>1 DEF InTurn
  <2>3. Len(Pipe) = 0
    <3>1. Len(down) = 0 /\ Len(inbox) = 0 /\ Len(leftover) = 0
      BY <2>1, <2>2
    <3>2. Lengths(Pipe, inbox, leftover, down)
      BY PipeFacts DEF Under
    <3>. QED BY <3>1, <3>2 DEF Lengths
  <2>4. Ahead = 0 /\ ~Headed
    BY <2>1 DEF Ahead, Headed, Handshake
  <2>5. PICK n \in Nat : After(n)
    BY <1>7, <2>1 DEF Bytes, EofDelimited, Overtaking
  <2>6. n = Len(got["out"])
    BY <1>7, <2>5 DEF After, Dropping
  <2>7. MayHappen("cut") \/ MayHappen("ioerror") \/ made["out"] = plan.size["out"]
    BY <1>7, <2>1, <2>2 DEF Status, Done
  <2>8. ~MayHappen("cut") => n = made["out"]
    <3>1. ~MayHappen("cut") => n + 0 - 0 = made["out"]
      BY <2>3, <2>4, <2>5 DEF After
    <3>. QED BY <3>1
  <2>. QED BY <1>1, <1>7, <2>1, <2>6, <2>7, <2>8 DEF SuccessIsWhole
<1>8. CASE plan.op \notin {"request", "probe", "put", "spawn", "get"}
  BY <1>1, <1>8 DEF SuccessIsWhole
<1>. QED BY <1>4, <1>5, <1>6, <1>7, <1>8

-----------------------------------------------------------------------------
(* The theorems *)

LEMMA Stutter ==
  ASSUME IInv, UNCHANGED vars PROVE IInv'
<1>1. /\ plan' = plan /\ at' = at /\ outcome' = outcome /\ proxy' = proxy /\ server' = server
      /\ line' = line /\ down' = down /\ inbox' = inbox /\ leftover' = leftover
      /\ made' = made /\ got' = got /\ sent' = sent /\ stored' = stored
  BY DEF vars, clientvars, remotevars
<1>2. TypeOK'
  BY <1>1 DEF IInv, TypeOK
<1>3. Pipe' = Pipe /\ (Headed' <=> Headed) /\ Ahead' = Ahead
  BY <1>1 DEF Pipe, Headed, Ahead
<1>4. (\A f : MayHappen(f)' <=> MayHappen(f)) /\ (Done' <=> Done)
  BY <1>1 DEF MayHappen, Done
<1>5. InTurn' /\ Counts' /\ Status'
  BY <1>1, <1>3, <1>4 DEF IInv, InTurn, Counts, Status
<1>6. Bytes' /\ Loose'
  BY <1>1, <1>3, <1>4 DEF IInv, Bytes, Overtaking, After, Loose
<1>7. Frames'
  BY <1>1, <1>3, <1>4 DEF IInv, Frames, Sending, Frame, Before, Behind
<1>8. SuccessIsWhole'
  BY <1>1, <1>4 DEF IInv, SuccessIsWhole
<1>. QED BY <1>2, <1>5, <1>6, <1>7, <1>8 DEF IInv

LEMMA Starts ==
  ASSUME Init PROVE IInv
<1>1. TypeOK
  BY DEF Init, TypeOK, States, Streams
<1>2. Pipe = <<>>
  BY DEF Init, Pipe
<1>3. InTurn
  BY <1>2 DEF Init, InTurn, Handshake
<1>4. Counts
  <2>1. \A s \in Streams : plan.size[s] \in Nat
    BY <1>1, PlanFacts
  <2>. QED BY <2>1 DEF Init, Counts
<1>5. Status /\ SuccessIsWhole
  BY DEF Init, Status, SuccessIsWhole
<1>6. Bytes /\ Loose /\ Frames
  BY DEF Init, Bytes, Loose, Frames
<1>. QED BY <1>1, <1>3, <1>4, <1>5, <1>6 DEF IInv

LEMMA Inductive == Spec => []IInv
<1>1. Init => IInv
  BY Starts
<1>2. IInv /\ [Next]_vars => IInv'
  <2>. SUFFICES ASSUME IInv, [Next]_vars PROVE IInv'
    OBVIOUS
  <2>. USE DEF IInv
  <2>1. CASE Client \/ Dial \/ Timer
    <3>1. TypeOK'
      BY <2>1, TypeClient
    <3>2. InTurn'
      BY <2>1, <3>1, TurnClient
    <3>3. Counts'
      BY <2>1, <3>1, CountsClient
    <3>4. Status'
      BY <2>1, <3>1, <3>2, StatusClient
    <3>5. Bytes'
      BY <2>1, <3>1, BytesClient
    <3>6. Loose'
      BY <2>1, <3>1, LooseClient
    <3>7. Frames'
      BY <2>1, <3>1, FramesClient
    <3>8. SuccessIsWhole'
      BY <2>1, <3>1, <3>4, WholeClient
    <3>. QED BY <3>1, <3>2, <3>3, <3>4, <3>5, <3>6, <3>7, <3>8
  <2>2. CASE Remote \/ Cut
    <3>1. TypeOK'
      BY <2>2, TypeRemote
    <3>2. InTurn'
      BY <2>2, <3>1, TurnRemote
    <3>3. Counts'
      BY <2>2, <3>1, CountsRemote
    <3>4. Status'
      BY <2>2, <3>1, <3>2, StatusRemote
    <3>5. Bytes'
      BY <2>2, <3>1, BytesRemote
    <3>6. Loose'
      BY <2>2, <3>1, LooseRemote
    <3>7. Frames'
      BY <2>2, <3>1, FramesRemote
    <3>8. SuccessIsWhole'
      BY <2>2, <3>1, <3>4, WholeRemote
    <3>. QED BY <3>1, <3>2, <3>3, <3>4, <3>5, <3>6, <3>7, <3>8
  <2>3. CASE UNCHANGED vars
    BY <2>3, Stutter
  <2>. QED BY <2>1, <2>2, <2>3 DEF Next
<1>. QED BY <1>1, <1>2, PTL DEF Spec

(* Every variable keeps its type: what is under way stays a sequence of      *)
(* units, and the consumer's bytes are numbers.                              *)
THEOREM TypeCorrect == Spec => []TypeOK
<1>1. IInv => TypeOK
  BY DEF IInv
<1>. QED BY <1>1, Inductive, PTL

(* What the caller of the transport client is told was a success was done    *)
(* completely: the request was carried out, the upload is in the remote file *)
(* to its last byte unless closing the file fails, the exit of a process     *)
(* comes behind all it wrote, and a file is all there unless it could not be *)
(* read or the connection was cut, for plans of any size and any way the     *)
(* units are cut into data events.                                           *)
THEOREM SuccessIsComplete == Spec => []SuccessIsWhole
<1>1. IInv => SuccessIsWhole
  BY DEF IInv
<1>. QED BY <1>1, Inductive, PTL

-----------------------------------------------------------------------------
(* The refinement *)

(* What the channel promises is settled by the plan *)
LEMMA PromiseFacts ==
  /\ Promise \in {"whole", "tail", "any"}
  /\ plan' = plan => Promise' = Promise
  /\ Promise = "whole" => ~MayHappen("burst") /\ plan.op \notin Dropping
  /\ Promise = "tail" => ~MayHappen("burst") /\ plan.op \in Dropping
BY DEF Promise, MayHappen

(* The far end sends on one stream at a time *)
LEMMA RemoteRefines ==
  ASSUME TypeOK, InTurn, Counts, Remote \/ Cut
  PROVE  Channel!Next \/ UNCHANGED Channel!vars
<1>1. plan' = plan /\ got' = got /\ Promise' = Promise
  BY RemoteSends, PromiseFacts DEF clientvars
<1>2. made \in [Streams -> Nat] /\ "out" \in Streams /\ \A s \in Streams : plan.size[s] \in Nat
  BY PlanFacts DEF TypeOK, Streams
<1>3. ASSUME NEW s \in Streams, NEW n \in Nat, made' = [made EXCEPT ![s] = n], n > made[s]
      PROVE  Channel!Next
  <2>1. made'[s] = n
    BY <1>2, <1>3
  <2>2. Channel!Send(s)
    BY <1>1, <1>3, <2>1 DEF Channel!Send
  <2>. QED BY <2>2 DEF Channel!Next
<1>4. CASE made' = made
  BY <1>1, <1>4 DEF Channel!vars
<1>5. CASE Answer
  <2>1. PICK ok \in {0, 1} : made' = [made EXCEPT !["out"] = IF ok = 1 THEN plan.size["out"] ELSE 0]
    BY <1>5 DEF Answer
  <2>2. made["out"] = 0
    BY <1>2, <1>5 DEF Answer, Requested, Counts
  <2>3. PICK n \in Nat : n = IF ok = 1 THEN plan.size["out"] ELSE 0
    BY <1>2
  <2>4. CASE n = 0
    <3>1. made' = made
      BY <1>2, <2>1, <2>2, <2>3, <2>4
    <3>. QED BY <1>4, <3>1
  <2>5. CASE n # 0
    <3>1. made' = [made EXCEPT !["out"] = n] /\ n > made["out"]
      BY <2>1, <2>2, <2>3, <2>5
    <3>. QED BY <1>2, <1>3, <3>1
  <2>. QED BY <2>4, <2>5
<1>6. ASSUME NEW t \in Streams, Produce(t) PROVE Channel!Next
  <2>1. made' = [made EXCEPT ![t] = made[t] + 1]
    BY <1>6 DEF Produce
  <2>2. made[t] + 1 \in Nat /\ made[t] + 1 > made[t]
    BY <1>2
  <2>. QED BY <1>3, <2>1, <2>2
<1>7. Remote \/ Cut => made' = made \/ Answer \/ \E t \in Streams : Produce(t)
  BY DEF Remote, ProxyGreets, ProxyConnects, Refuse, StartGet, StartSpawn, StartRelay, Start,
         SendExit, EndOfData, StartPut, Store, StoreFails, Stored, Cut, Streams
<1>. QED BY <1>4, <1>5, <1>6, <1>7

(* The consumer's bytes are numbered on from the first, or from some byte, as *)
(* the promise says *)
AsPromised(s) ==
  CASE Promise = "whole" -> Channel!Consecutive(got[s], 1)
    [] Promise = "tail" -> Channel!Consecutive(got[s], got[s][1])
    [] Promise = "any" -> TRUE
AllAsPromised == \A s \in Streams : AsPromised(s)

LEMMA BytesPromised ==
  ASSUME TypeOK, InTurn, Bytes, at \in {"file", "stream"}
  PROVE  AsPromised("out")
<1>1. plan.op \in EofDelimited
  BY DEF InTurn, EofDelimited
<1>2. /\ got["out"] \in Seq(Nat) /\ Len(got["out"]) \in Nat
      /\ DOMAIN got["out"] = 1 .. Len(got["out"])
  BY DEF TypeOK, Streams
<1>3. CASE MayHappen("burst")
  BY <1>3, PromiseFacts DEF AsPromised
<1>4. CASE ~MayHappen("burst")
  <2>1. PICK n \in Nat : After(n)
    BY <1>1, <1>4 DEF Bytes, Overtaking
  <2>2. /\ \A i \in DOMAIN got["out"] : got["out"][i] = n - Len(got["out"]) + i
        /\ plan.op \notin Dropping => n = Len(got["out"])
    BY <2>1 DEF After
  <2>3. CASE plan.op \notin Dropping
    <3>1. \A i \in DOMAIN got["out"] : got["out"][i] = 1 + i - 1
      BY <1>2, <2>2, <2>3
    <3>2. Channel!Consecutive(got["out"], 1)
      BY <3>1 DEF Channel!Consecutive
    <3>. QED BY <2>3, <3>2, PromiseFacts DEF AsPromised
  <2>4. CASE plan.op \in Dropping
    <3>1. ASSUME NEW i \in DOMAIN got["out"] PROVE got["out"][i] = got["out"][1] + i - 1
      <4>1. 1 \in DOMAIN got["out"]
        BY <1>2
      <4>2. PICK k \in Nat : k = Len(got["out"])
        BY <1>2
      <4>3. got["out"][1] = n - k + 1 /\ got["out"][i] = n - k + i /\ i \in Nat
        <5>1. \A j \in DOMAIN got["out"] : got["out"][j] = n - k + j
          BY <2>2, <4>2
        <5>. QED BY <1>2, <4>1, <5>1
      <4>4. n - k + i = n - k + 1 + i - 1
        BY <4>3
      <4>. QED BY <4>3, <4>4
    <3>2. Channel!Consecutive(got["out"], got["out"][1])
      BY <3>1 DEF Channel!Consecutive
    <3>. QED BY <2>4, <3>2, PromiseFacts DEF AsPromised
  <2>. QED BY <2>3, <2>4
<1>. QED BY <1>3, <1>4

LEMMA FramesPromised ==
  ASSUME TypeOK, InTurn, Frames, at = "frames"
  PROVE  AllAsPromised
<1>. SUFFICES ASSUME NEW s \in Streams PROVE AsPromised(s)
  BY DEF AllAsPromised
<1>1. plan.op = "spawn"
  BY DEF InTurn
<1>2. /\ \A i \in DOMAIN got[s] : got[s][i] = i
      /\ \A i \in DOMAIN got[s] : i \in Nat
  BY <1>1 DEF Frames, TypeOK
<1>3. Channel!Consecutive(got[s], 1)
  BY <1>2 DEF Channel!Consecutive
<1>. QED BY <1>1, <1>3, PromiseFacts DEF AsPromised, Dropping

(* A consumer that gets more of one stream gets the next bytes of it *)
LEMMA ClientRefines ==
  ASSUME IInv, IInv', Client \/ Dial \/ Timer
  PROVE  Channel!Next \/ UNCHANGED Channel!vars
<1>1. plan' = plan /\ made' = made /\ Promise' = Promise
  BY ClientSends, PromiseFacts
<1>2. /\ got \in [Streams -> Seq(Nat)] /\ got' \in [Streams -> Seq(Nat)]
      /\ "out" \in Streams /\ inbox \in Seq(Unit)
  BY DEF IInv, TypeOK, Streams
<1>3. CASE got' = got
  BY <1>1, <1>3 DEF Channel!vars
<1>4. ASSUME NEW s \in Streams, got' = [got EXCEPT ![s] = got'[s]],
             Len(got'[s]) > Len(got[s]), AsPromised(s)'
      PROVE  Channel!Next
  <2>1. Carries(s)
    BY ClientGets DEF IInv
  <2>2. /\ got[s] \in Seq(Nat) /\ got'[s] \in Seq(Nat)
        /\ Len(got[s]) \in Nat /\ Len(got'[s]) \in Nat /\ DOMAIN got'[s] = 1 .. Len(got'[s])
    BY <1>2
  <2>3. SubSeq(got'[s], 1, Len(got[s])) = got[s]
    <3>1. PICK g, h : g = got[s] /\ h = got'[s]
      OBVIOUS
    <3>2. g \in Seq(Nat) /\ h \in Seq(Nat) /\ Len(g) <= Len(h) /\ \A i \in 1 .. Len(g) : h[i] = g[i]
      BY <2>1, <2>2, <3>1 DEF Carries
    <3>3. /\ SubSeq(h, 1, Len(g)) \in Seq(Nat) /\ Len(SubSeq(h, 1, Len(g))) = Len(g)
          /\ \A i \in 1 .. Len(g) : SubSeq(h, 1, Len(g))[i] = g[i]
      BY <3>2
    <3>4. SubSeq(h, 1, Len(g)) = g
      BY <3>2, <3>3, SeqEqual
    <3>. QED BY <3>1, <3>4
  <2>4. \A i \in DOMAIN got'[s] : got'[s][i] \in 1 .. made[s]
    BY <2>1, <2>2 DEF Carries
  <2>5. CASE Promise = "whole"
    <3>1. Channel!Consecutive(got'[s], 1)
      BY <1>1, <1>4, <2>5 DEF AsPromised, Channel!Consecutive
    <3>2. Channel!Receive(s)
      BY <1>1, <1>4, <2>3, <2>4, <2>5, <3>1 DEF Channel!Receive
    <3>. QED BY <3>2 DEF Channel!Next
  <2>6. CASE Promise = "tail"
    <3>1. Channel!Consecutive(got'[s], got'[s][1])
      BY <1>1, <1>4, <2>6 DEF AsPromised, Channel!Consecutive
    <3>2. Channel!Receive(s)
      BY <1>1, <1>4, <2>3, <2>4, <2>6, <3>1 DEF Channel!Receive
    <3>. QED BY <3>2 DEF Channel!Next
  <2>7. CASE Promise = "any"
    <3>1. Channel!Receive(s)
      BY <1>1, <1>4, <2>3, <2>4, <2>7 DEF Channel!Receive
    <3>. QED BY <3>1 DEF Channel!Next
  <2>. QED BY <2>5, <2>6, <2>7, PromiseFacts
<1>5. CASE TakeBytes
  <2>1. /\ got' = [got EXCEPT !["out"] = got["out"] \o ValuesOf(inbox)]
        /\ inbox # <<>> /\ at' \in {"file", "stream"}
    BY <1>5 DEF TakeBytes, ValuesOf
  <2>2. got'["out"] = got["out"] \o ValuesOf(inbox) /\ got' = [got EXCEPT !["out"] = got'["out"]]
    BY <1>2, <2>1
  <2>3. Len(got'["out"]) > Len(got["out"])
    <3>1. PICK g, v : g = got["out"] /\ v = ValuesOf(inbox)
      OBVIOUS
    <3>2. g \in Seq(Nat) /\ v \in Seq(Nat) /\ Len(v) = Len(inbox)
      BY <1>2, <3>1, ValuesFacts
    <3>3. Len(inbox) # 0 /\ Len(inbox) \in Nat
      BY <1>2, <2>1, EmptySeq
    <3>4. Len(g \o v) > Len(g)
      BY <3>2, <3>3, Longer
    <3>. QED BY <2>2, <3>1, <3>4
  <2>4. (TypeOK /\ InTurn /\ Bytes /\ at \in {"file", "stream"} => AsPromised("out"))'
    BY BytesPromised, PTL
  <2>5. AsPromised("out")'
    BY <2>1, <2>4 DEF IInv
  <2>. QED BY <1>2, <1>4, <2>2, <2>3, <2>5
<1>6. ASSUME NEW s \in Streams, TakeFrame, inbox[2].kind = s PROVE Channel!Next
  <2>1. /\ got' = [got EXCEPT ![s] = Append(got[s], inbox[2].value)] /\ at' = "frames"
    BY <1>6, FrameTaken DEF IInv, TakeFrame, Streams
  <2>2. got'[s] = Append(got[s], inbox[2].value) /\ got' = [got EXCEPT ![s] = got'[s]]
    BY <1>2, <2>1
  <2>3. Len(got'[s]) > Len(got[s])
    BY <1>2, <2>2
  <2>4. (TypeOK /\ InTurn /\ Frames /\ at = "frames" => AllAsPromised)'
    BY FramesPromised, PTL
  <2>5. AsPromised(s)'
    BY <2>1, <2>4 DEF IInv, AllAsPromised
  <2>. QED BY <1>4, <2>2, <2>3, <2>5
<1>7. TakeFrame => got' = got \/ inbox[2].kind \in Streams
  BY DEF TakeFrame
<1>8. got' = got \/ TakeFrame \/ TakeBytes
  BY DEF Client, TakeGreeting, TakeReply, EmitLeftover, TakeStatus, WriteChunk,
         FinishUpload, Drain, SeeEnd, SeeError, Deliver, Dial, Timer
<1>. QED BY <1>3, <1>5, <1>6, <1>7, <1>8

(* TunnelStream implements ByteChannel: however the units of a connection    *)
(* are cut and joined into data events, and whatever is lost, each of a      *)
(* consumer's streams is a sequence of consecutive bytes of what was sent,   *)
(* from the first one on unless the operation drops what came with its       *)
(* header, and nothing received is taken back.                               *)
THEOREM Implements == Spec => ImplementsByteChannel
<1>1. Init => Channel!Init
  BY PromiseFacts DEF Init, Channel!Init
<1>2. IInv /\ IInv' /\ [Next]_vars => [Channel!Next]_Channel!vars
  <2>. SUFFICES ASSUME IInv, IInv', [Next]_vars
                PROVE  Channel!Next \/ UNCHANGED Channel!vars
    OBVIOUS
  <2>1. CASE Client \/ Dial \/ Timer
    BY <2>1, ClientRefines
  <2>2. CASE Remote \/ Cut
    BY <2>2, RemoteRefines DEF IInv
  <2>3. CASE UNCHANGED vars
    BY <2>3, PromiseFacts DEF vars, clientvars, remotevars, Channel!vars
  <2>. QED BY <2>1, <2>2, <2>3 DEF Next
<1>. QED BY <1>1, <1>2, Inductive, PTL DEF Spec, ImplementsByteChannel, Channel!Spec

=============================================================================
