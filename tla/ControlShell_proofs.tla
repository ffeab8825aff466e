------------------------- MODULE ControlShell_proofs -------------------------
(***************************************************************************)
(* Proofs about ControlShell, for every number of requests, every amount of *)
(* output, every choice of timed requests and of hanging commands.          *)
(*                                                                          *)
(* The answers are intervals of what the shell printed, so the argument is  *)
(* about the order of positions: lines are printed in request order, a      *)
(* marker is the last line of its request, and a listener starts beyond     *)
(* everything its predecessors were answered with.                          *)
(***************************************************************************)
EXTENDS ControlShell, TLAPS

(* How far the queue has got: each request's status follows from where it   *)
(* stands relative to arrived and written.                                  *)
Queue ==
  /\ ran <= written
  /\ written <= arrived
  /\ \A r \in Req :
       /\ arrived < r <=> st[r] = "new"
       /\ st[r] = "queued" => written < r
       /\ r < written => st[r] \in {"done", "timedout"}
       /\ st[r] \in {"running", "done", "timedout"} => r <= written
       /\ st[r] \in {"queued", "running"} => up
       /\ st[r] = "lost" => ~up

(* The shell prints in request order, and the marker ends a request *)
Printed ==
  /\ read <= Len(emitted)
  /\ \A i \in 1..Len(emitted) :
       /\ emitted[i].req <= written
       /\ emitted[i].req <= ran + 1
       /\ emitted[i].mark => emitted[i].req <= ran
       /\ \A j \in 1..Len(emitted) : i < j =>
            /\ emitted[i].req <= emitted[j].req
            /\ emitted[i].mark => emitted[i].req < emitted[j].req

(* Where the listeners stand: before everything their command prints *)
Listeners ==
  \A r \in Req : r <= written =>
    /\ 1 <= lo[r]
    /\ lo[r] <= read + 1
    /\ \A i \in 1..Len(emitted) : emitted[i].req = r => lo[r] <= i

(* An answer ends with its request's marker, before any later listener *)
Answered ==
  \A r \in Req : st[r] = "done" =>
    /\ 1 <= hi[r]
    /\ hi[r] <= read
    /\ lo[r] <= hi[r]
    /\ emitted[hi[r]].req = r
    /\ emitted[hi[r]].mark
    /\ \A s \in Req : r < s /\ s <= written => hi[r] < lo[s]

IInv == TypeOK /\ Queue /\ Printed /\ Listeners /\ Answered

USE MaxReqAssumption, MaxLinesAssumption, MayTimeOutAssumption, MayHangAssumption

-----------------------------------------------------------------------------
(* The variables have their types: the shape every other step relies on. *)
THEOREM TypeCorrect == Spec => []TypeOK
<1>1. Init => TypeOK
  BY DEF Init, TypeOK, Req, Status, Line
<1>2. TypeOK /\ [Next]_vars => TypeOK'
  <2> SUFFICES ASSUME TypeOK, [Next]_vars
               PROVE  TypeOK'
    OBVIOUS
  <2> USE DEF TypeOK, Req, Status, Line
  <2>1. CASE Arrive
    BY <2>1 DEF Arrive
  <2>2. CASE Start
    <3>1. written + 1 \in Req /\ written' = written + 1 /\ written' \in 0..MaxReq
      BY <2>2 DEF Start
    <3>2. st' \in [Req -> Status] /\ lo' \in [Req -> Nat]
      BY <2>2, <3>1 DEF Start
    <3>3. UNCHANGED <<up, arrived, ran, timed, hangs, emitted, read, hi>>
      BY <2>2 DEF Start
    <3> QED
      BY <3>1, <3>2, <3>3
  <2>3. CASE Deliver
    <3>1. PICK to \in (read + 1)..Len(emitted) :
             \/ Collect(to)
             \/ read' = to /\ UNCHANGED <<st, lo, hi>>
      BY <2>3 DEF Deliver
    <3>2. to \in Nat
      OBVIOUS
    <3>3. CASE Collect(to)
      <4>1. PICK r \in Req :
               IF MarkerIn(r, lo[r], to) = {}
                 THEN UNCHANGED <<st, hi>>
                 ELSE /\ st' = [st EXCEPT ![r] = "done"]
                      /\ \E i \in MarkerIn(r, lo[r], to) : hi' = [hi EXCEPT ![r] = i]
        BY <3>3 DEF Collect
      <4>2. \A i \in MarkerIn(r, lo[r], to) : i \in Nat
        BY <3>2 DEF MarkerIn
      <4>3. st' \in [Req -> Status] /\ hi' \in [Req -> Nat]
        BY <4>1, <4>2
      <4> QED
        BY <2>3, <3>2, <3>3, <4>3 DEF Deliver, Collect
    <3>4. CASE read' = to /\ UNCHANGED <<st, lo, hi>>
      BY <2>3, <3>2, <3>4 DEF Deliver
    <3> QED
      BY <3>1, <3>3, <3>4
  <2>4. ASSUME NEW r \in Req, Timeout(r) PROVE TypeOK'
    BY <2>4 DEF Timeout
  <2>5. CASE Exit
    BY <2>5 DEF Exit
  <2>6. ASSUME NEW r \in Req, ShellLine(r) PROVE TypeOK'
    <3>1. emitted' \in Seq(Line)
      BY <2>6 DEF ShellLine, Output
    <3> QED
      BY <2>6, <3>1 DEF ShellLine, Output
  <2>7. ASSUME NEW r \in Req, ShellMark(r) PROVE TypeOK'
    <3>1. emitted' \in Seq(Line)
      BY <2>7 DEF ShellMark, Output
    <3>2. ran' = r /\ r \in 0..MaxReq
      BY <2>7 DEF ShellMark
    <3> QED
      BY <2>7, <3>1, <3>2 DEF ShellMark, Output
  <2>8. CASE UNCHANGED vars
    BY <2>8 DEF vars
  <2> QED
    BY <2>1, <2>2, <2>3, <2>4, <2>5, <2>6, <2>7, <2>8 DEF Next
<1> QED
  BY <1>1, <1>2, PTL DEF Spec

-----------------------------------------------------------------------------
(* What the types say of printed lines, of requests and of positions *)
Typed ==
  /\ Len(emitted) \in Nat
  /\ \A i \in 1..Len(emitted) : emitted[i].req \in Req /\ emitted[i].mark \in BOOLEAN
  /\ \A r \in Req : r \in Nat /\ r > 0 /\ lo[r] \in Nat /\ hi[r] \in Nat
  /\ arrived \in Nat /\ written \in Nat /\ ran \in Nat /\ read \in Nat

LEMMA TypedLines == TypeOK => Typed
<1> SUFFICES ASSUME TypeOK PROVE Typed
  OBVIOUS
<1>1. emitted \in Seq(Line)
  BY DEF TypeOK
<1>2. \A i \in 1..Len(emitted) : emitted[i] \in Line
  BY <1>1
<1>3. \A i \in 1..Len(emitted) : emitted[i].req \in Req /\ emitted[i].mark \in BOOLEAN
  BY <1>2 DEF Line
<1>4. Len(emitted) \in Nat
  BY <1>1
<1>5. \A r \in Req : r \in Nat /\ r > 0 /\ lo[r] \in Nat /\ hi[r] \in Nat
  BY DEF TypeOK, Req
<1>6. arrived \in Nat /\ written \in Nat /\ ran \in Nat /\ read \in Nat
  BY DEF TypeOK
<1> QED
  BY <1>3, <1>4, <1>5, <1>6 DEF Typed

(* What a data event does, in the two shapes the invariant needs: nothing   *)
(* is settled, or the running request is, at the position of its marker.    *)
LEMMA DeliverEffect ==
  ASSUME IInv, Deliver
  PROVE  /\ read < read' /\ read' <= Len(emitted) /\ read' \in Nat
         /\ lo' = lo
         /\ \/ UNCHANGED <<st, hi>>
            \/ \E r \in Req, i \in Nat :
                 /\ st[r] = "running"
                 /\ lo[r] <= i /\ i <= read'
                 /\ emitted[i].req = r /\ emitted[i].mark
                 /\ st' = [st EXCEPT ![r] = "done"]
                 /\ hi' = [hi EXCEPT ![r] = i]
<1> USE DEF IInv, TypeOK
<1>1. PICK to \in (read + 1)..Len(emitted) :
         \/ Collect(to)
         \/ read' = to /\ UNCHANGED <<st, lo, hi>>
  BY DEF Deliver
<1>2. to \in Nat /\ read < to /\ to <= Len(emitted)
  OBVIOUS
<1>3. CASE read' = to /\ UNCHANGED <<st, lo, hi>>
  BY <1>2, <1>3
<1>4. CASE Collect(to)
  <2>1. PICK r \in Req :
           /\ st[r] = "running"
           /\ IF MarkerIn(r, lo[r], to) = {}
                THEN UNCHANGED <<st, hi>>
                ELSE /\ st' = [st EXCEPT ![r] = "done"]
                     /\ \E i \in MarkerIn(r, lo[r], to) : hi' = [hi EXCEPT ![r] = i]
    BY <1>4 DEF Collect
  <2>2. lo' = lo /\ read' = to
    BY <1>4 DEF Collect
  <2>3. CASE MarkerIn(r, lo[r], to) = {}
    BY <1>2, <2>1, <2>2, <2>3
  <2>4. CASE MarkerIn(r, lo[r], to) # {}
    <3>1. PICK i \in MarkerIn(r, lo[r], to) : hi' = [hi EXCEPT ![r] = i]
      BY <2>1, <2>4
    <3>2. r <= written /\ lo[r] >= 1
      BY <2>1 DEF Queue, Listeners
    <3>3. /\ i \in Nat /\ lo[r] <= i /\ i <= to
          /\ emitted[i].req = r /\ emitted[i].mark
      BY <1>2, <3>2 DEF MarkerIn, Req
    <3> QED
      BY <1>2, <2>1, <2>2, <2>4, <3>1, <3>3
  <2> QED
    BY <2>3, <2>4
<1> QED
  BY <1>1, <1>3, <1>4

(* What the shell's two steps append *)
LEMMA PrintEffect ==
  ASSUME IInv, NEW r \in Req, NEW m \in BOOLEAN, Output(r, m)
  PROVE  /\ r = ran + 1 /\ r <= written
         /\ Len(emitted') = Len(emitted) + 1
         /\ \A i \in 1..Len(emitted) : emitted'[i] = emitted[i]
         /\ emitted'[Len(emitted) + 1].req = r
         /\ emitted'[Len(emitted) + 1].mark = m
BY DEF IInv, TypeOK, Output, Line

-----------------------------------------------------------------------------
(* Each step keeps the invariant *)

LEMMA ArriveKeeps == IInv /\ TypeOK' /\ Arrive => IInv'
<1> SUFFICES ASSUME IInv, TypeOK', Arrive PROVE IInv'
  OBVIOUS
<1> USE DEF IInv, TypeOK, Arrive, Req
<1>1. Queue'
  BY DEF Queue
<1>2. Printed'
  BY DEF Printed
<1>3. Listeners'
  BY DEF Listeners, Queue
<1>4. Answered'
  BY DEF Answered, Queue
<1> QED
  BY <1>1, <1>2, <1>3, <1>4

LEMMA StartKeeps == IInv /\ TypeOK' /\ Start => IInv'
<1> SUFFICES ASSUME IInv, TypeOK', Start PROVE IInv'
  OBVIOUS
<1>t. Typed
  BY TypedLines DEF IInv
<1> USE DEF IInv, Start
<1>1. Queue'
  (* the request written before this one has been settled: the queue is idle *)
  <2>1. \A r \in Req : r <= written => st[r] \in {"done", "timedout"}
    BY <1>t DEF Queue, Busy, Status, TypeOK, Typed
  <2> QED
    BY <2>1, <1>t DEF Queue, TypeOK, Typed
<1>u. UNCHANGED <<emitted, read, ran>> /\ written' = written + 1 /\ Printed
  OBVIOUS
<1>2. Printed'
  BY ONLY <1>u, <1>t DEF Printed, Typed
<1>3. /\ \A r \in Req : r # written + 1 => st'[r] = st[r] /\ lo'[r] = lo[r]
      /\ written + 1 \in Req => st'[written + 1] = "running" /\ lo'[written + 1] = read + 1
      /\ UNCHANGED <<emitted, read, hi>> /\ written' = written + 1
  BY DEF TypeOK
<1>4. Listeners'
  <2>1. \A i \in 1..Len(emitted) : emitted[i].req # written + 1
    BY <1>t DEF Printed, Typed
  <2> QED
    BY <2>1, <1>3, <1>t DEF Listeners, Typed
<1>5. Answered'
  <2>1. \A r \in Req : r <= written' => r <= written \/ r = written + 1
    BY <1>3, <1>t DEF Typed
  <2>2. \A r \in Req : st'[r] = "done" => st[r] = "done" /\ lo'[r] = lo[r]
    BY <1>3
  <2> QED
    BY <2>1, <2>2, <1>3, <1>t DEF Answered, Typed
<1> QED
  BY <1>1, <1>2, <1>4, <1>5

LEMMA DeliverKeeps == IInv /\ TypeOK' /\ Deliver => IInv'
<1> SUFFICES ASSUME IInv, TypeOK', Deliver PROVE IInv'
  OBVIOUS
<1>1. UNCHANGED <<up, arrived, written, ran, timed, hangs, emitted>>
  BY DEF Deliver
<1>2. /\ read < read' /\ read' <= Len(emitted) /\ read' \in Nat /\ lo' = lo
  BY DeliverEffect
<1>3. CASE UNCHANGED <<st, hi>>
  <2>t. Typed
    BY TypedLines DEF IInv
  <2> USE <1>1, <1>2, <1>3, <2>t DEF IInv
  <2>1. Queue'
    BY DEF Queue
  <2>2. Printed'
    BY DEF Printed, Typed
  <2>3. Listeners'
    BY DEF Listeners, Typed
  <2>4. Answered'
    BY DEF Answered, Typed
  <2> QED
    BY <2>1, <2>2, <2>3, <2>4
<1>4. ASSUME NEW r \in Req, NEW i \in Nat,
             st[r] = "running",
             lo[r] <= i, i <= read',
             emitted[i].req = r, emitted[i].mark,
             st' = [st EXCEPT ![r] = "done"],
             hi' = [hi EXCEPT ![r] = i]
      PROVE  IInv'
  <2>t. Typed
    BY TypedLines DEF IInv
  <2>s. /\ \A q \in Req : q # r => st'[q] = st[q] /\ hi'[q] = hi[q]
        /\ st'[r] = "done" /\ hi'[r] = i
    BY <1>4 DEF IInv, TypeOK
  <2>p. i \in 1..Len(emitted) /\ i \in 1..read'
    BY <1>2, <1>4, <2>t DEF IInv, Listeners, Queue, Typed
  <2> USE <1>1, <1>2, <1>4 DEF IInv
  <2>0. r = written
    BY <2>t DEF Queue, Typed
  <2>1. Queue'
    BY <2>t, <2>s DEF Queue, Typed
  <2>2. Printed'
    BY <2>t DEF Printed, Typed
  <2>3. Listeners'
    BY <2>t DEF Listeners, Typed
  <2>4. Answered'
    BY <2>0, <2>t, <2>s, <2>p DEF Answered, Typed
  <2> QED
    BY <2>1, <2>2, <2>3, <2>4
<1> QED
  BY <1>3, <1>4, DeliverEffect

LEMMA TimeoutKeeps == ASSUME NEW r \in Req PROVE IInv /\ TypeOK' /\ Timeout(r) => IInv'
<1> SUFFICES ASSUME IInv, TypeOK', Timeout(r) PROVE IInv'
  OBVIOUS
<1> USE DEF IInv, TypeOK, Timeout, Req
<1>1. Queue'
  BY DEF Queue
<1>2. Printed'
  BY DEF Printed
<1>3. Listeners'
  BY DEF Listeners
<1>4. Answered'
  BY DEF Answered, Queue
<1> QED
  BY <1>1, <1>2, <1>3, <1>4

LEMMA ExitKeeps == IInv /\ TypeOK' /\ Exit => IInv'
<1> SUFFICES ASSUME IInv, TypeOK', Exit PROVE IInv'
  OBVIOUS
<1> USE DEF IInv, TypeOK, Exit, Req
<1>1. Queue'
  BY DEF Queue
<1>2. Printed'
  BY DEF Printed
<1>3. Listeners'
  BY DEF Listeners
<1>4. Answered'
  BY DEF Answered, Queue
<1> QED
  BY <1>1, <1>2, <1>3, <1>4

LEMMA PrintKeeps ==
  ASSUME NEW r \in Req, IInv, TypeOK',
         ShellLine(r) \/ ShellMark(r)
  PROVE  IInv'
<1>1. PICK m \in BOOLEAN : /\ Output(r, m)
                           /\ ran' = IF m THEN r ELSE ran
                           /\ UNCHANGED <<up, arrived, st, written, timed, hangs, read, lo, hi>>
  BY DEF ShellLine, ShellMark, Output
<1>2. /\ r = ran + 1 /\ r <= written
      /\ Len(emitted') = Len(emitted) + 1
      /\ \A i \in 1..Len(emitted) : emitted'[i] = emitted[i]
      /\ emitted'[Len(emitted) + 1].req = r
      /\ emitted'[Len(emitted) + 1].mark = m
  BY <1>1, PrintEffect
<1>t. Typed
  BY TypedLines DEF IInv
<1>l. \A i \in 1..Len(emitted)' : i = Len(emitted) + 1 \/ i \in 1..Len(emitted)
  BY <1>2, <1>t DEF Typed
<1>o. \A q \in Req : q <= written => lo[q] <= Len(emitted) + 1
  BY <1>t DEF IInv, Listeners, Printed, Typed
<1>h. \A q \in Req : st[q] = "done" => hi[q] \in 1..Len(emitted)
  BY <1>t DEF IInv, Answered, Printed, Typed
<1> USE <1>1, <1>2, <1>t DEF IInv, Typed
<1>3. Queue'
  BY DEF Queue
<1>r. /\ ran \in Nat /\ ran' \in Nat /\ ran <= ran'
      /\ written' = written /\ written \in Nat
  OBVIOUS
<1>p. \A i \in 1..Len(emitted) :
        /\ emitted'[i] = emitted[i]
        /\ emitted[i].req \in Nat
        /\ emitted[i].req <= written
        /\ emitted[i].req <= ran + 1
        /\ emitted[i].mark => emitted[i].req <= ran
  BY DEF Printed
<1>4. Printed'
  <2>1. read' <= Len(emitted')
    BY DEF Printed
  <2>2. ASSUME NEW i \in 1..Len(emitted')
        PROVE  /\ emitted'[i].req <= written'
               /\ emitted'[i].req <= ran' + 1
               /\ emitted'[i].mark => emitted'[i].req <= ran'
    <3>1. CASE i = Len(emitted) + 1
      BY <3>1
    <3>2. CASE i \in 1..Len(emitted)
      BY <1>p, <1>r, <3>2
    <3> QED
      BY <1>l, <3>1, <3>2
  <2>3. ASSUME NEW i \in 1..Len(emitted'), NEW j \in 1..Len(emitted'), i < j
        PROVE  /\ emitted'[i].req <= emitted'[j].req
               /\ emitted'[i].mark => emitted'[i].req < emitted'[j].req
    <3>1. i \in 1..Len(emitted)
      BY <1>l, <2>3
    <3>2. CASE j = Len(emitted) + 1
      BY <1>p, <1>r, <3>1, <3>2
    <3>3. CASE j \in 1..Len(emitted)
      BY <2>3, <3>1, <3>3 DEF Printed
    <3> QED
      BY <1>l, <3>2, <3>3
  <2> QED
    BY <2>1, <2>2, <2>3 DEF Printed
<1>5. Listeners'
  BY <1>l, <1>o DEF Listeners
<1>6. Answered'
  BY <1>h DEF Answered
<1> QED
  BY <1>3, <1>4, <1>5, <1>6

LEMMA Inductive == Spec => []IInv
<1>1. Init => IInv
  BY DEF Init, IInv, TypeOK, Queue, Printed, Listeners, Answered, Req, Status, Line
<1>2. IInv /\ TypeOK' /\ [Next]_vars => IInv'
  <2> SUFFICES ASSUME IInv, TypeOK', [Next]_vars PROVE IInv'
    OBVIOUS
  <2>1. CASE UNCHANGED vars
    BY <2>1 DEF vars, IInv, TypeOK, Queue, Printed, Listeners, Answered
  <2> QED
    BY <2>1, ArriveKeeps, StartKeeps, DeliverKeeps, TimeoutKeeps, ExitKeeps,
       PrintKeeps DEF Next
<1> QED
  BY <1>1, <1>2, TypeCorrect, PTL DEF Spec

-----------------------------------------------------------------------------
(* Foreign lines in an answer come from earlier requests that timed out: a  *)
(* request answered before this one printed its marker before this listener *)
(* was attached.                                                            *)
LEMMA ForeignFromInv == IInv => ForeignOnlyFromTimedOut
<1> SUFFICES ASSUME IInv, NEW r \in Req, st[r] = "done",
                    NEW i \in Answer(r), emitted[i].req # r
             PROVE  emitted[i].req < r /\ st[emitted[i].req] = "timedout"
  BY DEF ForeignOnlyFromTimedOut
<1>t. Typed
  BY TypedLines DEF IInv
<1> USE <1>t DEF IInv, Typed
<1>1. /\ i \in 1..Len(emitted) /\ hi[r] \in 1..Len(emitted)
      /\ lo[r] <= i /\ i <= hi[r] /\ r <= written
      /\ emitted[hi[r]].req = r
  BY DEF Answer, Queue, Printed, Listeners, Answered
<1>2. emitted[i].req \in Req
  BY <1>1 DEF Line
<1>3. emitted[i].req < r
  <2>1. CASE i = hi[r]
    BY <1>1, <2>1
  <2>2. CASE i < hi[r]
    BY <1>1, <1>2, <2>2 DEF Printed
  <2> QED
    BY <1>1, <2>1, <2>2
<1>4. st[emitted[i].req] # "done"
  <2> SUFFICES ASSUME st[emitted[i].req] = "done" PROVE FALSE
    OBVIOUS
  <2>1. hi[emitted[i].req] < i
    BY <1>1, <1>2, <1>3 DEF Answered
  <2>2. /\ hi[emitted[i].req] \in 1..Len(emitted)
        /\ emitted[hi[emitted[i].req]].req = emitted[i].req
        /\ emitted[hi[emitted[i].req]].mark
    BY <1>2 DEF Answered, Printed
  <2> QED
    BY <1>1, <1>2, <2>1, <2>2 DEF Printed
<1> QED
  BY <1>1, <1>2, <1>3, <1>4 DEF Queue

THEOREM ForeignLines == Spec => []ForeignOnlyFromTimedOut
BY ForeignFromInv, Inductive, PTL

(* An answer holds all its command printed *)
LEMMA CompleteFromInv == IInv => OwnOutputComplete
<1> SUFFICES ASSUME IInv, NEW r \in Req, st[r] = "done"
             PROVE  /\ \A i \in 1..Len(emitted) : emitted[i].req = r => i \in Answer(r)
                    /\ hi[r] \in 1..read
                    /\ emitted[hi[r]] = [req |-> r, mark |-> TRUE]
  BY DEF OwnOutputComplete
<1>t. Typed
  BY TypedLines DEF IInv
<1> USE <1>t DEF IInv, Typed
<1>1. /\ hi[r] \in 1..read /\ hi[r] \in 1..Len(emitted)
      /\ emitted[hi[r]].req = r /\ emitted[hi[r]].mark /\ r <= written
  BY DEF Answered, Queue, Printed
<1>3. emitted[hi[r]] = [req |-> r, mark |-> TRUE]
  <2>1. emitted[hi[r]] \in Line
    BY <1>1 DEF TypeOK
  <2> QED
    BY <1>1, <2>1 DEF Line
<1>2. ASSUME NEW i \in 1..Len(emitted), emitted[i].req = r
      PROVE  i \in Answer(r)
  <2>1. lo[r] <= i
    BY <1>1, <1>2 DEF Listeners
  <2>2. ~(hi[r] < i)
    BY <1>1, <1>2 DEF Printed
  <2> QED
    BY <1>1, <2>1, <2>2 DEF Answer
<1> QED
  BY <1>1, <1>2, <1>3

THEOREM CompleteAnswers == Spec => []OwnOutputComplete
BY CompleteFromInv, Inductive, PTL

(* Where the shell is still at an earlier command, that command was given   *)
(* up: an answered request was answered up to its marker, which only a      *)
(* finished command prints.                                                 *)
THEOREM SerialUnlessAbandoned == Spec => []OneUnlessAbandoned
<1>1. IInv => OneUnlessAbandoned
  <2> SUFFICES ASSUME IInv, NEW r \in Req, ran < r, r < written
               PROVE  st[r] = "timedout"
    BY DEF OneUnlessAbandoned
  <2>t. Typed
    BY TypedLines DEF IInv
  <2> USE <2>t DEF IInv, Typed
  <2>1. st[r] # "done"
    <3> SUFFICES ASSUME st[r] = "done" PROVE FALSE
      OBVIOUS
    <3>1. hi[r] \in 1..Len(emitted) /\ emitted[hi[r]].mark /\ emitted[hi[r]].req = r
      BY DEF Answered, Printed
    <3> QED
      BY <3>1 DEF Printed
  <2> QED
    BY <2>1 DEF Queue
<1> QED
  BY <1>1, Inductive, PTL

(* The outcome of a request does not change once it has one: a timer or a    *)
(* marker settles a running request only, the queue moves on to requests     *)
(* that have none yet, and the exit of the process resets the open ones.    *)
THEOREM OutcomesAreFinal == Spec => OutcomeIsFinal
<1>1. ASSUME IInv, [Next]_vars, NEW r \in Req, st[r] \in {"done", "timedout", "lost"}
      PROVE  st'[r] = st[r] /\ hi'[r] = hi[r]
  <2>t. st \in [Req -> Status] /\ hi \in [Req -> Nat]
    BY <1>1 DEF IInv, TypeOK
  <2>1. CASE Arrive \/ Start
    <3>1. CASE Arrive
      BY <1>1, <2>t, <3>1 DEF Arrive, IInv, TypeOK, Queue, Req
    <3>2. CASE Start
      BY <1>1, <2>t, <3>2 DEF Start, IInv, TypeOK, Queue, Req
    <3>. QED BY <2>1, <3>1, <3>2
  <2>2. CASE Deliver
    <3>1. CASE UNCHANGED <<st, hi>>
      BY <3>1
    <3>2. ASSUME NEW q \in Req, NEW i \in Nat, st[q] = "running",
                 st' = [st EXCEPT ![q] = "done"], hi' = [hi EXCEPT ![q] = i]
          PROVE  st'[r] = st[r] /\ hi'[r] = hi[r]
      BY <1>1, <2>t, <3>2
    <3>. QED BY <1>1, <2>2, <3>1, <3>2, DeliverEffect
  <2>3. ASSUME NEW q \in Req, Timeout(q) PROVE st'[r] = st[r] /\ hi' = hi
    BY <1>1, <2>t, <2>3 DEF Timeout
  <2>4. CASE Exit
    BY <1>1, <2>t, <2>4 DEF Exit
  <2>5. ASSUME NEW q \in Req, ShellLine(q) \/ ShellMark(q) PROVE UNCHANGED <<st, hi>>
    BY <2>5 DEF ShellLine, ShellMark
  <2>6. CASE UNCHANGED vars
    BY <2>6 DEF vars
  <2>. QED BY <1>1, <2>1, <2>2, <2>3, <2>4, <2>5, <2>6 DEF Next
<1>2. IInv /\ [Next]_vars =>
        [\A r \in Req : st[r] \in {"done", "timedout", "lost"} =>
           st'[r] = st[r] /\ hi'[r] = hi[r]]_vars
  BY <1>1
<1>. QED BY <1>2, Inductive, PTL DEF Spec, OutcomeIsFinal

-----------------------------------------------------------------------------
(* The control shell implements SerialExec *)

(* No answer is partial, and one that holds foreign text follows a rejection *)
LEMMA AnswerIsWhole ==
  ASSUME IInv, NEW r \in Req, st[r] = "done"
  PROVE  /\ AnswerOf(r) \in {"own", "mixed"}
         /\ AnswerOf(r) = "mixed" =>
              \E q \in Req : q < r /\ AnswerOf(q) = "rejected"
<1>1. OwnOutputComplete /\ ForeignOnlyFromTimedOut
  BY CompleteFromInv, ForeignFromInv
<1>2. Own(r) \subseteq Answer(r)
  BY <1>1 DEF OwnOutputComplete, Own
<1>3. ASSUME Answer(r) # Own(r)
      PROVE  \E q \in Req : q < r /\ st[q] = "timedout"
  <2>t. Typed
    BY TypedLines DEF IInv
  <2>1. PICK i \in Answer(r) : i \notin Own(r)
    BY <1>2, <1>3
  <2>2. i \in 1..Len(emitted)
    BY <2>t DEF IInv, Queue, Printed, Listeners, Answered, Answer, Typed
  <2>3. emitted[i].req \in Req /\ emitted[i].req # r
    BY <2>1, <2>2, <2>t DEF Own, Typed
  <2> QED
    BY <1>1, <2>1, <2>3 DEF ForeignOnlyFromTimedOut
<1> QED
  BY <1>2, <1>3 DEF AnswerOf

Whole ==
  \A r \in Req : st[r] = "done" =>
    /\ AnswerOf(r) \in {"own", "mixed"}
    /\ AnswerOf(r) = "mixed" =>
         \E q \in Req : q < r /\ AnswerOf(q) = "rejected"

(* The same of the state after a step *)
LEMMA WholeInv == IInv => Whole
BY AnswerIsWhole DEF Whole

LEMMA WholeNext == IInv' => Whole'
BY WholeInv, PTL

(* Only a status, a marker's position or a new line of its own changes what *)
(* a caller has seen                                                        *)
LEMMA ViewUnchanged ==
  ASSUME NEW q \in Req, UNCHANGED emitted, st'[q] = st[q], lo'[q] = lo[q], hi'[q] = hi[q]
  PROVE  AnswerOf(q)' = AnswerOf(q)
BY DEF AnswerOf, Answer, Own

LEMMA OneAnswer ==
  ASSUME NEW n \in Req, NEW v, AnswerOf(n)' = v,
         \A q \in Req : q # n => AnswerOf(q)' = AnswerOf(q)
  PROVE  [q \in Req |-> AnswerOf(q)]' = [[q \in Req |-> AnswerOf(q)] EXCEPT ![n] = v]
OBVIOUS

(* While a request runs, all before it are settled *)
LEMMA SettledSoFar ==
  ASSUME IInv
  PROVE  /\ Settled \in Nat /\ Settled <= arrived
         /\ \A r \in Req : st[r] = "running" => r = written /\ Settled = written - 1
         /\ up /\ ~Busy => Settled = written
BY DEF IInv, TypeOK, Queue, Settled, Busy, Req

THEOREM Implements == Spec => ImplementsSerialExec
<1>1. Init => Serial!Init
  BY DEF Init, Serial!Init, Settled, AnswerOf, Req
<1>2. IInv /\ IInv' /\ [Next]_vars => [Serial!Next]_Serial!svars
  <2> SUFFICES ASSUME IInv, IInv', [Next]_vars
               PROVE  Serial!Next \/ UNCHANGED Serial!svars
    OBVIOUS
  <2>t. Typed
    BY TypedLines DEF IInv
  <2> DEFINE View == [r \in Req |-> AnswerOf(r)]
  <2>s. ASSUME Settled' = Settled, arrived' = arrived,
               \A q \in Req : AnswerOf(q)' = AnswerOf(q)
        PROVE  UNCHANGED Serial!svars
    BY <2>s DEF Serial!svars, Req
  <2>1. CASE Arrive
    <3>1. \A q \in Req : AnswerOf(q)' = AnswerOf(q)
      <4>0. arrived + 1 \in Req /\ arrived < arrived + 1
        BY <2>1, <2>t DEF Arrive, Typed, Req
      <4>1. PICK n \in Req : /\ n = arrived + 1 /\ st[n] = "new"
                             /\ st' = [st EXCEPT ![n] = "queued"]
        BY <2>1, <4>0 DEF Arrive, IInv, Queue
      <4>2. AnswerOf(n) = "none"
        BY <4>1 DEF AnswerOf
      <4>3. st \in [Req -> Status] /\ st'[n] = "queued"
        BY <4>1 DEF IInv, TypeOK
      <4>4. AnswerOf(n)' = "none"
        BY <4>3 DEF AnswerOf
      <4>5. ASSUME NEW q \in Req, q # n PROVE AnswerOf(q)' = AnswerOf(q)
        <5>1. st'[q] = st[q] /\ lo'[q] = lo[q] /\ hi'[q] = hi[q] /\ UNCHANGED emitted
          BY <2>1, <4>1, <4>3, <4>5 DEF Arrive
        <5> QED
          BY <5>1, ViewUnchanged
      <4> QED
        BY <4>2, <4>4, <4>5
    <3>2. Settled' = Settled
      BY <2>1 DEF Arrive, Settled, IInv, TypeOK, Queue, Req
    <3> QED
      BY <2>1, <3>1, <3>2 DEF Arrive, Serial!Next, Serial!Request, Req
  <2>2. CASE Start
    <3>1. \A q \in Req : AnswerOf(q)' = AnswerOf(q)
      <4>1. PICK n \in Req : n = written + 1 /\ st[n] = "queued"
        BY <2>2, <2>t DEF Start, IInv, TypeOK, Queue, Status, Req
      <4>2. AnswerOf(n)' = AnswerOf(n)
        <5>1. st'[n] = "running"
          BY <2>2, <4>1 DEF Start, IInv, TypeOK
        <5>2. AnswerOf(n) = "none"
          BY <4>1 DEF AnswerOf
        <5>3. AnswerOf(n)' = "none"
          BY <5>1 DEF AnswerOf
        <5> QED
          BY <5>2, <5>3
      <4>3. ASSUME NEW q \in Req, q # n PROVE AnswerOf(q)' = AnswerOf(q)
        <5>1. st'[q] = st[q] /\ lo'[q] = lo[q] /\ hi'[q] = hi[q] /\ UNCHANGED emitted
          BY <2>2, <4>1, <4>3 DEF Start, IInv, TypeOK
        <5> QED
          BY <5>1, ViewUnchanged
      <4> QED
        BY <4>2, <4>3
    <3>2. Settled' = Settled
      <4>1. Settled = written
        BY <2>2, SettledSoFar DEF Start
      <4>2. written' = written + 1 /\ st'[written'] = "running"
        BY <2>2, <2>t DEF Start, IInv, TypeOK, Typed, Req
      <4> QED
        BY <4>1, <4>2, <2>t DEF Settled, Typed
    <3> QED
      BY <2>2, <2>s, <3>1, <3>2 DEF Start
  <2>3. CASE Deliver
    <3>1. UNCHANGED <<arrived, written, emitted>> /\ lo' = lo
      BY <2>3, DeliverEffect DEF Deliver
    <3>2. CASE UNCHANGED <<st, hi>>
      <4>1. \A q \in Req : AnswerOf(q)' = AnswerOf(q)
        BY <3>1, <3>2, ViewUnchanged
      <4>2. Settled' = Settled
        BY <3>1, <3>2 DEF Settled
      <4> QED
        BY <2>s, <3>1, <4>1, <4>2
    <3>3. ASSUME NEW r \in Req, NEW i \in Nat, st[r] = "running",
                 st' = [st EXCEPT ![r] = "done"], hi' = [hi EXCEPT ![r] = i]
          PROVE  Serial!Respond
      <4>1. /\ \A q \in Req : q # r => AnswerOf(q)' = AnswerOf(q)
            /\ st'[r] = "done"
        BY <3>1, <3>3, ViewUnchanged DEF IInv, TypeOK
      <4>2. r = written /\ Settled = r - 1 /\ r <= arrived
        BY <3>3, SettledSoFar DEF IInv, Queue
      <4>3. Settled' = Settled + 1
        BY <3>1, <4>1, <4>2, <2>t DEF Settled, Typed
      <4>4. /\ AnswerOf(r)' \in {"own", "mixed"}
            /\ AnswerOf(r)' = "mixed" =>
                 \E q \in Req : q < r /\ AnswerOf(q)' = "rejected"
        BY <4>1, WholeNext DEF Whole
      <4>5. AnswerOf(r)' = "mixed" => \E q \in 1..Settled : View[q] = "rejected"
        BY <4>1, <4>2, <4>4, <2>t DEF Typed, Req
      <4>6. View' = [View EXCEPT ![Settled + 1] = AnswerOf(r)']
        <5>1. r = Settled + 1
          BY <4>2, <2>t DEF Typed
        <5> QED
          BY <4>1, <5>1, OneAnswer
      <4>7. Settled < arrived /\ arrived' = arrived
        BY <3>1, <4>2, <2>t DEF Typed
      <4> QED
        BY <4>3, <4>4, <4>5, <4>6, <4>7 DEF Serial!Respond, Serial!Settle
    <3> QED
      BY <2>3, <3>2, <3>3, DeliverEffect DEF Serial!Next
  <2>4. ASSUME NEW r \in Req, Timeout(r) PROVE Serial!Reject
    <3>1. /\ \A q \in Req : q # r => AnswerOf(q)' = AnswerOf(q)
          /\ st'[r] = "timedout" /\ st[r] = "running"
          /\ UNCHANGED <<arrived, written>>
      BY <2>4, ViewUnchanged DEF Timeout, IInv, TypeOK
    <3>2. r = written /\ Settled = r - 1 /\ r <= arrived
      BY <3>1, SettledSoFar DEF IInv, Queue
    <3>3. Settled' = Settled + 1
      BY <3>1, <3>2, <2>t DEF Settled, Typed
    <3>4. View' = [View EXCEPT ![Settled + 1] = "rejected"]
      <4>1. AnswerOf(r)' = "rejected"
        BY <3>1 DEF AnswerOf
      <4>2. r = Settled + 1
        BY <3>2, <2>t DEF Typed
      <4> QED
        BY <3>1, <4>1, <4>2, OneAnswer
    <3>5. Settled < arrived
      BY <3>2, <2>t DEF Typed
    <3> QED
      BY <3>1, <3>3, <3>4, <3>5 DEF Serial!Reject, Serial!Settle
  <2>5. CASE Exit
    <3>1. \A q \in Req : q \in (Settled + 1)..arrived <=> st[q] \in {"queued", "running"}
      <4> TAKE q \in Req
      <4>1. q < written => st[q] \in {"done", "timedout"}
        BY DEF IInv, Queue
      <4>2. q = written => st[q] \in {"running", "done", "timedout"}
        BY <2>5, <2>t DEF Exit, IInv, Queue, Typed, TypeOK, Status
      <4>3. q > written /\ q <= arrived => st[q] = "queued"
        BY <2>5, <2>t DEF Exit, IInv, Queue, Typed, TypeOK, Status
      <4>4. q > arrived => st[q] = "new"
        BY DEF IInv, Queue
      <4>5. written \in Nat /\ arrived \in Nat /\ written <= arrived /\ q \in Nat /\ q >= 1
        BY <2>t DEF IInv, Queue, Typed, Req
      <4>6. Settled = IF written > 0 /\ st[written] \in {"running", "lost"}
                        THEN written - 1 ELSE written
        BY DEF Settled
      <4> QED
        BY <4>1, <4>2, <4>3, <4>4, <4>5, <4>6
    <3>2. \A q \in Req : AnswerOf(q)' = IF q \in (Settled + 1)..arrived
                                         THEN "lost" ELSE AnswerOf(q)
      <4> TAKE q \in Req
      <4>1. CASE st[q] \in {"queued", "running"}
        BY <2>5, <3>1, <4>1 DEF Exit, AnswerOf
      <4>2. CASE st[q] \notin {"queued", "running"}
        BY <2>5, <3>1, <4>2, ViewUnchanged DEF Exit
      <4> QED
        BY <4>1, <4>2
    <3>3. Settled' = Settled
      BY <2>5, <2>t DEF Exit, Settled, IInv, TypeOK, Queue, Req
    <3> QED
      BY <2>5, <3>2, <3>3 DEF Exit, Serial!Next, Serial!Fail, Req
  <2>6. ASSUME NEW r \in Req, ShellLine(r) \/ ShellMark(r)
        PROVE  UNCHANGED Serial!svars
    <3>1. PICK m \in BOOLEAN : Output(r, m)
      BY <2>6 DEF ShellLine, ShellMark
    <3>2. UNCHANGED <<arrived, st, written, lo, hi>>
      BY <2>6 DEF ShellLine, ShellMark
    <3>3. /\ r = ran + 1
          /\ Len(emitted') = Len(emitted) + 1
          /\ \A i \in 1..Len(emitted) : emitted'[i] = emitted[i]
          /\ emitted'[Len(emitted) + 1].req = r
      BY <3>1, PrintEffect
    <3>4. ASSUME NEW q \in Req, st[q] = "done" PROVE Own(q)' = Own(q)
      <4>1. q # r
        BY <3>3, <3>4, <2>t DEF IInv, Answered, Printed, Typed
      <4>2. \A i \in 1..Len(emitted') : i = Len(emitted) + 1 \/ i \in 1..Len(emitted)
        BY <3>3, <2>t DEF Typed
      <4> QED
        BY <3>3, <4>1, <4>2, <2>t DEF Own, Typed
    <3>5. \A q \in Req : AnswerOf(q)' = AnswerOf(q)
      BY <3>2, <3>4 DEF AnswerOf, Answer
    <3>6. Settled' = Settled
      BY <3>2 DEF Settled
    <3> QED
      BY <2>s, <3>2, <3>5, <3>6
  <2>7. CASE UNCHANGED vars
    BY <2>7 DEF vars, Serial!svars, Settled, AnswerOf, Answer, Own
  <2> QED
    BY <2>1, <2>2, <2>3, <2>4, <2>5, <2>6, <2>7 DEF Next, Serial!Next
<1> QED
  BY <1>1, <1>2, Inductive, PTL DEF Spec, ImplementsSerialExec, Serial!Spec
=============================================================================
