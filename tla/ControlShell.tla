---------------------------- MODULE ControlShell ----------------------------
(***************************************************************************)
(* The control shell of a local server (src/src/ssh/localServer.ts): one    *)
(* interactive `sh` behind one ssh child, shared by every exec and          *)
(* put-file request of every attached window.                               *)
(*                                                                          *)
(* Requests are numbered in the order their handlers chain themselves on    *)
(* state.execQueue, so the queue is the interval written+1..arrived.  What  *)
(* the shell has printed is one append-only sequence of lines; a position   *)
(* in it stands for the bytes up to the end of that line.  A listener       *)
(* collects from the first position it is offered (lo) to the position of   *)
(* its exit marker (hi), and the answer to request r is that interval.      *)
(*                                                                          *)
(* Abstracted: the text of commands and lines, the exit code (it travels in *)
(* the marker line, whose nonce names the request), request validation.     *)
(***************************************************************************)
EXTENDS Integers, Sequences, FiniteSets

CONSTANTS
  MaxReq,      \* bound: number of exec and put-file requests
  MaxLines,    \* bound: output lines one command prints before its marker
  MayTimeOut,  \* the requests that may carry a timeoutMs (reconnect probe, ...)
  MayHang      \* the commands that may never finish

ASSUME MaxReqAssumption == MaxReq \in Nat \ {0}
ASSUME MaxLinesAssumption == MaxLines \in Nat
ASSUME MayTimeOutAssumption == MayTimeOut \subseteq 1..MaxReq
ASSUME MayHangAssumption == MayHang \subseteq 1..MaxReq

VARIABLES
  up,        \* the local server process runs
  arrived,   \* requests chained on execQueue so far
  st,        \* what became of each request
  written,   \* requests whose command was written to the shell's stdin
  ran,       \* commands the shell has finished
  timed,     \* the requests that carry a timeout in this behaviour
  hangs,     \* the commands that never finish in this behaviour
  emitted,   \* every line the shell ever printed
  read,      \* lines handed to a data event so far
  lo, hi     \* the interval of lines collected for each request

vars == <<up, arrived, st, written, ran, timed, hangs, emitted, read, lo, hi>>

Req == 1..MaxReq
Line == [req : Req, mark : BOOLEAN]
Status == {"new", "queued", "running", "done", "timedout", "lost"}

TypeOK ==
  /\ up \in BOOLEAN
  /\ arrived \in 0..MaxReq
  /\ st \in [Req -> Status]
  /\ written \in 0..MaxReq
  /\ ran \in 0..MaxReq
  /\ timed \subseteq Req
  /\ hangs \subseteq Req
  /\ emitted \in Seq(Line)
  /\ read \in Nat
  /\ lo \in [Req -> Nat]
  /\ hi \in [Req -> Nat]

Init ==
  /\ up = TRUE
  /\ arrived = 0
  /\ st = [r \in Req |-> "new"]
  /\ written = 0
  /\ ran = 0
  /\ timed \in SUBSET MayTimeOut
  /\ hangs \in SUBSET MayHang
  /\ emitted = <<>>
  /\ read = 0
  /\ lo = [r \in Req |-> 0]
  /\ hi = [r \in Req |-> 0]

(* execQueue.then is pending while a request is running *)
Busy == \E r \in Req : st[r] = "running"

(* The position at which the marker of r completes a line, among the lines  *)
(* collected up to position to.                                             *)
MarkerIn(r, from, to) ==
  {i \in from..to : emitted[i].req = r /\ emitted[i].mark}

-----------------------------------------------------------------------------
(* The server process *)

(* runShellCommand: chain the command behind those already queued *)
Arrive ==
  /\ up
  /\ arrived < MaxReq
  /\ arrived' = arrived + 1
  /\ st' = [st EXCEPT ![arrived + 1] = "queued"]
  /\ UNCHANGED <<up, written, ran, timed, hangs, emitted, read, lo, hi>>

(* mutant: the command is written without waiting for the queue *)
Start_NoQueue ==
  /\ up
  /\ written < arrived
  /\ written' = written + 1
  /\ st' = [st EXCEPT ![written + 1] = "running"]
  /\ lo' = [lo EXCEPT ![written + 1] = read + 1]
  /\ UNCHANGED <<up, arrived, ran, timed, hangs, emitted, read, hi>>

(* doRunShellCommand: attach the data listener, then write to stdin *)
Start ==
  /\ up
  /\ ~Busy
  /\ written < arrived
  /\ written' = written + 1
  /\ st' = [st EXCEPT ![written + 1] = "running"]
  /\ lo' = [lo EXCEPT ![written + 1] = read + 1]
  /\ UNCHANGED <<up, arrived, ran, timed, hangs, emitted, read, hi>>

(* mutant: every chunk is scanned on its own, the earlier ones are dropped *)
Collect_PerChunk(to) ==
  /\ read' = to
  /\ \E r \in Req :
       /\ st[r] = "running"
       /\ IF MarkerIn(r, read + 1, to) = {}
            THEN lo' = [lo EXCEPT ![r] = to + 1] /\ UNCHANGED <<st, hi>>
            ELSE /\ st' = [st EXCEPT ![r] = "done"]
                 /\ \E i \in MarkerIn(r, read + 1, to) : hi' = [hi EXCEPT ![r] = i]
                 /\ UNCHANGED lo

(* onData with a listener: the buffer keeps everything since the listener   *)
(* was attached; the marker's line settles the request, and what follows it *)
(* in the same chunk is dropped with the buffer.                            *)
Collect(to) ==
  /\ read' = to
  /\ \E r \in Req :
       /\ st[r] = "running"
       /\ IF MarkerIn(r, lo[r], to) = {}
            THEN UNCHANGED <<st, hi>>
            ELSE /\ st' = [st EXCEPT ![r] = "done"]
                 /\ \E i \in MarkerIn(r, lo[r], to) : hi' = [hi EXCEPT ![r] = i]
  /\ UNCHANGED lo

(* One data event: a chunk of one or more lines.  Without a listener the    *)
(* stream stays in flowing mode and the chunk is lost.                      *)
Deliver ==
  /\ up
  /\ \E to \in (read + 1)..Len(emitted) :
       \/ /\ Busy
          /\ Collect(to)
       \/ /\ ~Busy
          /\ read' = to
          /\ UNCHANGED <<st, lo, hi>>
  /\ UNCHANGED <<up, arrived, written, ran, timed, hangs, emitted>>

(* mutant: the timer does not look at the settled flag *)
Timeout_AnyTime(r) ==
  /\ up
  /\ r \in timed
  /\ st[r] \in {"running", "done"}
  /\ st' = [st EXCEPT ![r] = "timedout"]
  /\ UNCHANGED <<up, arrived, written, ran, timed, hangs, emitted, read, lo, hi>>

(* mutant: the first output of the command clears the timer *)
Timeout_Silent(r) ==
  /\ up
  /\ r \in timed
  /\ st[r] = "running"
  /\ read < lo[r]
  /\ st' = [st EXCEPT ![r] = "timedout"]
  /\ UNCHANGED <<up, arrived, written, ran, timed, hangs, emitted, read, lo, hi>>

(* The exec timer: reject the request and detach its listener.  The shell   *)
(* is not told: the command keeps running there.                            *)
Timeout(r) ==
  /\ up
  /\ r \in timed
  /\ st[r] = "running"
  /\ st' = [st EXCEPT ![r] = "timedout"]
  /\ UNCHANGED <<up, arrived, written, ran, timed, hangs, emitted, read, lo, hi>>

(* The ssh child closes (or a shutdown): the process exits and every        *)
(* request still open sees its connection reset.                            *)
Exit ==
  /\ up
  /\ up' = FALSE
  /\ st' = [r \in Req |-> IF st[r] \in {"queued", "running"} THEN "lost" ELSE st[r]]
  /\ UNCHANGED <<arrived, written, ran, timed, hangs, emitted, read, lo, hi>>

-----------------------------------------------------------------------------
(* The remote shell (external): it reads commands from stdin in the order written and  *)
(* prints the marker of each when the command has finished.                 *)

Output(r, mark) ==
  /\ up
  /\ r = ran + 1
  /\ r <= written
  /\ emitted' = Append(emitted, [req |-> r, mark |-> mark])

ShellLine(r) ==
  /\ Output(r, FALSE)
  /\ Cardinality({i \in 1..Len(emitted) : emitted[i].req = r}) < MaxLines
  /\ UNCHANGED <<up, arrived, st, written, ran, timed, hangs, read, lo, hi>>

ShellMark(r) ==
  /\ Output(r, TRUE)
  /\ r \notin hangs
  /\ ran' = r
  /\ UNCHANGED <<up, arrived, st, written, timed, hangs, read, lo, hi>>

-----------------------------------------------------------------------------
Next ==
  \/ Arrive
  \/ Start
  \/ Deliver
  \/ \E r \in Req : Timeout(r)
  \/ Exit
  \/ \E r \in Req : ShellLine(r)
  \/ \E r \in Req : ShellMark(r)

Spec == Init /\ [][Next]_vars

(* The event loop runs the queue, delivers data and fires timers; the shell *)
(* finishes a command that does not hang.  Nothing makes requests arrive.   *)
Fairness ==
  /\ WF_vars(Start)
  /\ WF_vars(Deliver)
  /\ \A r \in Req : WF_vars(Timeout(r)) /\ WF_vars(ShellMark(r))

FairSpec == Spec /\ Fairness
-----------------------------------------------------------------------------
(* Properties *)

(* Whose lines an answer holds *)
Answer(r) == lo[r]..hi[r]

(* "Serialized: one command at a time" (localServer.ts:487), as far as it     *)
(* goes: the shell may hold a command behind an unfinished one, but only    *)
(* because the timer of the unfinished one gave it up; it never holds two    *)
(* commands whose requests are still waited for or were answered.           *)
OneUnlessAbandoned ==
  \A r \in Req : ran < r /\ r < written => st[r] = "timedout"

(* doRunShellCommand's "stdout is everything before the marker line": a     *)
(* line of another request can only be in an answer when that other request *)
(* came earlier and was given up by its timer.  It is never a line of a     *)
(* request that was answered, nor of a later one.                           *)
ForeignOnlyFromTimedOut ==
  \A r \in Req : st[r] = "done" =>
    \A i \in Answer(r) :
      emitted[i].req # r => emitted[i].req < r /\ st[emitted[i].req] = "timedout"

(* The answer holds every line its command printed, whatever the chunking   *)
(* of the data events, and ends with its own marker: nothing of it is lost  *)
(* between the write and the listener, nor left over for the next request.  *)
OwnOutputComplete ==
  \A r \in Req : st[r] = "done" =>
    /\ \A i \in 1..Len(emitted) : emitted[i].req = r => i \in Answer(r)
    /\ hi[r] \in 1..read
    /\ emitted[hi[r]] = [req |-> r, mark |-> TRUE]

(* The exchange of a settled request is over for good: a late marker, a     *)
(* late timer or the exit of the process never changes an outcome.          *)
OutcomeIsFinal ==
  [][\A r \in Req : st[r] \in {"done", "timedout", "lost"} =>
        st'[r] = st[r] /\ hi'[r] = hi[r]]_vars

(* Each request is answered, rejected by its timer, or reset by the exit of  *)
(* the server, unless it or one after a hanging command carries no timeout: *)
(* that one blocks the queue for good.                                      *)
Patient == \A h \in hangs : h..MaxReq \subseteq timed

EverySettles ==
  \A r \in Req :
    st[r] = "queued" /\ Patient ~> st[r] \in {"done", "timedout", "lost"}

(* The caller's view of request r: the output of its command and nothing    *)
(* else, that and some other text, a part of it, or an error.               *)
Own(r) == {i \in 1..Len(emitted) : emitted[i].req = r}

AnswerOf(r) ==
  CASE st[r] = "done" -> IF Answer(r) = Own(r) THEN "own"
                         ELSE IF Own(r) \subseteq Answer(r) THEN "mixed" ELSE "partial"
    [] st[r] = "timedout" -> "rejected"
    [] st[r] = "lost" -> "lost"
    [] OTHER -> "none"

(* Requests settled so far: all that were written, but for one still running *)
(* or lost while it ran                                                     *)
Settled ==
  IF written > 0 /\ st[written] \in {"running", "lost"} THEN written - 1 ELSE written

Serial == INSTANCE SerialExec WITH
  answered <- Settled, answer <- [r \in Req |-> AnswerOf(r)]

(* The control shell implements the serial server: one answer at a time, in *)
(* the order of the requests, and no foreign text before a first rejection. *)
ImplementsSerialExec == Serial!Spec
=============================================================================
