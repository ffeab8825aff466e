---------------------------- MODULE TunnelStream ----------------------------
(***************************************************************************)
(* One connection of a window to the remote host: through the SOCKS proxy   *)
(* of ssh (src/src/net/socks5.ts) to the Go transport, which serves one     *)
(* operation per connection (src/src/transport/client.ts,                   *)
(* src/go/tunnel/main.go), or to any other port (makeConnection,            *)
(* tcpConnect), and on to the consumer in the editor                        *)
(* (src/src/net/managedConnection.ts, src/src/remote/execServer.ts).        *)
(*                                                                          *)
(* Connections share nothing, so one is enough.  A message on the wire is   *)
(* two units, of which the second ends it, and a byte of a body is one; a   *)
(* data event carries any number of units, so that it may cut a message or  *)
(* join several.  The handlers that a data event runs are steps of their    *)
(* own (Handling), which come before any other event.                       *)
(***************************************************************************)
EXTENDS Integers, Sequences

CONSTANT Plans   \* the courses of events considered, see Plan

(* request: any operation with a short answer; probe: probeTransportAlive;   *)
(* get, read: getFile, and openGetFile as fs.read uses it; unix: connectUnix;*)
(* put: putFile, extract and openPutFile; tcp: any other port                *)
Ops == {"request", "probe", "get", "read", "unix", "spawn", "put", "tcp"}

(* hang: the proxy or the server stops answering; cut: the connection is     *)
(* lost; deny: the proxy or the operation is refused; token: the server has  *)
(* another bearer token; burst: a second data event comes in the same turn   *)
(* of the event loop, which a read that fills libuv's buffer makes possible; *)
(* ioerror: a file at the far end cannot be read or written to its end, or   *)
(* an archive is broken; close: closing an uploaded file fails, and some of  *)
(* what was written to it is lost                                            *)
FaultKinds == {"hang", "cut", "deny", "token", "burst", "ioerror", "close"}

Streams == {"out", "err"}

(* size: the bytes the far end sends on each stream, or those of an upload   *)
Plan == [op : Ops, size : [Streams -> Nat], faults : SUBSET FaultKinds]

ASSUME PlansAssumption == Plans \subseteq Plan

VARIABLES
  plan,      \* the course of events, fixed from the start
  at,        \* what the client's code is waiting for
  outcome,   \* the promise the caller holds
  proxy,     \* the proxy's side of the handshake
  server,    \* the handler at the far end
  line,      \* what the client's socket will see after the last unit
  down,      \* units on their way to the client
  inbox,     \* units handed to the listener and not yet parsed (buf)
  leftover,  \* units waiting for setImmediate
  made,      \* bytes the far end has sent, by stream
  got,       \* bytes the consumer received, by stream
  sent,      \* bytes of an upload the client wrote
  stored     \* bytes of an upload in the remote file

clientvars == <<at, outcome, inbox, leftover, got, sent>>
remotevars == <<proxy, server, made, stored>>
vars == <<plan, clientvars, remotevars, line, down>>

Handshake == {"greeting", "reply"}
States == {"dial", "upload", "drain", "status", "file", "stream", "frames", "over"}
            \cup Handshake

Kinds == {"greeting", "reply", "status", "exit"} \cup Streams
Unit == [kind : Kinds, value : Nat, ends : BOOLEAN]

TypeOK ==
  /\ plan \in Plans
  /\ at \in States
  /\ outcome \in {"pending", "ok", "error"}
  /\ proxy \in {"idle", "dialled", "asked", "open", "gone"}
  /\ server \in {"idle", "reading", "sending", "storing", "done"}
  /\ line \in {"up", "fin", "reset"}
  /\ down \in Seq(Unit) /\ inbox \in Seq(Unit) /\ leftover \in Seq(Unit)
  /\ made \in [Streams -> Nat]
  /\ got \in [Streams -> Seq(Nat)]
  /\ sent \in Nat /\ stored \in Nat

MayHappen(fault) == fault \in plan.faults

(* A message: its value counts only once its last unit is there.  0 refuses, *)
(* 1 grants                                                                  *)
Message(kind, value) ==
  << [kind |-> kind, value |-> value, ends |-> FALSE],
     [kind |-> kind, value |-> value, ends |-> TRUE] >>
Byte(n) == << [kind |-> "out", value |-> n, ends |-> TRUE] >>

Init ==
  /\ plan \in Plans
  /\ at = "dial" /\ outcome = "pending"
  /\ proxy = "idle" /\ server = "idle" /\ line = "up"
  /\ down = <<>> /\ inbox = <<>> /\ leftover = <<>>
  /\ made = [s \in Streams |-> 0]
  /\ got = [s \in Streams |-> <<>>]
  /\ sent = 0 /\ stored = 0

Settle(result) == at' = "over" /\ outcome' = result

-----------------------------------------------------------------------------
(* The client's handlers: socks5Connect *)

(* The parser has a whole message *)
Parsed == Len(inbox) >= 2

(* A data event is being handled, or the code after it goes on *)
Handling ==
  \/ at \in Handshake \cup {"status", "frames"} /\ Parsed
  \/ at \in {"file", "stream"} /\ inbox # <<>>
  \/ at = "upload"

Rest == SubSeq(inbox, 3, Len(inbox))

TakeGreeting ==
  /\ at = "greeting" /\ Parsed
  /\ \/ /\ inbox[2].value = 1
        /\ at' = "reply" /\ proxy' = "asked"
        /\ UNCHANGED outcome
     \/ /\ inbox[2].value = 0
        /\ Settle("error")
        /\ UNCHANGED proxy
  /\ inbox' = Rest
  /\ UNCHANGED <<plan, leftover, got, sent, server, made, stored, line, down>>

(* What the continuation of socks5Connect waits for, once it has written its *)
(* request *)
AfterHandshake ==
  CASE plan.op = "tcp" -> "stream"
    [] plan.op = "put" -> "upload"
    [] OTHER -> "status"

(* mutant: bytes behind the reply are dropped *)
TakeReply_DropRest ==
  /\ at = "reply" /\ Parsed
  /\ IF inbox[2].value = 1 THEN at' = AfterHandshake /\ UNCHANGED outcome
                           ELSE Settle("error")
  /\ inbox' = <<>>
  /\ UNCHANGED <<plan, remotevars, leftover, got, sent, line, down>>

(* The continuation has attached its listener before setImmediate runs *)
TakeReply ==
  /\ at = "reply" /\ Parsed
  /\ \/ /\ inbox[2].value = 1
        /\ at' = AfterHandshake
        /\ leftover' = Rest
        /\ UNCHANGED outcome
     \/ /\ inbox[2].value = 0
        /\ Settle("error")
        /\ UNCHANGED leftover
  /\ inbox' = <<>>
  /\ UNCHANGED <<plan, remotevars, got, sent, line, down>>

(* setImmediate(() => socket.emit("data", leftover)) *)
EmitLeftover ==
  /\ leftover # <<>> /\ ~Handling
  /\ inbox' = IF at = "over" THEN inbox ELSE inbox \o leftover
  /\ leftover' = <<>>
  /\ UNCHANGED <<plan, remotevars, at, outcome, got, sent, line, down>>

-----------------------------------------------------------------------------
(* readResponse() and what its caller does next *)

(* Those of openGetFile and connectUnix keep nothing of what came with the   *)
(* header: fs.read flushes it into an event nobody listens to yet, and       *)
(* connectUnix ignores rest                                                  *)
Dropping == {"read", "unix"}

Granted ==
  CASE plan.op \in {"request", "probe", "put"} -> "over"
    [] plan.op = "get" -> "file"
    [] plan.op = "spawn" -> "frames"
    [] OTHER -> "stream"

TakeStatus ==
  /\ at = "status" /\ Parsed
  /\ at' = IF inbox[2].value = 1 THEN Granted ELSE "over"
  /\ outcome' = CASE inbox[2].value = 0 -> "error"
                  [] inbox[2].value # 0 /\ Granted = "over" -> "ok"
                  [] OTHER -> "pending"
  /\ inbox' = IF plan.op \in Dropping THEN <<>> ELSE Rest
  /\ UNCHANGED <<plan, remotevars, leftover, got, sent, line, down>>

(* readFrames: drain() *)
TakeFrame ==
  /\ at = "frames" /\ Parsed
  /\ \/ /\ inbox[2].kind \in Streams
        /\ got' = [got EXCEPT ![inbox[2].kind] = Append(@, inbox[2].value)]
        /\ UNCHANGED <<at, outcome>>
     \/ /\ inbox[2].kind = "exit"
        /\ Settle("ok")
        /\ UNCHANGED got
  /\ inbox' = Rest
  /\ UNCHANGED <<plan, remotevars, leftover, sent, line, down>>

(* readToEnd, openGetFile's emit and wrapSocket pass a chunk on as it is *)
TakeBytes ==
  /\ at \in {"file", "stream"} /\ inbox # <<>>
  /\ got' = [got EXCEPT !["out"] =
               @ \o [i \in 1 .. Len(inbox) |-> inbox[i].value]]
  /\ inbox' = <<>>
  /\ UNCHANGED <<plan, remotevars, at, outcome, leftover, sent, line, down>>

(* putFile and extract: a chunk is written; write() may ask to wait for      *)
(* "drain"                                                                   *)
WriteChunk ==
  /\ at = "upload" /\ sent < plan.size["out"]
  /\ sent' = sent + 1
  /\ at' \in {"upload", "drain"}
  /\ UNCHANGED <<plan, remotevars, outcome, inbox, leftover, got, line, down>>

FinishUpload ==
  /\ at = "upload" /\ sent = plan.size["out"]
  /\ at' = "status"
  /\ UNCHANGED <<plan, remotevars, outcome, inbox, leftover, got, sent, line, down>>

-----------------------------------------------------------------------------
(* Events of the client's socket, and its timers *)

Event == at # "over" /\ ~Handling /\ (leftover = <<>> \/ MayHappen("burst"))

Dial ==
  /\ at = "dial"
  /\ \/ at' = "greeting" /\ proxy' = "dialled" /\ UNCHANGED outcome
     \/ MayHappen("deny") /\ Settle("error") /\ UNCHANGED proxy
  /\ UNCHANGED <<plan, inbox, leftover, got, sent, server, made, stored, line, down>>

(* A data event of n units.  While putFile waits for "drain" the socket has  *)
(* no data listener                                                          *)
Deliver(n) ==
  /\ Event /\ n <= Len(down)
  /\ inbox' = IF at = "drain" THEN inbox ELSE inbox \o SubSeq(down, 1, n)
  /\ down' = SubSeq(down, n + 1, Len(down))
  /\ UNCHANGED <<plan, remotevars, at, outcome, leftover, got, sent, line>>

Drain ==
  /\ Event /\ at = "drain" /\ line = "up" /\ stored = sent
  /\ at' = "upload"
  /\ UNCHANGED <<plan, remotevars, outcome, inbox, leftover, got, sent, line, down>>

(* "end" and "close": the handshake listens to neither, nor does putFile     *)
(* while it writes *)
SeeEnd ==
  /\ Event /\ line = "fin" /\ down = <<>>
  /\ \/ at \in {"status", "frames"} /\ Settle("error")
     \/ at \in {"file", "stream"} /\ Settle("ok")
  /\ UNCHANGED <<plan, remotevars, inbox, leftover, got, sent, line, down>>

(* "error": openGetFile takes it for an end *)
SeeError ==
  /\ Event /\ line = "reset"
  /\ \/ /\ at \in Handshake \cup {"status", "file", "frames"}
        /\ Settle("error")
     \/ /\ at = "stream"
        /\ Settle(IF plan.op = "read" THEN "ok" ELSE "error")
  /\ UNCHANGED <<plan, remotevars, inbox, leftover, got, sent, line, down>>

(* mutant: the timer is cleared with the greeting *)
Timer_GreetingOnly ==
  /\ Event
  /\ \/ at = "greeting"
     \/ at = "status" /\ plan.op = "probe"
  /\ Settle("error")
  /\ UNCHANGED <<plan, remotevars, inbox, leftover, got, sent, line, down>>

(* The timers of socks5Connect and, for a probe, of readNBytes.  No other    *)
(* operation has one                                                         *)
Timer ==
  /\ Event
  /\ \/ at \in Handshake
     \/ at = "status" /\ plan.op = "probe"
  /\ Settle("error")
  /\ UNCHANGED <<plan, remotevars, inbox, leftover, got, sent, line, down>>

Client ==
  \/ TakeGreeting \/ TakeReply \/ EmitLeftover \/ TakeStatus \/ TakeFrame
  \/ TakeBytes \/ WriteChunk \/ FinishUpload \/ Drain \/ SeeEnd \/ SeeError
  \/ \E n \in 1 .. Len(down) : Deliver(n)

-----------------------------------------------------------------------------
(* The proxy: ssh -D and the sshd behind it *)

Reply(kind, value) == down' = down \o Message(kind, value)

ProxyGreets ==
  /\ proxy = "dialled" /\ line = "up"
  /\ \/ Reply("greeting", 1)
     \/ MayHappen("deny") /\ Reply("greeting", 0)
  /\ proxy' = "idle"
  /\ UNCHANGED <<plan, clientvars, server, made, stored, line>>

ProxyConnects ==
  /\ proxy = "asked" /\ line = "up"
  /\ \/ /\ Reply("reply", 1)
        /\ proxy' = "open"
        /\ server' = IF plan.op = "tcp" THEN "sending" ELSE "reading"
     \/ /\ MayHappen("deny") /\ Reply("reply", 0)
        /\ proxy' = "gone"
        /\ UNCHANGED server
  /\ UNCHANGED <<plan, clientvars, made, stored, line>>

(* The connection is lost: what had not arrived may be *)
Cut ==
  /\ MayHappen("cut") /\ line = "up" /\ at \notin {"dial", "over"}
  /\ line' \in {"fin", "reset"}
  /\ down' \in {SubSeq(down, 1, n) : n \in 0 .. Len(down)}
  /\ proxy' = "gone" /\ server' = "done"
  /\ UNCHANGED <<plan, clientvars, made, stored>>

-----------------------------------------------------------------------------
(* The Go transport's handler *)

(* handleConn has read a request: the client writes it as soon as the        *)
(* handshake is over, and an upload follows it *)
Requested == server = "reading" /\ line = "up" /\ at \notin {"reply"}

(* A wrong token, or any early return: defer conn.Close() *)
Hangup(status) ==
  /\ down' = down \o status
  /\ server' = "done" /\ line' = "fin"

Refuse ==
  /\ Requested
  /\ \/ MayHappen("token") /\ Hangup(<<>>)
     \/ MayHappen("deny") /\ plan.op \notin {"request", "probe"}
          /\ Hangup(Message("status", 0))
  /\ UNCHANGED <<plan, clientvars, proxy, made, stored>>

(* doStat, doMkdir, doExec, doWaitFile ...: done, then answered.  made counts *)
(* that it was done *)
Answer ==
  /\ Requested /\ ~MayHappen("token")
  /\ plan.op \in {"request", "probe"}
  /\ \E ok \in {0, 1} :
       /\ ok = 1 \/ MayHappen("deny")
       /\ made' = [made EXCEPT !["out"] = IF ok = 1 THEN plan.size["out"] ELSE 0]
       /\ Hangup(Message("status", ok))
  /\ UNCHANGED <<plan, clientvars, proxy, stored>>

(* The status goes out before the first byte *)
Start(ops) ==
  /\ Requested /\ ~MayHappen("token")
  /\ plan.op \in ops
  /\ Reply("status", 1)
  /\ server' = "sending"
  /\ UNCHANGED <<plan, clientvars, proxy, made, stored, line>>

(* doGet; doSpawn, whose process runs and writes to the pipes; doConnect *)
StartGet == Start({"get", "read"})
StartSpawn == Start({"spawn"})
StartRelay == Start({"unix"})

(* io.Copy to the connection, or the two pumps, each frame under wmu *)
Produce(s) ==
  /\ server = "sending" /\ line = "up" /\ made[s] < plan.size[s]
  /\ s = "out" \/ plan.op = "spawn"
  /\ made' = [made EXCEPT ![s] = @ + 1]
  /\ down' = down \o IF plan.op = "spawn" THEN Message(s, made'[s])
                                          ELSE Byte(made'[s])
  /\ UNCHANGED <<plan, clientvars, proxy, server, stored, line>>

Drained == made["out"] = plan.size["out"]

(* mutant: the process is waited for, and the pumps are not *)
SendExit_NoWait ==
  /\ server = "sending" /\ line = "up" /\ plan.op = "spawn" /\ Drained
  /\ Hangup(Message("exit", 0))
  /\ UNCHANGED <<plan, clientvars, proxy, made, stored>>

(* wg.Wait(), cmd.Wait(), the exit frame *)
SendExit ==
  /\ server = "sending" /\ line = "up" /\ plan.op = "spawn"
  /\ made = plan.size
  /\ Hangup(Message("exit", 0))
  /\ UNCHANGED <<plan, clientvars, proxy, made, stored>>

(* The end of the file or of the peer's data closes the connection, and so   *)
(* does an error of reading the file: io.Copy's is ignored                   *)
EndOfData ==
  /\ server = "sending" /\ line = "up" /\ plan.op # "spawn"
  /\ Drained \/ (plan.op \in {"get", "read"} /\ MayHappen("ioerror"))
  /\ Hangup(<<>>)
  /\ UNCHANGED <<plan, clientvars, proxy, made, stored>>

(* doPut, doExtract: the file is opened, and filled until the half-close *)
StartPut ==
  /\ Requested /\ ~MayHappen("token") /\ plan.op = "put"
  /\ server' = "storing"
  /\ UNCHANGED <<plan, clientvars, proxy, made, stored, line, down>>

Store ==
  /\ server = "storing" /\ line = "up" /\ stored < sent
  /\ stored' = stored + 1
  /\ UNCHANGED <<plan, clientvars, proxy, server, made, line, down>>

(* Any error on the way is answered, with the body unread *)
StoreFails ==
  /\ server = "storing" /\ line = "up" /\ MayHappen("ioerror")
  /\ Hangup(Message("status", 0))
  /\ UNCHANGED <<plan, clientvars, proxy, made, stored>>

(* sock.end() was read as the end of the body.  What Close says is ignored *)
Stored ==
  /\ server = "storing" /\ line = "up" /\ stored = sent /\ at = "status"
  /\ \/ UNCHANGED stored
     \/ MayHappen("close") /\ stored' \in 0 .. stored
  /\ Hangup(Message("status", 1))
  /\ UNCHANGED <<plan, clientvars, proxy, made>>

Remote ==
  \/ ProxyGreets \/ ProxyConnects \/ Refuse \/ Answer
  \/ StartGet \/ StartSpawn \/ StartRelay
  \/ Produce("out") \/ Produce("err") \/ SendExit \/ EndOfData
  \/ StartPut \/ Store \/ StoreFails \/ Stored

Next == Client \/ Dial \/ Timer \/ Remote \/ Cut

(* The event loop runs and timers fire.  Proxy and server answer unless the  *)
(* plan lets them hang                                                       *)
Fairness ==
  /\ WF_vars(Dial) /\ WF_vars(Client) /\ WF_vars(Timer)
  /\ WF_vars(~MayHappen("hang") /\ Remote)

Spec == Init /\ [][Next]_vars
FairSpec == Spec /\ Fairness

-----------------------------------------------------------------------------
(* Properties *)

(* What the consumer is promised.  openGetFile as fs.read uses it and        *)
(* connectUnix lose what comes together with the header; and a second data   *)
(* event before setImmediate overtakes what came with the proxy's reply.     *)
Promise ==
  CASE MayHappen("burst") -> "any"
    [] ~MayHappen("burst") /\ plan.op \in Dropping -> "tail"
    [] OTHER -> "whole"

(* The consumer gets the bytes of each stream in the order they were sent,   *)
(* none twice and, with the exceptions above, none left out, however they    *)
(* are cut and joined on the way: TunnelStream implements ByteChannel.       *)
Channel == INSTANCE ByteChannel WITH promise <- Promise
ImplementsByteChannel == Channel!Spec

(* An operation that ends by a close, and so cannot tell it from a cut *)
EofDelimited == {"get", "read", "unix", "tcp"}

(* What is reported as a success was done completely: a request was carried  *)
(* out, a file is all there, a process's output precedes its exit.  The      *)
(* exceptions are those of operations that end with the connection, which    *)
(* take a cut for the end, and of doGet and doPut, which ignore an error of  *)
(* reading the file and of closing it: the client is told of a success, too. *)
SuccessIsWhole ==
  outcome = "ok" =>
    CASE plan.op \in {"request", "probe"} -> made["out"] = plan.size["out"]
      [] plan.op = "put" -> stored = plan.size["out"] \/ MayHappen("close")
      [] plan.op = "spawn" -> \A s \in Streams : Len(got[s]) = plan.size[s]
      [] plan.op = "get" ->
           \/ Len(got["out"]) = plan.size["out"]
           \/ line = "fin" /\ (MayHappen("cut") \/ MayHappen("ioerror"))
      [] OTHER -> TRUE

(* Nothing is waited for any more: the server hangs after the handshake,     *)
(* where only a probe has a timer, or putFile waits for a "drain" of a       *)
(* connection that is gone                                                   *)
Stuck ==
  \/ MayHappen("hang") /\ at \in States \ (Handshake \cup {"dial"})
  \/ at = "drain" /\ line # "up"

(* Every operation ends, successfully or not, a probe and a handshake even   *)
(* when the far end hangs, unless it is stuck as above.                      *)
Settles == <>(outcome # "pending" \/ (Stuck /\ plan.op # "probe"))
=============================================================================
