--------------------------- MODULE SessionServer ----------------------------
(***************************************************************************)
(* The session layer: detached local servers (src/src/ssh/localServer.ts),  *)
(* each owning one ssh child, and the SshSessionClient instances of several *)
(* windows (src/src/ssh/sshSession/client.ts) that find them through one    *)
(* persistence file, attach, keep them alive and detach.                    *)
(*                                                                          *)
(* Time is counted in keepalive intervals (KEEPALIVE_INTERVAL_MS, 6s).      *)
(* Servers are numbered in the order they are spawned.  Windows may be      *)
(* killed and ssh children may close or stall at any moment.                *)
(*                                                                          *)
(* Abstracted: the bearer token, request framing, logs, the SOCKS port      *)
(* (fixed per server).  All clients here use the same persistence file: it  *)
(* is keyed by their destination label.                                     *)
(***************************************************************************)
EXTENDS Integers, FiniteSets

CONSTANTS
  Clients,         \* SshSessionClient instances, in one or several windows
  MaxServers,      \* bound: local servers ever spawned
  MaxRefcount,     \* bound: attaches a server counts (kills leave theirs)
  ShutdownTicks,   \* shutdownTimeoutMs in keepalive intervals (18s = 3)
  HandshakeTicks,  \* handshakeTimeoutMs in keepalive intervals
  ReadyTicks       \* the deadline of waitForReady in keepalive intervals

ASSUME MaxServersAssumption == MaxServers \in Nat \ {0}
ASSUME MaxRefcountAssumption == MaxRefcount \in Nat \ {0}
ASSUME ShutdownAssumption == ShutdownTicks \in Nat /\ ShutdownTicks >= 2
ASSUME HandshakeAssumption ==
  HandshakeTicks \in Nat \ {0} /\ ReadyTicks \in Nat \ {0}

NoServer == 0
Server == 1..MaxServers

VARIABLES
  phase,     \* each server: unborn, handshake, recorded, listening, and how
             \* it ended: gone, failed (exit without cleanup), killed
  stalled,   \* the ssh connection is dead though its process lives
  timer,     \* intervals left: of the handshake, then of the shutdown timer
  refcount,  \* state.refcount of each server
  file,      \* the server the persistence file names, or NoServer
  pc,        \* each client: idle, probing, probed, spawned, ready, started
  conn,      \* the server a client talks to
  counted,   \* clients whose /attach was served and that have not detached
  pinging,   \* clients whose keepalive interval runs
  pinged     \* clients whose keepalive has fired in the current interval

svrvars == <<phase, stalled, timer, refcount, file>>
clvars == <<pc, conn, counted, pinging, pinged>>
vars == <<svrvars, clvars>>

Phase == {"unborn", "handshake", "recorded", "listening", "gone", "failed", "killed"}
ClientPc == {"idle", "probing", "probed", "spawned", "ready", "started"}

MaxTicks == IF HandshakeTicks < ShutdownTicks THEN ShutdownTicks ELSE HandshakeTicks

TypeOK ==
  /\ phase \in [Server -> Phase]
  /\ stalled \in [Server -> BOOLEAN]
  /\ timer \in [Server -> 0..MaxTicks]
  /\ refcount \in [Server -> 0..MaxRefcount]
  /\ file \in Server \cup {NoServer}
  /\ pc \in [Clients -> ClientPc]
  /\ conn \in [Clients -> Server \cup {NoServer}]
  /\ counted \subseteq Clients
  /\ pinging \subseteq Clients
  /\ pinged \subseteq Clients

Init ==
  /\ phase = [s \in Server |-> "unborn"]
  /\ stalled = [s \in Server |-> FALSE]
  /\ timer = [s \in Server |-> 0]
  /\ refcount = [s \in Server |-> 0]
  /\ file = NoServer
  /\ pc = [c \in Clients |-> "idle"]
  /\ conn = [c \in Clients |-> NoServer]
  /\ counted = {}
  /\ pinging = {}
  /\ pinged = {}

Up(s) == s \in Server /\ phase[s] = "listening"
Alive(s) == phase[s] \in {"handshake", "recorded", "listening"}
Ended(s) == phase[s] \in {"gone", "failed", "killed"}

-----------------------------------------------------------------------------
(* Clients: SshSessionClient.start, stop and the keepalive interval *)

(* The client is over, or its window: it holds nothing any more *)
GoesIdle(c) ==
  /\ pc' = [pc EXCEPT ![c] = "idle"]
  /\ conn' = [conn EXCEPT ![c] = NoServer]
  /\ counted' = counted \ {c}
  /\ pinging' = pinging \ {c}
  /\ pinged' = pinged \ {c}

(* Spawn a detached server with its own handle path and wait for it *)
Spawn(c) ==
  \E s \in Server :
    /\ phase[s] = "unborn"
    /\ \A q \in Server : phase[q] = "unborn" => s <= q
    /\ phase' = [phase EXCEPT ![s] = "handshake"]
    /\ timer' = [timer EXCEPT ![s] = HandshakeTicks]
    /\ conn' = [conn EXCEPT ![c] = s]
    /\ pc' = [pc EXCEPT ![c] = "spawned"]
    /\ UNCHANGED <<stalled, refcount, counted, pinging, pinged>>

(* start(): read the persistence file; without a record, spawn *)
Start(c) ==
  /\ pc[c] = "idle"
  /\ \/ /\ file # NoServer
        /\ pc' = [pc EXCEPT ![c] = "probing"]
        /\ conn' = [conn EXCEPT ![c] = file]
        /\ UNCHANGED <<svrvars, counted, pinging, pinged>>
     \/ /\ file = NoServer
        /\ Spawn(c)
        /\ UNCHANGED file

(* tryReconnect: /status and a real exec of `true` both answer *)
ProbeAnswers(c) ==
  /\ pc[c] = "probing"
  /\ Up(conn[c])
  /\ ~stalled[conn[c]]
  /\ pc' = [pc EXCEPT ![c] = "probed"]
  /\ UNCHANGED <<svrvars, conn, counted, pinging, pinged>>

(* tryReconnect's catch: whatever the failure, unlink the record, then      *)
(* start() spawns a fresh server.                                           *)
ProbeFails(c) ==
  /\ pc[c] = "probing"
  /\ ~Up(conn[c]) \/ stalled[conn[c]]
  /\ file' = NoServer
  /\ Spawn(c)

(* waitForReady sees /status answer, and start() reads the SOCKS port *)
Ready(c) ==
  /\ pc[c] = "spawned"
  /\ Up(conn[c])
  /\ pc' = [pc EXCEPT ![c] = "ready"]
  /\ UNCHANGED <<svrvars, conn, counted, pinging, pinged>>

(* The deadline of waitForReady is counted from the spawn, as is the        *)
(* handshake timer of the server.                                           *)
WaitIsOver(c) ==
  /\ pc[c] = "spawned"
  /\ phase[conn[c]] = "handshake"
  /\ HandshakeTicks - timer[conn[c]] >= ReadyTicks

(* start() throws: the server exited before ready, or the deadline passed *)
StartFails(c) ==
  /\ pc[c] = "spawned"
  /\ Ended(conn[c]) \/ WaitIsOver(c)
  /\ GoesIdle(c)
  /\ UNCHANGED svrvars

(* mutant: a client that reconnects is not attached *)
Attach_OnlySpawner(c) ==
  /\ pc[c] \in {"probed", "ready"}
  /\ Up(conn[c]) => refcount[conn[c]] < MaxRefcount
  /\ pc' = [pc EXCEPT ![c] = "started"]
  /\ pinging' = pinging \cup {c}
  /\ pinged' = pinged \cup {c}
  /\ counted' = IF Up(conn[c]) THEN counted \cup {c} ELSE counted
  /\ refcount' = IF Up(conn[c]) /\ pc[c] = "ready"
                   THEN [refcount EXCEPT ![conn[c]] = @ + 1] ELSE refcount
  /\ timer' = IF Up(conn[c]) THEN [timer EXCEPT ![conn[c]] = ShutdownTicks] ELSE timer
  /\ UNCHANGED <<phase, stalled, file, conn>>

(* /attach, its failure ignored, then startKeepalive: the first ping is due *)
(* one interval later.                                                      *)
Attach(c) ==
  /\ pc[c] \in {"probed", "ready"}
  /\ pc' = [pc EXCEPT ![c] = "started"]
  /\ pinging' = pinging \cup {c}
  /\ pinged' = pinged \cup {c}
  /\ \/ /\ Up(conn[c])
        /\ refcount[conn[c]] < MaxRefcount
        /\ counted' = counted \cup {c}
        /\ refcount' = [refcount EXCEPT ![conn[c]] = @ + 1]
        /\ timer' = [timer EXCEPT ![conn[c]] = ShutdownTicks]
     \/ /\ ~Up(conn[c])
        /\ UNCHANGED <<counted, refcount, timer>>
  /\ UNCHANGED <<phase, stalled, file, conn>>

(* mutant: /delay-shutdown answers without resetting the timer *)
Ping_NoReset(c) ==
  /\ c \in pinging \ pinged
  /\ pinged' = pinged \cup {c}
  /\ pinging' = IF Up(conn[c]) THEN pinging ELSE pinging \ {c}
  /\ UNCHANGED <<svrvars, pc, conn, counted>>

(* The keepalive interval: /delay-shutdown; the first failure ends it *)
Ping(c) ==
  /\ c \in pinging \ pinged
  /\ pinged' = pinged \cup {c}
  /\ \/ /\ Up(conn[c])
        /\ timer' = [timer EXCEPT ![conn[c]] = ShutdownTicks]
        /\ UNCHANGED pinging
     \/ /\ ~Up(conn[c])
        /\ pinging' = pinging \ {c}
        /\ UNCHANGED timer
  /\ UNCHANGED <<phase, stalled, refcount, file, pc, conn, counted>>

(* stop(): end the keepalive and /detach; a gone server is ignored *)
Stop(c) ==
  /\ pc[c] = "started"
  /\ GoesIdle(c)
  /\ \/ /\ Up(conn[c])
        /\ refcount' = [refcount EXCEPT ![conn[c]] = IF @ > 0 THEN @ - 1 ELSE 0]
        /\ timer' = IF refcount'[conn[c]] = 0
                      THEN [timer EXCEPT ![conn[c]] = ShutdownTicks] ELSE timer
     \/ /\ ~Up(conn[c])
        /\ UNCHANGED <<refcount, timer>>
  /\ UNCHANGED <<phase, stalled, file>>

(* The window is killed: nothing is sent *)
Crash(c) ==
  /\ pc[c] # "idle"
  /\ GoesIdle(c)
  /\ UNCHANGED svrvars

-----------------------------------------------------------------------------
(* Local servers *)

(* The process is no more, and its memory neither *)
Exit(s, how) ==
  /\ phase' = [phase EXCEPT ![s] = how]
  /\ timer' = [timer EXCEPT ![s] = 0]
  /\ refcount' = [refcount EXCEPT ![s] = 0]
  /\ stalled' = [stalled EXCEPT ![s] = FALSE]

(* The ready marker came back: write the record, start the shutdown timer *)
HandshakeDone(s) ==
  /\ phase[s] = "handshake"
  /\ phase' = [phase EXCEPT ![s] = "recorded"]
  /\ file' = s
  /\ timer' = [timer EXCEPT ![s] = ShutdownTicks]
  /\ UNCHANGED <<stalled, refcount, clvars>>

(* waitForReady's timeout in main(): exit without cleanup *)
HandshakeTimeout(s) ==
  /\ phase[s] = "handshake"
  /\ timer[s] = 0
  /\ Exit(s, "gone")
  /\ UNCHANGED <<file, clvars>>

(* The socket is open: /status answers from now on *)
Listen(s) ==
  /\ phase[s] = "recorded"
  /\ phase' = [phase EXCEPT ![s] = "listening"]
  /\ UNCHANGED <<stalled, timer, refcount, file, clvars>>

(* The http server's 'error' listener: a failing listen, or accept later on. *)
(* The process exits without cleanup(), and its record stays.               *)
HttpError(s) ==
  /\ phase[s] \in {"recorded", "listening"}
  /\ Exit(s, "failed")
  /\ UNCHANGED <<file, clvars>>

(* mutant: the record survives the server *)
Cleanup_KeepFile(s) ==
  /\ Exit(s, "gone")
  /\ UNCHANGED <<file, clvars>>

(* cleanup(): kill ssh, unlink the socket and the data file, whichever      *)
(* server's record that file holds by now; then the process exits.          *)
Cleanup(s) ==
  /\ Exit(s, "gone")
  /\ file' = NoServer
  /\ UNCHANGED clvars

(* mutant: the timer waits for the refcount to reach zero *)
Fire_WhenUnreferenced(s) ==
  /\ phase[s] \in {"recorded", "listening"}
  /\ timer[s] = 0
  /\ refcount[s] = 0
  /\ Cleanup(s)

(* The shutdown timer fires *)
Fire(s) ==
  /\ phase[s] \in {"recorded", "listening"}
  /\ timer[s] = 0
  /\ Cleanup(s)

(* The ssh child closes, authentication failures included *)
SshCloses(s) ==
  /\ Alive(s)
  /\ Cleanup(s)

(* The process is killed outright (SIGTERM is only logged) *)
Kill(s) ==
  /\ Alive(s)
  /\ Exit(s, "killed")
  /\ UNCHANGED <<file, clvars>>

(* The TCP connection dies and the ssh child has not noticed *)
SshStalls(s) ==
  /\ Up(s)
  /\ stalled' = [stalled EXCEPT ![s] = TRUE]
  /\ UNCHANGED <<phase, timer, refcount, file, clvars>>

-----------------------------------------------------------------------------
(* One keepalive interval passes: every interval timer has fired in it, no  *)
(* expired timer is left pending and no deadline is overdue.                *)
Tick ==
  /\ pinging \subseteq pinged
  /\ \A s \in Server : Alive(s) => timer[s] > 0
  /\ \A c \in Clients : ~WaitIsOver(c)
  /\ \E s \in Server : Alive(s)
  /\ timer' = [s \in Server |-> IF Alive(s) THEN timer[s] - 1 ELSE timer[s]]
  /\ pinged' = {}
  /\ UNCHANGED <<phase, stalled, refcount, file, pc, conn, counted, pinging>>

ClientStep(c) ==
  \/ Start(c) \/ ProbeAnswers(c) \/ ProbeFails(c) \/ Ready(c) \/ StartFails(c)
  \/ Attach(c) \/ Ping(c) \/ Stop(c) \/ Crash(c)

ServerStep(s) ==
  \/ HandshakeDone(s) \/ HandshakeTimeout(s) \/ Listen(s) \/ HttpError(s)
  \/ Fire(s) \/ SshCloses(s) \/ Kill(s) \/ SshStalls(s)

Next ==
  \/ \E c \in Clients : ClientStep(c)
  \/ \E s \in Server : ServerStep(s)
  \/ Tick

Spec == Init /\ [][Next]_vars

(* Time passes, timers fire and requests on the local socket are answered;  *)
(* users, crashes and the network are not obliged to anything.              *)
Fairness ==
  /\ WF_vars(Tick)
  /\ \A s \in Server : /\ WF_vars(HandshakeTimeout(s))
                       /\ WF_vars(Listen(s))
                       /\ WF_vars(Fire(s))
  /\ \A c \in Clients : WF_vars( \/ ProbeAnswers(c) \/ ProbeFails(c) \/ Ready(c)
                                 \/ StartFails(c) \/ Attach(c) \/ Ping(c))

FairSpec == Spec /\ Fairness

-----------------------------------------------------------------------------
(* Properties *)

(* A server never runs out of time under a client whose keepalive runs: the *)
(* attach and every ping leave it more than one interval, so the shutdown   *)
(* timer only fires once all its clients have gone quiet.                   *)
KeptAlive ==
  \A c \in pinging : Up(conn[c]) => timer[conn[c]] > 0

(* The refcount never falls below the clients still attached: no detach is  *)
(* counted twice and none is counted for a client never attached.  (It may  *)
(* stay above, since a killed window does not detach.)                      *)
RefcountCovers ==
  \A s \in Server : Up(s) =>
    Cardinality({c \in counted : conn[c] = s}) <= refcount[s]

(* The persistence file names a server that got through its handshake and   *)
(* has not cleaned up: one that runs, or one whose process ended without    *)
(* cleanup(), that is by a kill or an error of its http server              *)
(* (localServer.ts:171-174).  No other end, a failed handshake or an orderly *)
(* exit, leaves a record behind for the next window to probe, although the  *)
(* servers share one file.                                                  *)
RecordIsLive ==
  file # NoServer => phase[file] \in {"recorded", "listening", "failed", "killed"}

(* A server that no client talks to goes away by itself, also when its      *)
(* clients were killed without detaching or gave up during its handshake.   *)
AbandonedExits ==
  \A s \in Server :
    Alive(s) ~> \/ Ended(s)
                \/ \E c \in Clients : pc[c] # "idle" /\ conn[c] = s

(* "reconnects on window reload via the persistence file" (client.ts:10-11): *)
(* while some healthy server has live clients, the file leads a new window  *)
(* to a running server instead of orphaning it.  False: a second server     *)
(* takes over the file and unlinks it when it goes, whoever else runs.      *)
SessionsCanBeFound ==
  (\E c \in pinging : Up(conn[c]) /\ ~stalled[conn[c]]) => file # NoServer
=============================================================================
