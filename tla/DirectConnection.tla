--------------------------- MODULE DirectConnection ---------------------------
(***************************************************************************)
(* One authority in one window without the persistent session: every        *)
(* resolve() opens a transport of its own (src/src/resolver/index.ts), whose *)
(* `ssh -D` child is watched and replaced by a ConnectionMonitor            *)
(* (src/src/health/connectionMonitor.ts), and every command is an ssh child  *)
(* (src/src/ssh/connection.ts).                                             *)
(*                                                                          *)
(* A resolve creates one transport and at most one flow, so both are named  *)
(* by the resolve, and the forwards of a transport are numbered in the order *)
(* they are spawned.  Everything in the window runs on one event loop; the   *)
(* end of a child is seen in two steps, its exit and the close of its       *)
(* streams.                                                                 *)
(*                                                                          *)
(* Abstracted: install, the lock and the reuse probe (ServerLifecycle), the  *)
(* agent link, status bar items and timers' lengths, except that a probe    *)
(* less than 15s old holds the next one back.                               *)
(***************************************************************************)
EXTENDS Integers, FiniteSets

CONSTANTS
  Resolves,   \* bound: how many times the host calls resolve()
  Restarts,   \* bound: how many forwards of a transport may exit
  Plans       \* the courses of events considered, see Plan

(* lose: the host becomes unreachable; slow: a live ssh answers too late;    *)
(* exit: a forward exits; server: the server exits; fail: a step of a        *)
(* resolve throws; mute: the server's ssh child ends with code 0 or a signal *)
(* before it has printed a port; sleep: the machine sleeps                   *)
FaultKinds == {"lose", "slow", "exit", "server", "fail", "mute", "sleep"}

(* A course of events: how many resolves and exits there are, and what may   *)
(* go wrong                                                                  *)
Plan == [resolves : 1..Resolves, exits : 0..Restarts, faults : SUBSET FaultKinds]

ASSUME PlansAssumption == Plans \subseteq Plan
ASSUME BoundsAssumption == Resolves \in Nat \ {0} /\ Restarts \in Nat

Calls == 1..Resolves
Forwards == 1..Restarts + 1
None == 0       \* undefined, of a call or a forward

(* Where a probeAndRepair() awaits: sshAlive() with the forward alive, with  *)
(* the forward gone, or the forward of that number                           *)
Verify == -1
Reach == 0

VARIABLES
  pc,           \* where each resolve awaits
  registered,   \* this.connections.get(authority)
  flowDead,     \* flows with dead = true
  server,       \* flow.serverProcess
  dead,         \* transports with dead = true
  closed,       \* transports torn down by killSharedTransport
  proc,         \* the ssh -D children of each transport
  forward,      \* shared.forwardProcess
  monitor,      \* shared.monitor
  tick,         \* the periodic timer's loop
  probes,       \* where the probeAndRepair() calls of a monitor await
  recent,       \* monitors whose last probe began less than 15s ago
  gap,          \* monitors whose sleep detector is due for over 15s
  interrupted,  \* history: transports torn down amid a probe
  lost,         \* the host is unreachable
  plan          \* the course of events, fixed from the start

flowVars == <<pc, registered, flowDead, server>>
downVars == <<dead, closed, interrupted>>
fwdVars == <<proc, forward>>
monVars == <<monitor, tick, probes, recent, gap>>
vars == <<flowVars, downVars, fwdVars, monVars, lost, plan>>

Running == {"starting", "up"}
Child == {"none", "killed", "exited", "closed"} \cup Running

TypeOK ==
  /\ pc \in [Calls -> {"idle", "connect", "forward", "recheck", "probe",
                       "lock", "server", "finalize", "done", "reused", "failed"}]
  /\ registered \in Calls \cup {None}
  /\ server \in [Calls -> Child \cup {"mute"}]
  /\ flowDead \subseteq Calls /\ dead \subseteq Calls /\ closed \subseteq Calls
  /\ proc \in [Calls -> [Forwards -> Child]]
  /\ forward \in [Calls -> Forwards \cup {None}]
  /\ monitor \in [Calls -> {"off", "on", "stopped"}]
  /\ tick \in [Calls -> {"off", "armed", "probing"}]
  /\ probes \in [Calls -> SUBSET ({Verify, Reach} \cup Forwards)]
  /\ recent \subseteq Calls /\ gap \subseteq Calls /\ interrupted \subseteq Calls
  /\ lost \in BOOLEAN
  /\ plan \in Plans

MayHappen(fault) == fault \in plan.faults

Init ==
  /\ pc = [c \in Calls |-> "idle"]
  /\ registered = None
  /\ server = [c \in Calls |-> "none"]
  /\ proc = [c \in Calls |-> [k \in Forwards |-> "none"]]
  /\ forward = [c \in Calls |-> None]
  /\ monitor = [c \in Calls |-> "off"]
  /\ tick = [c \in Calls |-> "off"]
  /\ probes = [c \in Calls |-> {}]
  /\ flowDead = {} /\ dead = {} /\ closed = {} /\ interrupted = {}
  /\ recent = {} /\ gap = {}
  /\ lost = FALSE
  /\ plan \in Plans

Over(c) == pc[c] \in {"done", "reused", "failed"}

(* isAlive(shared.forwardProcess) *)
ForwardAlive(c) == forward[c] # None /\ proc[c][forward[c]] \in Running

(* What conn.exec("true", timeout) may find: an ssh child of its own *)
Answers == ~lost
FailsToAnswer == lost \/ MayHappen("slow")

Killed(p) == IF p \in Running THEN "killed" ELSE p

-----------------------------------------------------------------------------
(* The monitor *)

(* probeAndRepair() up to its first await.  The monitored ownsServer is      *)
(* false, so serverAlive is true.  exec() on a closed connection throws.     *)
ProbeAndRepair(c) ==
  \/ /\ c \in closed
     /\ dead' = dead \cup {c}
     /\ UNCHANGED probes
  \/ /\ c \notin closed
     /\ probes' = [probes EXCEPT ![c] =
                    @ \cup {IF ForwardAlive(c) THEN Verify ELSE Reach}]
     /\ UNCHANGED dead

(* mutant: no promise dedups concurrent probes *)
TriggerProbe_NoDedup(c, quiet) ==
  \/ /\ c \in dead \/ ~quiet
     /\ recent' = IF quiet THEN recent \ {c} ELSE recent
     /\ UNCHANGED <<probes, dead>>
  \/ /\ c \notin dead /\ quiet
     /\ recent' = recent \cup {c}
     /\ ProbeAndRepair(c)

(* triggerProbe(): nothing when dead, while a probe runs, or (unless quiet)  *)
(* too soon after the last one                                               *)
TriggerProbe(c, quiet) ==
  \/ /\ c \in dead \/ probes[c] # {} \/ ~quiet
     /\ recent' = IF quiet THEN recent \ {c} ELSE recent
     /\ UNCHANGED <<probes, dead>>
  \/ /\ c \notin dead /\ probes[c] = {} /\ quiet
     /\ recent' = recent \cup {c}
     /\ ProbeAndRepair(c)

Watching(c) == monitor[c] = "on"

(* 15 seconds have passed since the last probe *)
Calm(c) ==
  /\ c \in recent
  /\ recent' = recent \ {c}
  /\ UNCHANGED <<flowVars, downVars, fwdVars, monitor, tick, probes, gap, lost>>

(* The machine sleeps and wakes; no timer has fired yet *)
Sleep ==
  /\ MayHappen("sleep")
  /\ gap' = {c \in Calls : Watching(c)}
  /\ recent' = {}
  /\ UNCHANGED <<flowVars, downVars, fwdVars, monitor, tick, probes, lost>>

(* The window regains focus before the detector's timer fires *)
Focus(c) ==
  /\ Watching(c) /\ c \in gap /\ c \notin dead
  /\ TriggerProbe(c, c \notin recent)
  /\ UNCHANGED <<flowVars, closed, interrupted, fwdVars, monitor, tick, gap, lost>>

(* The detector's timer fires, late: onSleep() *)
Wake(c) ==
  /\ Watching(c) /\ c \in gap
  /\ gap' = gap \ {c}
  /\ TriggerProbe(c, c \notin recent)
  /\ UNCHANGED <<flowVars, closed, interrupted, fwdVars, monitor, tick, lost>>

(* The periodic timer fires.  The loop goes on after the probe it awaits,    *)
(* unless the transport is dead or the monitor stopped.                      *)
Periodic(c) ==
  /\ Watching(c) /\ tick[c] = "armed"
  /\ TriggerProbe(c, c \notin recent)
  /\ tick' = [tick EXCEPT ![c] = IF c \in dead THEN "off" ELSE "probing"]
  /\ UNCHANGED <<flowVars, closed, interrupted, fwdVars, monitor, gap, lost>>

(* mutant: the loop arms its timer only before the probe *)
Rearm_Never(c) ==
  /\ tick[c] = "probing" /\ probes[c] = {}
  /\ tick' = [tick EXCEPT ![c] = "off"]
  /\ UNCHANGED <<flowVars, downVars, fwdVars, monitor, probes, recent, gap, lost>>

Rearm(c) ==
  /\ tick[c] = "probing" /\ probes[c] = {}
  /\ tick' = [tick EXCEPT ![c] =
                IF c \in dead \/ monitor[c] = "stopped" THEN "off" ELSE "armed"]
  /\ UNCHANGED <<flowVars, downVars, fwdVars, monitor, probes, recent, gap, lost>>

(* sshAlive() is false: the transport is given up *)
Unreachable(c, step) ==
  /\ step \in probes[c]
  /\ FailsToAnswer
  /\ probes' = [probes EXCEPT ![c] = @ \ {step}]
  /\ dead' = dead \cup {c}
  /\ UNCHANGED <<flowVars, closed, interrupted, fwdVars, monitor, tick, recent,
                 gap, lost>>

(* Both looked alive and ssh answers *)
Connected(c) ==
  /\ Verify \in probes[c]
  /\ Answers
  /\ probes' = [probes EXCEPT ![c] = @ \ {Verify}]
  /\ UNCHANGED <<flowVars, downVars, fwdVars, monitor, tick, recent, gap, lost>>

(* ssh answers and the forward is gone: restartForward() spawns the next one *)
RestartForward(c) ==
  /\ Reach \in probes[c]
  /\ Answers
  /\ \E k \in Forwards :
       /\ \A j \in Forwards : proc[c][j] = "none" <=> j >= k
       /\ proc' = [proc EXCEPT ![c][k] = "starting"]
       /\ probes' = [probes EXCEPT ![c] = (@ \ {Reach}) \cup {k}]
  /\ UNCHANGED <<flowVars, downVars, forward, monitor, tick, recent, gap, lost>>

(* It listens and has reported, if only for a moment: it takes the place of  *)
(* the old one                                                               *)
Restored(c, k) ==
  /\ k \in probes[c]
  /\ proc' = [proc EXCEPT ![c] = [j \in Forwards |->
                CASE j = k /\ @[k] = "starting" -> "up"
                  [] j = forward[c] -> Killed(@[j])
                  [] OTHER -> @[j]]]
  /\ forward' = [forward EXCEPT ![c] = k]
  /\ probes' = [probes EXCEPT ![c] = @ \ {k}]
  /\ UNCHANGED <<flowVars, downVars, monitor, tick, recent, gap, lost>>

(* It exited, its agent report is late (it is killed) or its port is (it is  *)
(* left as it is): the transport is given up                                 *)
RestartFails(c, k) ==
  /\ k \in probes[c]
  /\ MayHappen("fail") \/ lost \/ proc[c][k] # "starting"
  /\ probes' = [probes EXCEPT ![c] = @ \ {k}]
  /\ dead' = dead \cup {c}
  /\ \/ proc' = [proc EXCEPT ![c][k] = Killed(@)]
     \/ UNCHANGED proc
  /\ UNCHANGED <<flowVars, closed, interrupted, forward, monitor, tick, recent,
                 gap, lost>>

-----------------------------------------------------------------------------
(* The children *)

Lose ==
  /\ MayHappen("lose") /\ ~lost
  /\ lost' = TRUE
  /\ UNCHANGED <<flowVars, downVars, fwdVars, monVars>>

(* A forward exits by itself (bounded by the plan), or as it was told *)
Exit(c, k) ==
  /\ \/ proc[c][k] \in Running /\ MayHappen("exit") /\ k <= plan.exits
     \/ proc[c][k] = "killed"
  /\ proc' = [proc EXCEPT ![c][k] = "exited"]
  /\ UNCHANGED <<flowVars, downVars, forward, monVars, lost>>

(* mutant: the close of a replaced forward counts as well *)
CloseForward_Any(c, k) ==
  /\ proc[c][k] = "exited"
  /\ proc' = [proc EXCEPT ![c][k] = "closed"]
  /\ dead' = IF k = 1 /\ pc[c] # "forward" THEN dead \cup {c} ELSE dead
  /\ \/ /\ forward[c] = k /\ k > 1
        /\ TriggerProbe(c, TRUE)
     \/ /\ forward[c] # k \/ k = 1
        /\ UNCHANGED <<probes, recent>>
  /\ UNCHANGED <<flowVars, closed, interrupted, forward, monitor, tick, gap, lost>>

(* The close of a forward.  The end of the first one, once the transport is  *)
(* created, kills the transport; the end of a repaired one asks for a probe. *)
CloseForward(c, k) ==
  /\ proc[c][k] = "exited"
  /\ proc' = [proc EXCEPT ![c][k] = "closed"]
  /\ \/ /\ forward[c] # k \/ pc[c] = "forward" \/ c \in dead
        /\ UNCHANGED <<probes, recent, dead>>
     \/ /\ forward[c] = k /\ k = 1 /\ pc[c] # "forward" /\ c \notin dead
        /\ dead' = dead \cup {c}
        /\ UNCHANGED <<probes, recent>>
     \/ /\ forward[c] = k /\ k > 1 /\ c \notin dead
        /\ TriggerProbe(c, TRUE)
  /\ UNCHANGED <<flowVars, closed, interrupted, forward, monitor, tick, gap, lost>>

(* The server's ssh child closes: the flow's listener, if there is one yet *)
CloseServer(c) ==
  /\ \/ server[c] \in Running /\ MayHappen("server")
     \/ server[c] = "killed"
  /\ server' = [server EXCEPT ![c] = "closed"]
  /\ flowDead' = IF pc[c] = "done" THEN flowDead \cup {c} ELSE flowDead
  /\ UNCHANGED <<pc, registered, downVars, fwdVars, monVars, lost>>

-----------------------------------------------------------------------------
(* resolve() *)

(* The host resolves at first, to reconnect, or to open another folder *)
Resolve(c) ==
  /\ pc[c] = "idle" /\ c <= plan.resolves
  /\ \A d \in Calls : d < c => Over(d)
  /\ pc' = [pc EXCEPT ![c] = "connect"]
  /\ UNCHANGED <<registered, flowDead, server, downVars, fwdVars, monVars, lost>>

(* conn.connect() and the install succeed: createTransport() spawns the      *)
(* first forward                                                             *)
StartSocksForward(c) ==
  /\ pc[c] = "connect" /\ ~lost
  /\ proc' = [proc EXCEPT ![c][1] = "starting"]
  /\ forward' = [forward EXCEPT ![c] = 1]
  /\ pc' = [pc EXCEPT ![c] = "forward"]
  /\ UNCHANGED <<registered, flowDead, server, downVars, monVars, lost>>

(* mutant: the forward of the transport torn down is not killed *)
KillConnection_KeepForward(f) ==
  /\ server' = [server EXCEPT ![f] = Killed(@)]
  /\ closed' = closed \cup {f}
  /\ interrupted' = IF probes[f] # {} THEN interrupted \cup {f} ELSE interrupted
  /\ monitor' = [monitor EXCEPT ![f] = "stopped"]
  /\ gap' = gap \ {f}
  /\ tick' = [tick EXCEPT ![f] = IF @ = "armed" THEN "off" ELSE @]
  /\ registered' = None
  /\ UNCHANGED proc

(* killConnection() of the previous flow, the only one of its transport:     *)
(* the monitor stops, and the server and the forward are killed              *)
KillConnection(f) ==
  /\ server' = [server EXCEPT ![f] = Killed(@)]
  /\ closed' = closed \cup {f}
  /\ interrupted' = IF probes[f] # {} THEN interrupted \cup {f} ELSE interrupted
  /\ monitor' = [monitor EXCEPT ![f] = "stopped"]
  /\ gap' = gap \ {f}
  /\ tick' = [tick EXCEPT ![f] = IF @ = "armed" THEN "off" ELSE @]
  /\ proc' = [proc EXCEPT ![f][forward[f]] = Killed(@)]
  /\ registered' = None

(* The first forward listens and has reported.  createTransport() ends with  *)
(* monitor.start(); resolveFlow() begins with a probe of the previous flow    *)
(* unless that is dead.                                                      *)
Created(c) ==
  /\ pc[c] = "forward"
  /\ monitor' = [monitor EXCEPT ![c] = "on"]
  /\ tick' = [tick EXCEPT ![c] = "armed"]
  /\ proc' = [proc EXCEPT ![c][1] = IF @ = "starting" THEN "up" ELSE @]
  /\ pc' = [pc EXCEPT ![c] = "recheck"]
  /\ UNCHANGED <<registered, flowDead, server, downVars, forward, probes,
                 recent, gap, lost>>

LiveFlow == registered # None /\ registered \notin flowDead \cup dead

Recheck(c) ==
  /\ pc[c] = "recheck" /\ LiveFlow
  /\ pc' = [pc EXCEPT ![c] = "probe"]
  /\ UNCHANGED <<registered, flowDead, server, downVars, fwdVars, monVars, lost>>

(* ssh answers: the previous flow is handed out once more, also one that died *)
(* amid the probe; the new transport stays as it is                          *)
Reuse(c) ==
  /\ pc[c] = "probe" /\ Answers
  /\ pc' = [pc EXCEPT ![c] = "reused"]
  /\ UNCHANGED <<registered, flowDead, server, downVars, fwdVars, monVars, lost>>

(* There is no previous flow, or it is dead by now or by the probe: clean up *)
Replace(c) ==
  /\ \/ pc[c] = "recheck" /\ ~LiveFlow
     \/ pc[c] = "probe" /\ FailsToAnswer
  /\ pc' = [pc EXCEPT ![c] = "lock"]
  /\ \/ /\ registered = None
        /\ UNCHANGED <<registered, flowDead, server, closed, interrupted, proc,
                       monitor, gap, tick>>
     \/ /\ registered # None
        /\ flowDead' = flowDead \cup {registered}
        /\ KillConnection(registered)
  /\ UNCHANGED <<dead, forward, probes, recent, lost>>

(* The lock is asked for and the server of another window found, or a server *)
(* started in an ssh child                                                   *)
FindServer(c) ==
  /\ pc[c] = "lock" /\ ~lost
  /\ \/ /\ pc' = [pc EXCEPT ![c] = "finalize"]
        /\ UNCHANGED server
     \/ /\ pc' = [pc EXCEPT ![c] = "server"]
        /\ server' = [server EXCEPT ![c] = "starting"]
  /\ UNCHANGED <<registered, flowDead, downVars, fwdVars, monVars, lost>>

(* startServer() has parsed the port *)
ServerListens(c) ==
  /\ pc[c] = "server" /\ server[c] = "starting" /\ ~lost
  /\ server' = [server EXCEPT ![c] = "up"]
  /\ pc' = [pc EXCEPT ![c] = "finalize"]
  /\ UNCHANGED <<registered, flowDead, downVars, fwdVars, monVars, lost>>

(* mutant: the wait for the port has no timeout *)
ServerFails_NoTimeout(c) ==
  /\ pc[c] = "server"
  /\ server[c] = "closed"
  /\ server' = [server EXCEPT ![c] = Killed(@)]
  /\ pc' = [pc EXCEPT ![c] = "failed"]
  /\ UNCHANGED <<registered, flowDead, downVars, fwdVars, monVars, lost>>

(* The child ends with an error, or is killed after 60s without a port *)
ServerFails(c) ==
  /\ pc[c] = "server"
  /\ server[c] \in {"starting", "closed"}
  /\ server[c] = "starting" => lost \/ MayHappen("fail")
  /\ server' = [server EXCEPT ![c] = Killed(@)]
  /\ pc' = [pc EXCEPT ![c] = "failed"]
  /\ UNCHANGED <<registered, flowDead, downVars, fwdVars, monVars, lost>>

(* The child ends without an error and without a port: its close clears the  *)
(* timer and settles nothing                                                 *)
ServerMute(c) ==
  /\ MayHappen("mute")
  /\ pc[c] = "server" /\ server[c] = "starting"
  /\ server' = [server EXCEPT ![c] = "mute"]
  /\ UNCHANGED <<pc, registered, flowDead, downVars, fwdVars, monVars, lost>>

(* finalizeServerStart() is over: the flow is registered *)
Register(c) ==
  /\ pc[c] = "finalize" /\ ~lost
  /\ registered' = c
  /\ pc' = [pc EXCEPT ![c] = "done"]
  /\ UNCHANGED <<flowDead, server, downVars, fwdVars, monVars, lost>>

(* A step of the resolve throws.  What was created stays, but for a server   *)
(* started and a forward whose agent report is late.                         *)
ResolveFails(c) ==
  /\ pc[c] \in {"connect", "forward", "lock", "finalize"}
  /\ MayHappen("fail") \/ lost \/ (pc[c] = "forward" /\ proc[c][1] # "starting")
  /\ pc' = [pc EXCEPT ![c] = "failed"]
  /\ server' = [server EXCEPT ![c] = Killed(@)]
  /\ \/ /\ pc[c] = "forward"
        /\ proc' = [proc EXCEPT ![c][1] = Killed(@)]
     \/ UNCHANGED proc
  /\ UNCHANGED <<registered, flowDead, downVars, forward, monVars, lost>>

ResolveStep(c) ==
  \/ StartSocksForward(c) \/ Created(c) \/ Recheck(c) \/ Reuse(c) \/ Replace(c)
  \/ FindServer(c) \/ ServerListens(c) \/ ServerFails(c) \/ Register(c)
  \/ ResolveFails(c)

ProbeStep(c) ==
  \/ Connected(c) \/ RestartForward(c)
  \/ \E step \in {Verify, Reach} : Unreachable(c, step)
  \/ \E k \in Forwards : Restored(c, k) \/ RestartFails(c, k)

MonitorStep(c) ==
  Calm(c) \/ Focus(c) \/ Wake(c) \/ Periodic(c) \/ Rearm(c) \/ ProbeStep(c)

Next ==
  /\ UNCHANGED plan
  /\ \/ \E c \in Calls : Resolve(c) \/ ResolveStep(c) \/ MonitorStep(c)
                         \/ CloseServer(c) \/ ServerMute(c)
     \/ \E c \in Calls, k \in Forwards : Exit(c, k) \/ CloseForward(c, k)
     \/ Sleep \/ Lose

Spec == Init /\ [][Next]_vars

(* ssh, ports, reports and the server's start carry timeouts (a command with  *)
(* none ends with its ssh child, tcp at the latest), timers fire, and children *)
(* that end are seen to                                                      *)
FairSpec ==
  /\ Spec
  /\ \A c \in Calls :
       /\ WF_vars(ResolveStep(c) /\ UNCHANGED plan)
       /\ WF_vars(Calm(c) /\ UNCHANGED plan)
       /\ WF_vars(Periodic(c) /\ UNCHANGED plan)
       /\ WF_vars(Rearm(c) /\ UNCHANGED plan)
       /\ WF_vars(ProbeStep(c) /\ UNCHANGED plan)
       /\ \A k \in Forwards : WF_vars(CloseForward(c, k) /\ UNCHANGED plan)

-----------------------------------------------------------------------------
(* Properties *)

(* Probes asked for by a sleep, a focus, the timer and the end of a forward  *)
(* never run two restarts at once: a transport has at most one live ssh -D,  *)
(* in use or coming up (triggerProbe, restartForward).                       *)
OneForward ==
  \A c \in Calls : \A j, k \in Forwards :
    proc[c][j] \in Running /\ proc[c][k] \in Running => j = k

(* A repair lasts: while ssh answers in time, a transport is only given up   *)
(* over the forward it uses, or over a restart that fails; once a forward    *)
(* has been replaced its late close does not count                           *)
(* (attachSharedForwardExitListeners, restartForward).  The close may also   *)
(* come while the restart is still waiting, and then ends the transport.     *)
DeadForCause ==
  [][\A c \in dead' \ dead :
       \/ lost \/ MayHappen("slow") \/ c \in closed
       \/ ~ForwardAlive(c)
       \/ probes[c] \cap Forwards # {}]_vars

(* A live ssh -D that no resolve under way and no registered flow holds *)
Stray(c, k) ==
  /\ proc[c][k] \in Running
  /\ \/ Over(c) /\ registered # c
     \/ c \in closed
     \/ forward[c] # k /\ k \notin probes[c]

(* No ssh -D outlives the transport it belongs to, save four ways the code   *)
(* has to leave one behind: a resolve that failed, a resolve that found the   *)
(* previous flow alive after creating its transport, a restart that failed,  *)
(* and a monitor stopped amid a probe (createTransport, resolveFlow,         *)
(* restartForward, killSharedTransport).                                     *)
StrayOnlyKnown ==
  \A c \in Calls, k \in Forwards :
    Stray(c, k) =>
      pc[c] \in {"failed", "reused"} \/ c \in interrupted
        \/ (c \in dead /\ forward[c] # k)

(* makeConnection() of the registered flow has somewhere to connect to *)
Served(c) == ~lost /\ ForwardAlive(c)

(* Every loss is noticed: a registered flow whose forward or host is gone is *)
(* served by a new forward, refuses connections so that the host reconnects, *)
(* or has been replaced, however sleeps, probes and exits interleave.        *)
LossNoticed ==
  \A c \in Calls :
    registered = c /\ ~Served(c)
      ~> Served(c) \/ c \in dead \cup flowDead \/ registered # c

(* Every resolve ends, but for the child that ends quietly before its port   *)
(* (startServer, createTransport, resolveFlow).                              *)
ResolveSettles ==
  ~MayHappen("mute") => \A c \in Calls : pc[c] = "connect" ~> Over(c)
=============================================================================
