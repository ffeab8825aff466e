--------------------------- MODULE SharedTransport ---------------------------
(***************************************************************************)
(* The shared transport of one authority in one window, on the session path *)
(* (src/src/resolver/index.ts): resolve() and resolveExecServer() acquire   *)
(* it, one of them creates it, flows hold it by a refcount, and the last    *)
(* one to go tears it down.                                                 *)
(*                                                                          *)
(* Everything runs on one event loop, so a call is cut only where it        *)
(* awaits.  A call creates at most one transport and registers at most one  *)
(* flow, so both are named by the call.  The continuations of a settled     *)
(* promise (Wake, Resume) run before any other event.                       *)
(*                                                                          *)
(* Abstracted: ssh, install, the Go transport (its client can only report   *)
(* itself unreachable), askpass, and the server start of a resolve, which   *)
(* ServerLifecycle models.                                                  *)
(***************************************************************************)
EXTENDS Integers, FiniteSets

CONSTANTS
  Resolves,   \* calls of resolve()
  Execs,      \* calls of resolveExecServer()
  NoCall,     \* undefined
  Plans       \* the courses of events considered, see Plan

(* lose: the ssh connection dies silently; unreachable: three heartbeats     *)
(* fail and so does the restart; slow: a probe of a live connection times    *)
(* out; fail: a creation or a server start throws; overlap: the host makes a *)
(* call while another of the same kind is under way                          *)
FaultKinds == {"lose", "unreachable", "slow", "fail", "overlap"}

Calls == Resolves \cup Execs

ASSUME CallsAssumption == Resolves \cap Execs = {} /\ NoCall \notin Calls
Kind == {"resolve", "execServer"}
KindOf(c) == IF c \in Resolves THEN "resolve" ELSE "execServer"

(* A course of events: the number of calls the host makes, and what may go   *)
(* wrong                                                                     *)
Plan == [calls : [Kind -> Nat], faults : SUBSET FaultKinds]

ASSUME PlansAssumption == Plans \subseteq Plan

VARIABLES
  pc,           \* where each call awaits
  held,         \* the transport a call is concerned with (existing, inFlight, shared)
  prev,         \* the flow a call probes (existing, prev)
  registry,     \* this.transports.get(authority)
  inFlight,     \* this.transportPromises.get(authority)
  connections,  \* this.connections, by kind of flow
  on,           \* flow.shared
  flowDead,     \* flows with dead = true
  made,         \* transports whose ssh connection was made
  ready,        \* transports whose creation succeeded
  refs,         \* shared.refs
  flows,        \* shared.flows
  dead,         \* transports with dead = true
  closed,       \* transports torn down by killSharedTransport
  lost,         \* transports whose ssh connection is gone
  disposed,     \* dispose() has run
  plan          \* the course of events, fixed from the start

trvars == <<made, ready, lost, disposed>>
vars == <<pc, held, prev, registry, inFlight, connections, on, flowDead,
          refs, flows, dead, closed, trvars, plan>>

Pc == {"idle", "reuse", "probe", "create", "await", "acquired", "recheck",
       "start", "done", "failed"}
TypeOK ==
  /\ pc \in [Calls -> Pc]
  /\ held \in [Calls -> Calls \cup {NoCall}]
  /\ prev \in [Calls -> Calls \cup {NoCall}]
  /\ registry \in Calls \cup {NoCall}
  /\ inFlight \in Calls \cup {NoCall}
  /\ connections \in [Kind -> Calls \cup {NoCall}]
  /\ on \in [Calls -> Calls \cup {NoCall}]
  /\ refs \in [Calls -> Int]
  /\ flows \in [Calls -> SUBSET Calls]
  /\ flowDead \subseteq Calls /\ made \subseteq Calls /\ ready \subseteq Calls
  /\ dead \subseteq Calls /\ closed \subseteq Calls /\ lost \subseteq Calls
  /\ disposed \in BOOLEAN
  /\ plan \in Plans

MayHappen(fault) == fault \in plan.faults

Init ==
  /\ plan \in Plans
  /\ pc = [c \in Calls |-> "idle"]
  /\ held = [c \in Calls |-> NoCall]
  /\ prev = [c \in Calls |-> NoCall]
  /\ registry = NoCall
  /\ inFlight = NoCall
  /\ connections = [k \in Kind |-> NoCall]
  /\ on = [c \in Calls |-> NoCall]
  /\ refs = [c \in Calls |-> 0]
  /\ flows = [c \in Calls |-> {}]
  /\ flowDead = {} /\ made = {} /\ ready = {}
  /\ dead = {} /\ closed = {} /\ lost = {}
  /\ disposed = FALSE

(* Calls of one kind made so far *)
Made(kind) == {c \in Calls : KindOf(c) = kind /\ pc[c] # "idle"}

UnderWay(c) == pc[c] \notin {"idle", "done", "failed"}

(* Calls whose awaited creation has settled, and calls that have just been   *)
(* handed a transport: their continuations come before any event             *)
Waking == {c \in Calls : pc[c] = "await" /\ pc[held[c]] # "create"}
Resuming == {c \in Calls : pc[c] = "acquired"}

Event == ~disposed /\ Waking = {} /\ Resuming = {}

(* The flow makeConnection() would still serve: not dead, nor its transport *)
LiveFlow(f) == f # NoCall /\ f \notin flowDead /\ on[f] \notin dead

(* conn.exec("true", 5s) on transport t *)
ProbeMay(t, alive) ==
  IF alive THEN t \notin lost ELSE t \in lost \cup closed \/ MayHappen("slow")

-----------------------------------------------------------------------------
(* acquireTransport() *)

(* mutant: no promise dedups concurrent creations *)
Continue_NoDedup(c, existing) ==
  /\ closed' = closed \cup ({existing} \ {NoCall})
  /\ registry' = IF existing = NoCall THEN registry ELSE NoCall
  /\ inFlight' = c
  /\ pc' = [pc EXCEPT ![c] = "create"]
  /\ held' = [held EXCEPT ![c] = c]

(* Past the probe, with existing the transport the call read before it:      *)
(* join a creation under way, else tear the existing one down and create     *)
Continue(c, existing) ==
  \/ /\ inFlight # NoCall
     /\ pc' = [pc EXCEPT ![c] = "await"]
     /\ held' = [held EXCEPT ![c] = inFlight]
     /\ UNCHANGED <<registry, inFlight, closed>>
  \/ /\ inFlight = NoCall
     /\ closed' = closed \cup ({existing} \ {NoCall})
     /\ registry' = IF existing = NoCall THEN registry ELSE NoCall
     /\ inFlight' = c
     /\ pc' = [pc EXCEPT ![c] = "create"]
     /\ held' = [held EXCEPT ![c] = c]

(* The entry: a registered transport that is not dead is probed first *)
Acquire(c) ==
  \/ /\ registry \notin dead \cup {NoCall}
     /\ pc' = [pc EXCEPT ![c] = "probe"]
     /\ held' = [held EXCEPT ![c] = registry]
     /\ UNCHANGED <<registry, inFlight, closed>>
  \/ /\ registry \in dead \cup {NoCall}
     /\ Continue(c, registry)

(* The host calls resolve() or resolveExecServer().  A resolve() that finds *)
(* a live flow of its own probes that instead.                              *)
Begin(c) ==
  /\ Event
  /\ pc[c] = "idle"
  /\ Cardinality(Made(KindOf(c))) < plan.calls[KindOf(c)]
  /\ \/ \A o \in Calls : UnderWay(o) => KindOf(o) # KindOf(c)
     \/ MayHappen("overlap")
  /\ \/ /\ c \in Resolves /\ LiveFlow(connections["resolve"])
        /\ pc' = [pc EXCEPT ![c] = "reuse"]
        /\ prev' = [prev EXCEPT ![c] = connections["resolve"]]
        /\ UNCHANGED <<held, registry, inFlight, closed>>
     \/ /\ c \in Resolves => ~LiveFlow(connections["resolve"])
        /\ Acquire(c)
        /\ UNCHANGED prev
  /\ UNCHANGED <<connections, on, flowDead, refs, flows, dead, trvars>>

(* resolve() probed the flow it may hand out again *)
ReuseAlive(c) ==
  /\ Event
  /\ pc[c] = "reuse"
  /\ ProbeMay(on[prev[c]], TRUE)
  /\ pc' = [pc EXCEPT ![c] = "done"]
  /\ UNCHANGED <<held, prev, registry, inFlight, connections, on, flowDead,
                 refs, flows, dead, closed, trvars>>

ReuseFails(c) ==
  /\ Event
  /\ pc[c] = "reuse"
  /\ ProbeMay(on[prev[c]], FALSE)
  /\ flowDead' = flowDead \cup {prev[c]}
  /\ Acquire(c)
  /\ UNCHANGED <<prev, connections, on, refs, flows, dead, trvars>>

(* mutant: the reuse of a transport does not count *)
ProbeAlive_NoCount(c) ==
  /\ Event
  /\ pc[c] = "probe"
  /\ ProbeMay(held[c], TRUE)
  /\ pc' = [pc EXCEPT ![c] = "acquired"]
  /\ UNCHANGED <<held, prev, registry, inFlight, connections, on, flowDead,
                 refs, flows, dead, closed, trvars>>

(* acquireTransport() probed the registered transport *)
ProbeAlive(c) ==
  /\ Event
  /\ pc[c] = "probe"
  /\ ProbeMay(held[c], TRUE)
  /\ refs' = [refs EXCEPT ![held[c]] = @ + 1]
  /\ pc' = [pc EXCEPT ![c] = "acquired"]
  /\ UNCHANGED <<held, prev, registry, inFlight, connections, on, flowDead,
                 flows, dead, closed, trvars>>

ProbeFails(c) ==
  /\ Event
  /\ pc[c] = "probe"
  /\ ProbeMay(held[c], FALSE)
  /\ dead' = dead \cup {held[c]}
  /\ Continue(c, held[c])
  /\ UNCHANGED <<prev, connections, on, flowDead, refs, flows, trvars>>

(* createTransport(): conn.connect() has succeeded *)
Connect(c) ==
  /\ Event
  /\ pc[c] = "create" /\ c \notin made
  /\ made' = made \cup {c}
  /\ UNCHANGED <<pc, held, prev, registry, inFlight, connections, on, flowDead,
                 refs, flows, dead, closed, ready, lost, disposed>>

(* mutant: the in-flight promise is deleted only when it fails *)
Created_KeepPromise(c) ==
  /\ Event
  /\ pc[c] = "create" /\ c \in made \ lost
  /\ ready' = ready \cup {c}
  /\ refs' = [refs EXCEPT ![c] = 1]
  /\ registry' = c
  /\ pc' = [pc EXCEPT ![c] = "acquired"]
  /\ UNCHANGED <<held, prev, inFlight, connections, on, flowDead, flows, dead,
                 closed, made, lost, disposed>>

(* The creation succeeds and its caller registers the transport *)
Created(c) ==
  /\ Event
  /\ pc[c] = "create" /\ c \in made \ lost
  /\ ready' = ready \cup {c}
  /\ refs' = [refs EXCEPT ![c] = 1]
  /\ registry' = c
  /\ inFlight' = NoCall
  /\ pc' = [pc EXCEPT ![c] = "acquired"]
  /\ UNCHANGED <<held, prev, connections, on, flowDead, flows, dead, closed,
                 made, lost, disposed>>

(* The creation throws.  The ssh connection, if made, is not closed. *)
CreateFails(c) ==
  /\ Event
  /\ pc[c] = "create"
  /\ MayHappen("fail") \/ c \in lost
  /\ inFlight' = NoCall
  /\ pc' = [pc EXCEPT ![c] = "failed"]
  /\ UNCHANGED <<held, prev, registry, connections, on, flowDead, refs, flows,
                 dead, closed, trvars>>

(* A caller that awaited the creation of another *)
Wake(c) ==
  /\ ~disposed
  /\ c \in Waking
  /\ LET t == held[c] IN
     \/ /\ t \in ready \ dead
        /\ refs' = [refs EXCEPT ![t] = @ + 1]
        /\ pc' = [pc EXCEPT ![c] = "acquired"]
        /\ UNCHANGED <<held, registry, inFlight, closed>>
     \/ /\ t \in ready \cap dead
        /\ Acquire(c)
        /\ UNCHANGED refs
     \/ /\ t \notin ready
        /\ pc' = [pc EXCEPT ![c] = "failed"]
        /\ UNCHANGED <<held, registry, inFlight, refs, closed>>
  /\ UNCHANGED <<prev, connections, on, flowDead, flows, dead, trvars>>

-----------------------------------------------------------------------------
(* The flows *)

(* killConnection(f): detach f, release its transport, and at zero tear it   *)
(* down and delete what is registered for the authority                      *)
Without(f) == IF f = NoCall THEN flows ELSE [flows EXCEPT ![on[f]] = @ \ {f}]

(* mutant: the torn down transport stays registered *)
Release_KeepEntry(f) ==
  \/ /\ f = NoCall
     /\ UNCHANGED <<refs, closed, registry>>
  \/ /\ f # NoCall
     /\ refs' = [refs EXCEPT ![on[f]] = @ - 1]
     /\ closed' = IF refs[on[f]] <= 1 THEN closed \cup {on[f]} ELSE closed
     /\ UNCHANGED registry

(* mutant: the last release deletes the entry but closes nothing *)
Release_KeepOpen(f) ==
  \/ /\ f = NoCall
     /\ UNCHANGED <<refs, closed, registry>>
  \/ /\ f # NoCall
     /\ refs' = [refs EXCEPT ![on[f]] = @ - 1]
     /\ registry' = IF refs[on[f]] <= 1 THEN NoCall ELSE registry
     /\ UNCHANGED closed

Release(f) ==
  \/ /\ f = NoCall
     /\ UNCHANGED <<refs, closed, registry>>
  \/ /\ f # NoCall
     /\ refs' = [refs EXCEPT ![on[f]] = @ - 1]
     /\ closed' = IF refs[on[f]] <= 1 THEN closed \cup {on[f]} ELSE closed
     /\ registry' = IF refs[on[f]] <= 1 THEN NoCall ELSE registry

KillConnection(f) == Release(f) /\ flows' = Without(f)

(* resolveFlow() probes a live flow that has appeared since, or kills the   *)
(* previous one and goes on to the server                                   *)
Resume(c) ==
  /\ ~disposed /\ Waking = {}
  /\ c \in Resuming \cap Resolves
  /\ LET f == connections["resolve"] IN
     \/ /\ LiveFlow(f)
        /\ pc' = [pc EXCEPT ![c] = "recheck"]
        /\ prev' = [prev EXCEPT ![c] = f]
        /\ UNCHANGED <<connections, refs, flows, closed, registry>>
     \/ /\ ~LiveFlow(f)
        /\ pc' = [pc EXCEPT ![c] = "start"]
        /\ connections' = [connections EXCEPT !["resolve"] = NoCall]
        /\ KillConnection(f)
        /\ UNCHANGED prev
  /\ UNCHANGED <<held, inFlight, on, flowDead, dead, trvars>>

(* resolveExecServer() kills the previous flow and registers its own *)
ResumeExec(c) ==
  /\ ~disposed /\ Waking = {}
  /\ c \in Resuming \cap Execs
  /\ LET f == connections["execServer"] IN
     /\ Release(f)
     /\ flows' = [Without(f) EXCEPT ![held[c]] = @ \cup {c}]
  /\ on' = [on EXCEPT ![c] = held[c]]
  /\ connections' = [connections EXCEPT !["execServer"] = c]
  /\ pc' = [pc EXCEPT ![c] = "done"]
  /\ UNCHANGED <<held, prev, inFlight, flowDead, dead, trvars>>

RecheckAlive(c) ==
  /\ Event
  /\ pc[c] = "recheck"
  /\ ProbeMay(on[prev[c]], TRUE)
  /\ pc' = [pc EXCEPT ![c] = "done"]
  /\ UNCHANGED <<held, prev, registry, inFlight, connections, on, flowDead,
                 refs, flows, dead, closed, trvars>>

RecheckFails(c) ==
  /\ Event
  /\ pc[c] = "recheck"
  /\ ProbeMay(on[prev[c]], FALSE)
  /\ flowDead' = flowDead \cup {prev[c]}
  /\ KillConnection(prev[c])
  /\ connections' = [connections EXCEPT !["resolve"] = NoCall]
  /\ pc' = [pc EXCEPT ![c] = "start"]
  /\ UNCHANGED <<held, prev, inFlight, on, dead, trvars>>

(* The server runs; the flow is registered over whatever is there by now *)
Started(c) ==
  /\ Event
  /\ pc[c] = "start" /\ held[c] \notin lost
  /\ flows' = [flows EXCEPT ![held[c]] = @ \cup {c}]
  /\ on' = [on EXCEPT ![c] = held[c]]
  /\ connections' = [connections EXCEPT !["resolve"] = c]
  /\ pc' = [pc EXCEPT ![c] = "done"]
  /\ UNCHANGED <<held, prev, registry, inFlight, flowDead, refs, dead, closed,
                 trvars>>

(* resolveFlow() throws.  The transport it was given is not released. *)
StartFails(c) ==
  /\ Event
  /\ pc[c] = "start"
  /\ MayHappen("fail") \/ held[c] \in lost \cup closed
  /\ pc' = [pc EXCEPT ![c] = "failed"]
  /\ UNCHANGED <<held, prev, registry, inFlight, connections, on, flowDead,
                 refs, flows, dead, closed, trvars>>

-----------------------------------------------------------------------------
(* The connection, its monitor, and the end of the window *)

Lose(t) ==
  /\ Event
  /\ MayHappen("lose")
  /\ t \in made \ lost
  /\ lost' = lost \cup {t}
  /\ UNCHANGED <<pc, held, prev, registry, inFlight, connections, on, flowDead,
                 refs, flows, dead, closed, made, ready, disposed>>

MarkDead(t) ==
  /\ dead' = dead \cup {t}
  /\ UNCHANGED <<pc, held, prev, registry, inFlight, connections, on, flowDead,
                 refs, flows, closed, trvars>>

(* The monitor's session probe; stop() ends it *)
MonitorProbe(t) ==
  /\ Event
  /\ t \in (ready \cap lost) \ (dead \cup closed)
  /\ MarkDead(t)

(* The Go transport's client reports it unreachable and the restart fails *)
Unreachable(t) ==
  /\ Event
  /\ MayHappen("unreachable")
  /\ t \in made \ (dead \cup closed)
  /\ MarkDead(t)

(* mutant: only the flow of resolve() is killed *)
Dispose_OneFlow ==
  /\ Event
  /\ LET killed == {connections["resolve"]} \ {NoCall}
         left(t) == refs[t] - Cardinality({f \in killed : on[f] = t})
         freed == {on[f] : f \in killed} \cap {t \in Calls : left(t) <= 0}
     IN /\ refs' = [t \in Calls |-> left(t)]
        /\ flows' = [t \in Calls |-> flows[t] \ killed]
        /\ closed' = closed \cup freed \cup
                       (IF freed = {} THEN {registry} \ {NoCall} ELSE {})
  /\ registry' = NoCall
  /\ connections' = [k \in Kind |-> NoCall]
  /\ disposed' = TRUE
  /\ UNCHANGED <<pc, held, prev, inFlight, on, flowDead, dead, made, ready, lost>>

(* deactivate: kill the registered flows, then what is still registered *)
Dispose ==
  /\ Event
  /\ LET killed == {connections[k] : k \in Kind} \ {NoCall}
         left(t) == refs[t] - Cardinality({f \in killed : on[f] = t})
         freed == {on[f] : f \in killed} \cap {t \in Calls : left(t) <= 0}
     IN /\ refs' = [t \in Calls |-> left(t)]
        /\ flows' = [t \in Calls |-> flows[t] \ killed]
        /\ closed' = closed \cup freed \cup
                       (IF freed = {} THEN {registry} \ {NoCall} ELSE {})
  /\ registry' = NoCall
  /\ connections' = [k \in Kind |-> NoCall]
  /\ disposed' = TRUE
  /\ UNCHANGED <<pc, held, prev, inFlight, on, flowDead, dead, made, ready, lost>>

Step(c) ==
  /\ UNCHANGED plan
  /\ \/ ReuseAlive(c) \/ ReuseFails(c) \/ ProbeAlive(c) \/ ProbeFails(c)
     \/ Connect(c) \/ Created(c) \/ CreateFails(c) \/ Wake(c)
     \/ Resume(c) \/ ResumeExec(c) \/ RecheckAlive(c) \/ RecheckFails(c)
     \/ Started(c) \/ StartFails(c)

Unforced ==
  /\ UNCHANGED plan
  /\ \/ \E c \in Calls : Begin(c)
     \/ \E t \in Calls : Lose(t) \/ MonitorProbe(t) \/ Unreachable(t)
     \/ Dispose

Next == (\E c \in Calls : Step(c)) \/ Unforced

Spec == Init /\ [][Next]_vars

(* Probes carry a timeout of 5s; what a creation or a start awaits ends with *)
(* an answer, a timeout or the end of the ssh connection; a promise that has *)
(* settled runs its continuations                                            *)
FairSpec == Spec /\ \A c \in Calls : WF_vars(Step(c))

-----------------------------------------------------------------------------
(* Properties *)

(* Transports with a connection this window has not closed *)
Open == made \ closed

Quiet == \A c \in Calls : ~UnderWay(c)

(* Concurrent acquires share one creation: at no time are two transports     *)
(* being created (the in-flight promise of acquireTransport).                *)
OneCreation ==
  \A c, d \in Calls : pc[c] = "create" /\ pc[d] = "create" => c = d

(* The transport the next caller is offered is not one that has been torn    *)
(* down, whatever releases and teardowns other calls ran across their awaits *)
(* (acquireTransport, releaseTransport).                                     *)
RegisteredIsOpen == registry # NoCall => registry \in ready \ closed

(* No teardown pulls the connection from under a flow that makeConnection()  *)
(* still serves: only the last release, or the death of the transport, may   *)
(* close it (killSharedTransport, releaseTransport).  Claimed while calls of *)
(* one kind come one after the other: beside another call a late probe may   *)
(* condemn a transport that a flow has been registered on meanwhile.         *)
LiveFlowOpen ==
  ~MayHappen("overlap") =>
    \A k \in Kind : LiveFlow(connections[k]) => on[connections[k]] \notin closed

(* "One ssh session + one Go transport per authority" (CHANGELOG.md:7): two  *)
(* transports of the window are never both open and alive.  False: the last  *)
(* release of a dead transport deletes the entry of its replacement.         *)
OneTransport ==
  \A s, t \in (ready \cap Open) \ (dead \cup lost) : s = t

(* It holds while no connection dies and no probe is late, for overlapping   *)
(* calls and failing creations and starts alike.                             *)
OneHealthyTransport == plan.faults \subseteq {"fail", "overlap"} => OneTransport

(* Calls of one kind come one after the other, and none has failed *)
Orderly == ~MayHappen("overlap") /\ \A c \in Calls : pc[c] # "failed"

(* Transports are "reused on reload instead of orphaned" (CHANGELOG.md:7):   *)
(* an open one is registered, held by a call under way or used by a flow.    *)
(* A creation that throws leaves its connection open, hence Orderly.         *)
NoneOrphaned ==
  Orderly =>
    \A t \in Open :
      \/ disposed \/ t = registry
      \/ \E c \in Calls : UnderWay(c) /\ held[c] = t
      \/ \E k \in Kind : connections[k] # NoCall /\ on[connections[k]] = t

(* deactivate leaves no connection of this window behind when no call was    *)
(* under way (dispose).                                                      *)
DisposeClosesAll == Orderly /\ disposed /\ Quiet => Open = {}

(* "Refcount: number of flows holding this." (resolver/index.ts:108): once   *)
(* no call is under way, no flow was missed and none counted twice.  Hence   *)
(* Orderly: neither a start that throws nor a resolve that finds another's   *)
(* flow in the recheck gives its reference back.                             *)
RefsAreFlows ==
  Orderly /\ Quiet => \A t \in ready : refs[t] = Cardinality(flows[t])

(* Every call ends: no probe, shared creation or retry over a transport that *)
(* died meanwhile keeps a caller waiting for ever.                           *)
CallsSettle == \A c \in Calls : UnderWay(c) ~> (~UnderWay(c) \/ disposed)
=============================================================================
