----------------------- MODULE SharedTransport_proofs ------------------------
(***************************************************************************)
(* Theorems about SharedTransport, for any number of calls and any faults.  *)
(*                                                                          *)
(* OneCreation rests on Creating: whoever creates is the one in flight.     *)
(* RegisteredIsOpen needs to know that only transports that were ready are  *)
(* ever torn down, which in turn rests on what the local variables of the   *)
(* calls and the registered flows can refer to.                             *)
(*                                                                          *)
(* The properties of the refcount rest on UseInv.  Its core is Counted: as  *)
(* long as calls of one kind come one after the other, the count of a       *)
(* transport is that of its users, the flows registered on it and the calls *)
(* that were handed it and have not registered one yet, or more than that   *)
(* after a start has thrown (Balance).  A transport torn down and not dead  *)
(* has no references left (Unused).  For that to last, a probe under way    *)
(* must not find its transport alive after another call has closed it: what *)
(* is probed is still registered or used (Probing), and what is registered  *)
(* is used by the kind of call that made it (Registered), so the other kind *)
(* of call cannot release the last reference.                               *)
(*                                                                          *)
(* OneHealthyTransport holds for overlapping calls too, where the count may *)
(* exceed the users: Alone counts from below.                               *)
(***************************************************************************)
EXTENDS SharedTransport, FiniteSetTheorems, TLAPS

(* A call that creates a transport is the one in flight *)
Creating == \A c \in Calls : pc[c] = "create" => inFlight = c

(* A call whose creation succeeded is past it *)
ReadyIsPast ==
  \A c \in ready : pc[c] \in {"acquired", "recheck", "start", "done", "failed"}

(* Only transports that were ready are torn down *)
ClosedWereReady == closed \subseteq ready

(* The transport a call probes or was handed was ready, an awaited one is a  *)
(* call's, and the one a call creates is its own                            *)
HeldReady ==
  \A c \in Calls :
    /\ pc[c] \in {"probe", "acquired", "recheck", "start"} => held[c] \in ready
    /\ pc[c] = "await" => held[c] \in Calls
    /\ pc[c] = "create" => held[c] = c

(* Flows have a transport that was ready *)
FlowReady(f) == f \in Calls /\ on[f] \in ready

FlowsReady ==
  /\ \A k \in Kind : connections[k] # NoCall => FlowReady(connections[k])
  /\ \A c \in Calls : pc[c] \in {"reuse", "recheck"} => FlowReady(prev[c])

IInv == /\ TypeOK /\ Creating /\ ReadyIsPast /\ ClosedWereReady
        /\ HeldReady /\ FlowsReady /\ RegisteredIsOpen

-----------------------------------------------------------------------------
(* Continue and Acquire: what they make of the call, the registry, the       *)
(* promise and the torn down transports                                      *)
LEMMA ContinueFacts ==
  ASSUME NEW c \in Calls, NEW x, x \in ready \/ (x = NoCall /\ registry = NoCall),
         IInv, pc[c] \in {"idle", "reuse", "probe", "await"}, Continue(c, x)
  PROVE  /\ pc' \in [Calls -> Pc] /\ held' \in [Calls -> Calls \cup {NoCall}]
         /\ registry' \in {registry, NoCall}
         /\ inFlight' \in Calls \cup {NoCall}
         /\ closed \subseteq closed' /\ closed' \subseteq ready
         /\ closed' # closed => registry' = NoCall
         /\ \A d \in Calls \ {c} : pc'[d] = pc[d] /\ held'[d] = held[d]
         /\ \/ pc'[c] = "await" /\ inFlight' = inFlight /\ held'[c] \in Calls
            \/ /\ pc'[c] = "create" /\ held'[c] = c
               /\ inFlight = NoCall /\ inFlight' = c
<1>1. CASE inFlight # NoCall
  BY <1>1 DEF Continue, IInv, TypeOK, Pc, ClosedWereReady
<1>2. CASE inFlight = NoCall
  <2>1. /\ closed' = closed \cup ({x} \ {NoCall})
        /\ registry' = IF x = NoCall THEN registry ELSE NoCall
        /\ inFlight' = c
        /\ pc' = [pc EXCEPT ![c] = "create"]
        /\ held' = [held EXCEPT ![c] = c]
    BY <1>2 DEF Continue
  <2>2. pc \in [Calls -> Pc] /\ held \in [Calls -> Calls \cup {NoCall}] /\ "create" \in Pc
    BY DEF IInv, TypeOK, Pc
  <2>3. /\ pc' \in [Calls -> Pc] /\ held' \in [Calls -> Calls \cup {NoCall}]
        /\ pc'[c] = "create" /\ held'[c] = c
        /\ \A d \in Calls \ {c} : pc'[d] = pc[d] /\ held'[d] = held[d]
    BY <2>1, <2>2
  <2>4. closed \subseteq closed' /\ closed' \subseteq ready
    BY <2>1 DEF IInv, ClosedWereReady
  <2>5. closed' # closed => registry' = NoCall
    BY <2>1
  <2>. QED BY <1>2, <2>1, <2>3, <2>4, <2>5
<1>. QED BY <1>1, <1>2

LEMMA AcquireFacts ==
  ASSUME NEW c \in Calls, IInv,
         pc[c] \in {"idle", "reuse", "probe", "await"}, Acquire(c)
  PROVE  /\ pc' \in [Calls -> Pc] /\ held' \in [Calls -> Calls \cup {NoCall}]
         /\ registry' \in {registry, NoCall}
         /\ inFlight' \in Calls \cup {NoCall}
         /\ closed \subseteq closed' /\ closed' \subseteq ready
         /\ closed' # closed => registry' = NoCall
         /\ \A d \in Calls \ {c} : pc'[d] = pc[d] /\ held'[d] = held[d]
         /\ \/ pc'[c] = "await" /\ inFlight' = inFlight /\ held'[c] \in Calls
            \/ /\ pc'[c] = "create" /\ held'[c] = c
               /\ inFlight = NoCall /\ inFlight' = c
            \/ pc'[c] = "probe" /\ inFlight' = inFlight /\ held'[c] \in ready
<1>1. CASE registry \notin dead \cup {NoCall}
  BY <1>1 DEF Acquire, Continue, IInv, TypeOK, Pc, ClosedWereReady, RegisteredIsOpen
<1>2. CASE registry \in dead \cup {NoCall}
  <2>1. Continue(c, registry) BY <1>2 DEF Acquire
  <2>2. registry \in ready \/ registry = NoCall
    BY DEF IInv, RegisteredIsOpen
  <2>. QED BY <2>1, <2>2, ContinueFacts
<1>. QED BY <1>1, <1>2

(* Release of a flow that was registered *)
LEMMA ReleaseFacts ==
  ASSUME NEW f, f = NoCall \/ FlowReady(f), IInv, Release(f)
  PROVE  /\ refs' \in [Calls -> Int]
         /\ registry' \in {registry, NoCall}
         /\ closed \subseteq closed' /\ closed' \subseteq ready
         /\ closed' # closed => registry' = NoCall
<1>1. CASE f = NoCall
  BY <1>1, CallsAssumption DEF Release, IInv, TypeOK, ClosedWereReady, FlowReady
<1>2. CASE f # NoCall
  BY <1>2 DEF Release, IInv, TypeOK, ClosedWereReady, FlowReady
<1>. QED BY <1>1, <1>2

LEMMA WithoutType ==
  ASSUME NEW f, f = NoCall \/ FlowReady(f), IInv
  PROVE  Without(f) \in [Calls -> SUBSET Calls]
BY DEF Without, IInv, TypeOK, FlowReady

-----------------------------------------------------------------------------
(* A call that acquires while the flows and the ready transports stay *)
LEMMA AcquirePreserves ==
  ASSUME NEW c \in Calls, plan' = plan, IInv,
         pc[c] \in {"idle", "reuse", "probe", "await"}, Acquire(c),
         UNCHANGED <<prev, connections, on, refs, flows, dead, trvars>>,
         flowDead' \subseteq Calls
  PROVE  IInv'
<1>1. pc[c] \notin {"acquired", "recheck", "start", "done", "failed"}
  OBVIOUS
<1>2. c \notin ready BY <1>1 DEF IInv, ReadyIsPast
<1>3. TypeOK' BY AcquireFacts DEF IInv, TypeOK, trvars
<1>4. Creating' BY AcquireFacts, CallsAssumption DEF IInv, Creating
<1>5. ReadyIsPast'
  <2>1. ready' = ready /\ ready \subseteq Calls BY DEF IInv, TypeOK, trvars
  <2>2. \A d \in Calls \ {c} : pc'[d] = pc[d] BY AcquireFacts
  <2>. QED BY <1>2, <2>1, <2>2 DEF IInv, ReadyIsPast
<1>6. ClosedWereReady' BY AcquireFacts DEF ClosedWereReady, trvars
<1>7. HeldReady' BY AcquireFacts DEF IInv, HeldReady, trvars
<1>8. FlowsReady' BY AcquireFacts DEF IInv, FlowsReady, FlowReady, trvars
<1>9. RegisteredIsOpen'
  BY AcquireFacts DEF IInv, RegisteredIsOpen, ClosedWereReady, trvars
<1>. QED BY <1>3, <1>4, <1>5, <1>6, <1>7, <1>8, <1>9 DEF IInv

LEMMA BeginPreserves ==
  ASSUME NEW c \in Calls, plan' = plan, IInv, Begin(c)
  PROVE  IInv'
<1>. UNCHANGED <<connections, on, flowDead, refs, flows, dead, trvars>> /\ pc[c] = "idle"
  BY DEF Begin
<1>1. CASE /\ LiveFlow(connections["resolve"])
           /\ pc' = [pc EXCEPT ![c] = "reuse"]
           /\ prev' = [prev EXCEPT ![c] = connections["resolve"]]
           /\ UNCHANGED <<held, registry, inFlight, closed>>
  <2>1. FlowReady(connections["resolve"])
    BY <1>1 DEF IInv, FlowsReady, LiveFlow, Kind
  <2>. QED BY <1>1, <2>1 DEF IInv, TypeOK, Creating, ReadyIsPast, ClosedWereReady, HeldReady, FlowsReady, FlowReady, RegisteredIsOpen, Pc, trvars
<1>2. CASE Acquire(c) /\ UNCHANGED prev
  BY <1>2, AcquirePreserves DEF IInv, TypeOK
<1>. QED BY <1>1, <1>2 DEF Begin

LEMMA ReuseFailsPreserves ==
  ASSUME NEW c \in Calls, plan' = plan, IInv, ReuseFails(c)
  PROVE  IInv'
<1>1. prev[c] \in Calls BY DEF ReuseFails, IInv, FlowsReady, FlowReady
<1>2. flowDead' \subseteq Calls BY <1>1 DEF ReuseFails, IInv, TypeOK
<1>. QED BY <1>2, AcquirePreserves DEF ReuseFails

LEMMA ProbeFailsPreserves ==
  ASSUME NEW c \in Calls, plan' = plan, IInv, ProbeFails(c)
  PROVE  IInv'
<1>. DEFINE x == held[c]
<1>1. x \in ready BY DEF ProbeFails, IInv, HeldReady
<1>2. pc[c] = "probe" /\ Continue(c, x)
      /\ UNCHANGED <<prev, connections, on, flowDead, refs, flows, trvars>>
  BY DEF ProbeFails
<1>3. x \in Calls BY <1>1 DEF IInv, TypeOK
<1>4. c \notin ready BY <1>2 DEF IInv, ReadyIsPast
<1>. HIDE DEF x
<1>5. /\ pc' \in [Calls -> Pc] /\ held' \in [Calls -> Calls \cup {NoCall}]
      /\ registry' \in {registry, NoCall}
      /\ inFlight' \in Calls \cup {NoCall}
      /\ closed \subseteq closed' /\ closed' \subseteq ready
      /\ closed' # closed => registry' = NoCall
      /\ \A d \in Calls \ {c} : pc'[d] = pc[d] /\ held'[d] = held[d]
      /\ \/ pc'[c] = "await" /\ inFlight' = inFlight /\ held'[c] \in Calls
         \/ /\ pc'[c] = "create" /\ held'[c] = c
            /\ inFlight = NoCall /\ inFlight' = c
  BY <1>1, <1>2, ContinueFacts
<1>6. dead' \subseteq Calls BY <1>3 DEF ProbeFails, x, IInv, TypeOK
<1>7. TypeOK' BY <1>2, <1>5, <1>6 DEF IInv, TypeOK, trvars
<1>8. Creating' BY <1>5, CallsAssumption DEF IInv, Creating
<1>9. ReadyIsPast'
  <2>1. ready' = ready /\ ready \subseteq Calls BY <1>2 DEF IInv, TypeOK, trvars
  <2>. QED BY <1>4, <1>5, <2>1 DEF IInv, ReadyIsPast
<1>10. ClosedWereReady' BY <1>2, <1>5 DEF ClosedWereReady, trvars
<1>11. HeldReady' BY <1>2, <1>5 DEF IInv, HeldReady, trvars
<1>12. FlowsReady' BY <1>2, <1>5 DEF IInv, FlowsReady, FlowReady, trvars
<1>13. RegisteredIsOpen'
  BY <1>2, <1>5 DEF IInv, RegisteredIsOpen, ClosedWereReady, trvars
<1>. QED BY <1>7, <1>8, <1>9, <1>10, <1>11, <1>12, <1>13 DEF IInv

LEMMA WakePreserves ==
  ASSUME NEW c \in Calls, plan' = plan, IInv, Wake(c)
  PROVE  IInv'
<1>1. pc[c] = "await" /\ UNCHANGED <<prev, connections, on, flowDead, flows, dead, trvars>>
  BY DEF Wake, Waking
<1>2. CASE /\ held[c] \in ready
           /\ refs' = [refs EXCEPT ![held[c]] = @ + 1]
           /\ pc' = [pc EXCEPT ![c] = "acquired"]
           /\ UNCHANGED <<held, registry, inFlight, closed>>
  BY <1>1, <1>2 DEF IInv, TypeOK, Creating, ReadyIsPast, ClosedWereReady, HeldReady, FlowsReady, FlowReady, RegisteredIsOpen, Pc, trvars
<1>3. CASE Acquire(c) /\ UNCHANGED refs
  <2>1. flowDead' \subseteq Calls BY <1>1 DEF IInv, TypeOK
  <2>. QED BY <1>1, <1>3, <2>1, AcquirePreserves
<1>4. CASE /\ pc' = [pc EXCEPT ![c] = "failed"]
           /\ UNCHANGED <<held, registry, inFlight, refs, closed>>
  BY <1>1, <1>4 DEF IInv, TypeOK, Creating, ReadyIsPast, ClosedWereReady, HeldReady, FlowsReady, FlowReady, RegisteredIsOpen, Pc, trvars
<1>. QED BY <1>2, <1>3, <1>4 DEF Wake

LEMMA ReuseAlivePreserves ==
  ASSUME NEW c \in Calls, plan' = plan, IInv, ReuseAlive(c)
  PROVE  IInv'
BY DEF IInv, TypeOK, Creating, ReadyIsPast, ClosedWereReady, HeldReady, FlowsReady, FlowReady, RegisteredIsOpen, Pc, trvars,
       ReuseAlive

LEMMA ProbeAlivePreserves ==
  ASSUME NEW c \in Calls, plan' = plan, IInv, ProbeAlive(c)
  PROVE  IInv'
BY DEF IInv, TypeOK, Creating, ReadyIsPast, ClosedWereReady, HeldReady, FlowsReady, FlowReady, RegisteredIsOpen, Pc, trvars,
       ProbeAlive

LEMMA ConnectPreserves ==
  ASSUME NEW c \in Calls, plan' = plan, IInv, Connect(c)
  PROVE  IInv'
BY DEF IInv, TypeOK, Creating, ReadyIsPast, ClosedWereReady, HeldReady, FlowsReady, FlowReady, RegisteredIsOpen, Pc, trvars,
       Connect

LEMMA CreatedPreserves ==
  ASSUME NEW c \in Calls, plan' = plan, IInv, Created(c)
  PROVE  IInv'
<1>1. /\ pc[c] = "create" /\ ready' = ready \cup {c} /\ registry' = c
      /\ refs' = [refs EXCEPT ![c] = 1] /\ inFlight' = NoCall
      /\ pc' = [pc EXCEPT ![c] = "acquired"]
      /\ UNCHANGED <<held, prev, connections, on, flowDead, flows, dead, closed,
                     made, lost, disposed>>
  BY DEF Created
<1>2. TypeOK' BY <1>1 DEF IInv, TypeOK, Pc
<1>3. Creating' BY <1>1, CallsAssumption DEF IInv, Creating, TypeOK
<1>4. c \notin closed BY <1>1 DEF IInv, ReadyIsPast, ClosedWereReady
<1>5. held[c] = c BY <1>1 DEF IInv, HeldReady
<1>6. HeldReady' BY <1>1, <1>5 DEF IInv, HeldReady, TypeOK
<1>. QED BY <1>1, <1>2, <1>3, <1>4, <1>6
     DEF IInv, TypeOK, ReadyIsPast, ClosedWereReady, FlowsReady, FlowReady, RegisteredIsOpen

LEMMA CreateFailsPreserves ==
  ASSUME NEW c \in Calls, plan' = plan, IInv, CreateFails(c)
  PROVE  IInv'
BY DEF IInv, TypeOK, Creating, ReadyIsPast, ClosedWereReady, HeldReady, FlowsReady, FlowReady, RegisteredIsOpen, Pc, trvars,
       CreateFails

LEMMA RecheckAlivePreserves ==
  ASSUME NEW c \in Calls, plan' = plan, IInv, RecheckAlive(c)
  PROVE  IInv'
BY DEF IInv, TypeOK, Creating, ReadyIsPast, ClosedWereReady, HeldReady, FlowsReady, FlowReady, RegisteredIsOpen, Pc, trvars,
       RecheckAlive

LEMMA StartedPreserves ==
  ASSUME NEW c \in Calls, plan' = plan, IInv, Started(c)
  PROVE  IInv'
BY DEF IInv, TypeOK, Creating, ReadyIsPast, ClosedWereReady, HeldReady, FlowsReady, FlowReady, RegisteredIsOpen, Pc, trvars,
       Started

LEMMA StartFailsPreserves ==
  ASSUME NEW c \in Calls, plan' = plan, IInv, StartFails(c)
  PROVE  IInv'
BY DEF IInv, TypeOK, Creating, ReadyIsPast, ClosedWereReady, HeldReady, FlowsReady, FlowReady, RegisteredIsOpen, Pc, trvars,
       StartFails

LEMMA ResumePreserves ==
  ASSUME NEW c \in Calls, plan' = plan, IInv, Resume(c)
  PROVE  IInv'
<1>. DEFINE f == connections["resolve"]
<1>1. /\ pc[c] = "acquired"
      /\ UNCHANGED <<held, inFlight, on, flowDead, dead, trvars>>
  BY DEF Resume, Resuming
<1>2. f = NoCall \/ FlowReady(f) BY DEF IInv, FlowsReady, Kind
<1>3. CASE /\ LiveFlow(f)
           /\ pc' = [pc EXCEPT ![c] = "recheck"]
           /\ prev' = [prev EXCEPT ![c] = f]
           /\ UNCHANGED <<connections, refs, flows, closed, registry>>
  <2>1. FlowReady(f) BY <1>2, <1>3 DEF LiveFlow
  <2>. QED BY <1>1, <1>3, <2>1 DEF IInv, TypeOK, Creating, ReadyIsPast, ClosedWereReady, HeldReady, FlowsReady, FlowReady, RegisteredIsOpen, Pc, trvars
<1>4. CASE /\ pc' = [pc EXCEPT ![c] = "start"]
           /\ connections' = [connections EXCEPT !["resolve"] = NoCall]
           /\ KillConnection(f)
           /\ UNCHANGED prev
  <2>1. /\ refs' \in [Calls -> Int] /\ registry' \in {registry, NoCall}
        /\ closed \subseteq closed' /\ closed' \subseteq ready
        /\ closed' # closed => registry' = NoCall
    BY <1>2, <1>4, ReleaseFacts DEF KillConnection
  <2>2. flows' \in [Calls -> SUBSET Calls]
    BY <1>2, <1>4, WithoutType DEF KillConnection
  <2>. QED BY <1>1, <1>4, <2>1, <2>2 DEF IInv, TypeOK, Creating, ReadyIsPast, ClosedWereReady, HeldReady, FlowsReady, FlowReady, RegisteredIsOpen, Pc, trvars
<1>. QED BY <1>3, <1>4 DEF Resume

LEMMA ResumeExecPreserves ==
  ASSUME NEW c \in Calls, plan' = plan, IInv, ResumeExec(c)
  PROVE  IInv'
<1>. DEFINE f == connections["execServer"]
<1>1. /\ pc[c] = "acquired" /\ Release(f)
      /\ flows' = [Without(f) EXCEPT ![held[c]] = @ \cup {c}]
      /\ on' = [on EXCEPT ![c] = held[c]]
      /\ connections' = [connections EXCEPT !["execServer"] = c]
      /\ pc' = [pc EXCEPT ![c] = "done"]
      /\ UNCHANGED <<held, prev, inFlight, flowDead, dead, trvars>>
  BY DEF ResumeExec, Resuming
<1>2. f = NoCall \/ FlowReady(f) BY DEF IInv, FlowsReady, Kind
<1>3. /\ refs' \in [Calls -> Int] /\ registry' \in {registry, NoCall}
      /\ closed \subseteq closed' /\ closed' \subseteq ready
      /\ closed' # closed => registry' = NoCall
  BY <1>1, <1>2, ReleaseFacts
<1>4. held[c] \in ready BY <1>1 DEF IInv, HeldReady
<1>5. Without(f) \in [Calls -> SUBSET Calls] BY <1>2, WithoutType
<1>6. flows' \in [Calls -> SUBSET Calls] BY <1>1, <1>4, <1>5 DEF IInv, TypeOK
<1>. HIDE DEF f
<1>7. TypeOK' BY <1>1, <1>3, <1>4, <1>6 DEF IInv, TypeOK, Pc, trvars
<1>8. FlowsReady' BY <1>1, <1>4 DEF IInv, TypeOK, FlowsReady, FlowReady, trvars
<1>. QED BY <1>1, <1>3, <1>7, <1>8
     DEF IInv, TypeOK, Creating, ReadyIsPast, ClosedWereReady, HeldReady, RegisteredIsOpen, trvars

LEMMA RecheckFailsPreserves ==
  ASSUME NEW c \in Calls, plan' = plan, IInv, RecheckFails(c)
  PROVE  IInv'
<1>1. /\ pc[c] = "recheck" /\ KillConnection(prev[c])
      /\ flowDead' = flowDead \cup {prev[c]}
      /\ connections' = [connections EXCEPT !["resolve"] = NoCall]
      /\ pc' = [pc EXCEPT ![c] = "start"]
      /\ UNCHANGED <<held, prev, inFlight, on, dead, trvars>>
  BY DEF RecheckFails
<1>2. FlowReady(prev[c]) BY <1>1 DEF IInv, FlowsReady
<1>3. /\ refs' \in [Calls -> Int] /\ registry' \in {registry, NoCall}
      /\ closed \subseteq closed' /\ closed' \subseteq ready
      /\ closed' # closed => registry' = NoCall
  BY <1>1, <1>2, ReleaseFacts DEF KillConnection
<1>4. flows' \in [Calls -> SUBSET Calls]
  BY <1>1, <1>2, WithoutType DEF KillConnection
<1>5. prev[c] \in Calls BY <1>2 DEF FlowReady
<1>. QED BY <1>1, <1>3, <1>4, <1>5 DEF IInv, TypeOK, Creating, ReadyIsPast, ClosedWereReady, HeldReady, FlowsReady, FlowReady, RegisteredIsOpen, Pc, trvars

LEMMA FaultPreserves ==
  ASSUME NEW t \in Calls, plan' = plan, IInv, Lose(t) \/ MonitorProbe(t) \/ Unreachable(t)
  PROVE  IInv'
BY DEF Lose, MonitorProbe, Unreachable, MarkDead, IInv, TypeOK, Creating,
       ReadyIsPast, ClosedWereReady, HeldReady, FlowsReady, FlowReady,
       RegisteredIsOpen, Pc, trvars

LEMMA DisposePreserves ==
  ASSUME plan' = plan, IInv, Dispose
  PROVE  IInv'
<1>. DEFINE killed == {connections[k] : k \in Kind} \ {NoCall}
            at(t) == {f \in killed : on[f] = t}
            left(t) == refs[t] - Cardinality(at(t))
            freed == {on[f] : f \in killed} \cap {t \in Calls : left(t) <= 0}
<1>1. /\ refs' = [t \in Calls |-> left(t)]
      /\ flows' = [t \in Calls |-> flows[t] \ killed]
      /\ closed' = closed \cup freed \cup
                     (IF freed = {} THEN {registry} \ {NoCall} ELSE {})
      /\ registry' = NoCall
      /\ connections' = [k \in Kind |-> NoCall]
      /\ disposed' = TRUE
      /\ UNCHANGED <<pc, held, prev, inFlight, on, flowDead, dead, made, ready, lost>>
  BY DEF Dispose
<1>2. \A f \in killed : FlowReady(f) BY DEF IInv, FlowsReady
<1>3. freed \subseteq ready BY <1>2 DEF FlowReady
<1>4. ASSUME NEW t \in Calls PROVE left(t) \in Int
  <2>1. IsFiniteSet({connections["resolve"], connections["execServer"]})
    <3>1. IsFiniteSet({connections["execServer"]}) BY FS_Singleton
    <3>2. {connections["resolve"], connections["execServer"]}
            = {connections["execServer"]} \cup {connections["resolve"]}
      OBVIOUS
    <3>. QED BY <3>1, <3>2, FS_AddElement
  <2>2. at(t) \subseteq {connections["resolve"], connections["execServer"]}
    BY DEF Kind
  <2>3. IsFiniteSet(at(t)) BY <2>1, <2>2, FS_Subset
  <2>4. Cardinality(at(t)) \in Int BY <2>3, FS_CardinalityType
  <2>5. refs[t] \in Int BY DEF IInv, TypeOK
  <2>. QED BY <2>4, <2>5
<1>. HIDE DEF left, freed, killed
<1>5. closed' \subseteq ready
  BY <1>1, <1>3 DEF IInv, ClosedWereReady, RegisteredIsOpen
<1>6. refs' \in [Calls -> Int] BY <1>1, <1>4
<1>7. flows' \in [Calls -> SUBSET Calls] BY <1>1 DEF IInv, TypeOK
<1>. QED BY <1>1, <1>5, <1>6, <1>7 DEF IInv, TypeOK, Creating, ReadyIsPast, ClosedWereReady, HeldReady, FlowsReady, FlowReady, RegisteredIsOpen, Pc, trvars

LEMMA IInvInit == Init => IInv
<1>. SUFFICES ASSUME Init PROVE IInv OBVIOUS
<1>1. TypeOK
  <2>1. refs \in [Calls -> Int] /\ flows \in [Calls -> SUBSET Calls] BY DEF Init
  <2>. QED BY <2>1 DEF Init, TypeOK, Pc
<1>2. Creating /\ ReadyIsPast /\ ClosedWereReady /\ HeldReady /\ RegisteredIsOpen
  BY DEF Init, Creating, ReadyIsPast, ClosedWereReady, HeldReady, RegisteredIsOpen
<1>3. FlowsReady BY DEF Init, FlowsReady
<1>. QED BY <1>1, <1>2, <1>3 DEF IInv

LEMMA IInvNext == IInv /\ [Next]_vars => IInv'
<1>. SUFFICES ASSUME IInv, [Next]_vars PROVE IInv' OBVIOUS
<1>p. plan' = plan BY DEF Next, Step, Unforced, vars
<1>1. ASSUME NEW c \in Calls, Begin(c) PROVE IInv' BY <1>p, <1>1, BeginPreserves
<1>2. ASSUME NEW c \in Calls, Step(c) PROVE IInv'
  BY <1>p, <1>2, ReuseAlivePreserves, ReuseFailsPreserves, ProbeAlivePreserves,
     ProbeFailsPreserves, ConnectPreserves, CreatedPreserves,
     CreateFailsPreserves, WakePreserves, ResumePreserves, ResumeExecPreserves,
     RecheckAlivePreserves, RecheckFailsPreserves, StartedPreserves,
     StartFailsPreserves DEF Step
<1>3. ASSUME NEW t \in Calls, Lose(t) \/ MonitorProbe(t) \/ Unreachable(t)
      PROVE IInv'
  BY <1>p, <1>3, FaultPreserves
<1>4. CASE Dispose BY <1>p, <1>4, DisposePreserves
<1>5. CASE UNCHANGED vars
  BY <1>5 DEF IInv, TypeOK, Creating, ReadyIsPast, ClosedWereReady, HeldReady, FlowsReady, FlowReady, RegisteredIsOpen, Pc, trvars, vars
<1>. QED BY <1>1, <1>2, <1>3, <1>4, <1>5 DEF Next, Unforced

LEMMA Inductive == Spec => []IInv
BY IInvInit, IInvNext, PTL DEF Spec

(* Every reachable state is well typed: the variables of SharedTransport and *)
(* of the calls hold what resolver/index.ts declares.                        *)
THEOREM TypeCorrect == Spec => []TypeOK
<1>1. IInv => TypeOK BY DEF IInv
<1>. QED BY <1>1, Inductive, PTL

(* For any number of overlapping calls and any faults, two transports are    *)
(* never being created at once: the in-flight promise of acquireTransport    *)
(* dedups them across every await.                                           *)
THEOREM SingleFlight == Spec => []OneCreation
<1>1. IInv => OneCreation BY DEF IInv, Creating, OneCreation
<1>. QED BY <1>1, Inductive, PTL

(* For any number of calls and any faults, what is registered for the        *)
(* authority was created successfully and has not been torn down.            *)
THEOREM RegistryOpen == Spec => []RegisteredIsOpen
<1>1. IInv => RegisteredIsOpen BY DEF IInv
<1>. QED BY <1>1, Inductive, PTL

-----------------------------------------------------------------------------
(* Who uses a transport: the flows registered on it, and the calls that were *)
(* handed it and have not registered one yet                                 *)

Steady == ~MayHappen("overlap")

FlowOn(k, t) == connections[k] # NoCall /\ on[connections[k]] = t
Holds(c, t) == pc[c] \in {"acquired", "start"} /\ held[c] = t
HeldBy(k, t) == \E c \in Calls : KindOf(c) = k /\ Holds(c, t)
One(p) == IF p THEN 1 ELSE 0
Users(t) == One(FlowOn("resolve", t)) + One(FlowOn("execServer", t))
              + One(HeldBy("resolve", t)) + One(HeldBy("execServer", t))

(* A start that threw has left its reference behind *)
Leaked(t) == refs[t] > Users(t)

(* Whatever the host does: which call is where, and that an open transport   *)
(* is referred to                                                            *)
Places ==
  /\ \A k \in Kind : connections[k] # NoCall =>
       KindOf(connections[k]) = k /\ pc[connections[k]] = "done"
  /\ \A c \in ready : held[c] = c
  /\ \A t \in made \ ready : pc[t] \in {"create", "failed"}
  /\ \A c \in Calls : pc[c] \in {"reuse", "recheck", "start"} => c \in Resolves
  /\ inFlight # NoCall => registry = NoCall /\ pc[inFlight] = "create"
  /\ ~disposed => \A t \in ready \ closed : refs[t] >= 1

(* Those that await a creation await one, and find it registered *)
Awaiting ==
  /\ \A c \in Calls : pc[c] = "await" => pc[held[c]] \in {"create", "acquired", "failed"}
  /\ \A c, d \in Waking : held[c] = held[d]
  /\ ~disposed => \A c \in Waking : held[c] \in ready =>
       /\ registry \in {held[c], NoCall}
       /\ held[c] \notin dead => registry = held[c]

(* From here on the calls of one kind come one after the other.  A resolve   *)
(* past its first look finds no live flow of its own                         *)
Serial ==
  Steady =>
    /\ \A c, d \in Calls : UnderWay(c) /\ UnderWay(d) /\ KindOf(c) = KindOf(d) => c = d
    /\ ~disposed => \A c \in Resolves :
         /\ pc[c] = "reuse" => prev[c] = connections["resolve"]
         /\ pc[c] \in {"probe", "create", "await", "acquired"} => ~LiveFlow(connections["resolve"])
         /\ pc[c] = "start" => connections["resolve"] = NoCall
         /\ pc[c] # "recheck"

(* The count is that of the users, and more only after a failure *)
Counted ==
  Steady =>
    /\ \A t, f \in Calls : f \in flows[t] <=> on[f] = t /\ \E k \in Kind : connections[k] = f
    /\ \A t \in ready : /\ refs[t] >= Users(t)
                        /\ (\A c \in Calls : pc[c] # "failed") => refs[t] = Users(t)

(* Nobody but those of a dead one refers to a transport torn down *)
Unused == Steady /\ ~disposed => \A t \in closed \ dead : refs[t] <= 0

(* A registered transport is used by the kind of call that made it *)
Kept(k, t) == Leaked(t) \/ FlowOn(k, t)

Registered ==
  Steady /\ ~disposed /\ registry \notin dead \cup {NoCall} =>
    \/ Kept(KindOf(registry), registry)
    \/ pc[registry] = "acquired"
    \/ \E c \in Calls : KindOf(c) = KindOf(registry) /\ pc[c] = "start" /\ held[c] = registry

(* A transport that is probed is still registered, or used by the kind of    *)
(* the call that probes it; one registered since is of the other kind        *)
Probing ==
  Steady /\ ~disposed =>
    /\ \A c \in Calls : pc[c] = "probe" =>
         /\ pc[held[c]] # "acquired"
         /\ held[c] \notin dead =>
              /\ registry = held[c] \/ Kept(KindOf(c), held[c])
              /\ KindOf(held[c]) = KindOf(c) => Kept(KindOf(c), held[c])
    /\ \A c \in Calls : pc[c] \in {"probe", "acquired"} /\ registry \notin {held[c], NoCall} =>
         KindOf(registry) # KindOf(c)

(* dispose() kills every flow, and closes what nobody else refers to *)
Killed == disposed => \A k \in Kind : connections[k] = NoCall
Ended == Orderly /\ disposed /\ Quiet => Open = {}

UseInv ==
  /\ Places /\ Awaiting /\ Serial /\ Counted
  /\ Unused /\ Registered /\ Probing /\ Killed /\ Ended

-----------------------------------------------------------------------------
(* What the steps that acquire make of the calls *)

Stays(c) == \A d \in Calls \ {c} : pc'[d] = pc[d] /\ held'[d] = held[d]

Probes(c) ==
  /\ pc'[c] = "probe" /\ held'[c] = registry /\ registry \notin dead \cup {NoCall}
  /\ UNCHANGED <<registry, inFlight, closed>>
Joins(c) ==
  /\ pc'[c] = "await" /\ held'[c] = inFlight /\ inFlight # NoCall
  /\ UNCHANGED <<registry, inFlight, closed>>
Creates(c, x) ==
  /\ pc'[c] = "create" /\ held'[c] = c /\ inFlight = NoCall /\ inFlight' = c
  /\ registry' = NoCall /\ closed' = closed \cup ({x} \ {NoCall})

LEMMA ContinueMoves ==
  ASSUME IInv, NEW c \in Calls, NEW x, Continue(c, x), x # NoCall \/ registry = NoCall
  PROVE  Stays(c) /\ (Joins(c) \/ Creates(c, x))
<1>1. pc \in [Calls -> Pc] /\ held \in [Calls -> Calls \cup {NoCall}]
  BY DEF IInv, TypeOK
<1>2. CASE inFlight # NoCall
  BY <1>1, <1>2 DEF Continue, Stays, Joins
<1>3. CASE inFlight = NoCall
  <2>1. /\ closed' = closed \cup ({x} \ {NoCall})
        /\ registry' = IF x = NoCall THEN registry ELSE NoCall
        /\ inFlight' = c
        /\ pc' = [pc EXCEPT ![c] = "create"]
        /\ held' = [held EXCEPT ![c] = c]
    BY <1>3 DEF Continue
  <2>. QED BY <1>1, <1>3, <2>1 DEF Stays, Creates
<1>. QED BY <1>2, <1>3

LEMMA AcquireMoves ==
  ASSUME IInv, NEW c \in Calls, Acquire(c)
  PROVE  /\ Stays(c)
         /\ Probes(c) \/ Joins(c) \/ (Creates(c, registry) /\ registry \in dead \cup {NoCall})
<1>1. pc \in [Calls -> Pc] /\ held \in [Calls -> Calls \cup {NoCall}]
  BY DEF IInv, TypeOK
<1>2. CASE registry \notin dead \cup {NoCall}
  <2>1. /\ pc' = [pc EXCEPT ![c] = "probe"] /\ held' = [held EXCEPT ![c] = registry]
        /\ UNCHANGED <<registry, inFlight, closed>>
    BY <1>2 DEF Acquire
  <2>. QED BY <1>1, <1>2, <2>1 DEF Stays, Probes
<1>3. CASE registry \in dead \cup {NoCall}
  <2>1. Continue(c, registry)
    BY <1>3 DEF Acquire
  <2>. QED BY <1>3, <2>1, ContinueMoves
<1>. QED BY <1>2, <1>3

(* A resolve that finds a flow to reuse, and the calls that acquire *)
Reuses(c) ==
  /\ c \in Resolves /\ LiveFlow(connections["resolve"])
  /\ pc'[c] = "reuse" /\ prev'[c] = connections["resolve"] /\ held'[c] = held[c]
  /\ UNCHANGED <<registry, inFlight, closed>>

LEMMA BeginMoves ==
  ASSUME IInv, NEW c \in Calls, Begin(c)
  PROVE  /\ Stays(c) /\ pc[c] = "idle" /\ Event
         /\ Steady => \A o \in Calls : UnderWay(o) => KindOf(o) # KindOf(c)
         /\ UNCHANGED <<connections, on, flowDead, refs, flows, dead, trvars>>
         /\ \A d \in Calls \ {c} : prev'[d] = prev[d]
         /\ \/ Reuses(c)
            \/ /\ Probes(c) \/ Joins(c) \/ (Creates(c, registry) /\ registry \in dead \cup {NoCall})
               /\ c \in Resolves => ~LiveFlow(connections["resolve"])
<1>1. /\ pc[c] = "idle" /\ Event
      /\ UNCHANGED <<connections, on, flowDead, refs, flows, dead, trvars>>
      /\ Steady => \A o \in Calls : UnderWay(o) => KindOf(o) # KindOf(c)
  BY DEF Begin, Steady
<1>2. /\ pc \in [Calls -> Pc] /\ held \in [Calls -> Calls \cup {NoCall}]
      /\ prev \in [Calls -> Calls \cup {NoCall}]
  BY DEF IInv, TypeOK
<1>3. CASE /\ c \in Resolves /\ LiveFlow(connections["resolve"])
           /\ pc' = [pc EXCEPT ![c] = "reuse"]
           /\ prev' = [prev EXCEPT ![c] = connections["resolve"]]
           /\ UNCHANGED <<held, registry, inFlight, closed>>
  BY <1>1, <1>2, <1>3 DEF Stays, Reuses
<1>4. CASE /\ c \in Resolves => ~LiveFlow(connections["resolve"])
           /\ Acquire(c)
           /\ UNCHANGED prev
  BY <1>1, <1>4, AcquireMoves
<1>. QED BY <1>3, <1>4 DEF Begin

LEMMA ReuseFailsMoves ==
  ASSUME IInv, NEW c \in Calls, ReuseFails(c)
  PROVE  /\ Stays(c) /\ pc[c] = "reuse" /\ Event
         /\ flowDead' = flowDead \cup {prev[c]}
         /\ UNCHANGED <<prev, connections, on, refs, flows, dead, trvars>>
         /\ Probes(c) \/ Joins(c) \/ (Creates(c, registry) /\ registry \in dead \cup {NoCall})
<1>1. /\ pc[c] = "reuse" /\ Event /\ Acquire(c)
      /\ flowDead' = flowDead \cup {prev[c]}
      /\ UNCHANGED <<prev, connections, on, refs, flows, dead, trvars>>
  BY DEF ReuseFails
<1>. QED BY <1>1, AcquireMoves

LEMMA ProbeFailsMoves ==
  ASSUME IInv, NEW c \in Calls, ProbeFails(c)
  PROVE  /\ Stays(c) /\ pc[c] = "probe" /\ Event /\ held[c] \in ready
         /\ dead' = dead \cup {held[c]}
         /\ UNCHANGED <<prev, connections, on, flowDead, refs, flows, trvars>>
         /\ Joins(c) \/ Creates(c, held[c])
<1>1. /\ pc[c] = "probe" /\ Event /\ Continue(c, held[c])
      /\ dead' = dead \cup {held[c]}
      /\ UNCHANGED <<prev, connections, on, flowDead, refs, flows, trvars>>
  BY DEF ProbeFails
<1>2. held[c] \in ready
  BY <1>1 DEF IInv, HeldReady
<1>3. held[c] # NoCall
  BY <1>2, CallsAssumption DEF IInv, TypeOK
<1>4. PICK x : x = held[c]
  OBVIOUS
<1>5. Stays(c) /\ (Joins(c) \/ Creates(c, x))
  BY <1>1, <1>3, <1>4, ContinueMoves
<1>. QED BY <1>1, <1>2, <1>4, <1>5

(* The continuation of an awaited creation *)
Handed(c) ==
  /\ held[c] \in ready \ dead /\ pc'[c] = "acquired" /\ held'[c] = held[c]
  /\ refs' = [refs EXCEPT ![held[c]] = refs[held[c]] + 1]
  /\ UNCHANGED <<registry, inFlight, closed>>
Refused(c) ==
  /\ held[c] \notin ready /\ pc'[c] = "failed" /\ held'[c] = held[c]
  /\ UNCHANGED <<registry, inFlight, refs, closed>>

LEMMA WakeMoves ==
  ASSUME IInv, NEW c \in Calls, Wake(c)
  PROVE  /\ Stays(c) /\ pc[c] = "await" /\ c \in Waking /\ ~disposed
         /\ UNCHANGED <<prev, connections, on, flowDead, flows, dead, trvars>>
         /\ \/ Handed(c)
            \/ /\ held[c] \in ready \cap dead /\ UNCHANGED refs
               /\ Probes(c) \/ Joins(c) \/ (Creates(c, registry) /\ registry \in dead \cup {NoCall})
            \/ Refused(c)
<1>1. /\ pc[c] = "await" /\ c \in Waking /\ ~disposed
      /\ UNCHANGED <<prev, connections, on, flowDead, flows, dead, trvars>>
  BY DEF Wake, Waking
<1>2. pc \in [Calls -> Pc] /\ held \in [Calls -> Calls \cup {NoCall}]
  BY DEF IInv, TypeOK
<1>3. CASE /\ held[c] \in ready \ dead
           /\ refs' = [refs EXCEPT ![held[c]] = @ + 1]
           /\ pc' = [pc EXCEPT ![c] = "acquired"]
           /\ UNCHANGED <<held, registry, inFlight, closed>>
  BY <1>1, <1>2, <1>3 DEF Stays, Handed
<1>4. CASE held[c] \in ready \cap dead /\ Acquire(c) /\ UNCHANGED refs
  BY <1>1, <1>4, AcquireMoves
<1>5. CASE /\ held[c] \notin ready
           /\ pc' = [pc EXCEPT ![c] = "failed"]
           /\ UNCHANGED <<held, registry, inFlight, refs, closed>>
  BY <1>1, <1>2, <1>5 DEF Stays, Refused
<1>. QED BY <1>3, <1>4, <1>5 DEF Wake

(* The steps of a call past that *)
LEMMA OtherMoves ==
  ASSUME IInv, NEW c \in Calls
  PROVE  /\ ReuseAlive(c) => Stays(c) /\ pc[c] = "reuse" /\ pc'[c] = "done" /\ held'[c] = held[c]
         /\ ProbeAlive(c) => /\ Stays(c) /\ pc[c] = "probe" /\ pc'[c] = "acquired" /\ held'[c] = held[c]
                             /\ held[c] \in ready
         /\ Created(c) => /\ Stays(c) /\ pc[c] = "create" /\ pc'[c] = "acquired"
                          /\ held[c] = c /\ held'[c] = c /\ c \notin ready /\ c \notin closed
                          /\ inFlight = c
         /\ CreateFails(c) => /\ Stays(c) /\ pc[c] = "create" /\ pc'[c] = "failed" /\ held'[c] = c
                              /\ inFlight = c
         /\ Started(c) => /\ Stays(c) /\ pc[c] = "start" /\ pc'[c] = "done" /\ held'[c] = held[c]
                          /\ held[c] \in ready
         /\ StartFails(c) => /\ Stays(c) /\ pc[c] = "start" /\ pc'[c] = "failed" /\ held'[c] = held[c]
         /\ RecheckAlive(c) => /\ Stays(c) /\ pc[c] = "recheck" /\ pc'[c] = "done" /\ held'[c] = held[c]
         /\ RecheckFails(c) => /\ Stays(c) /\ pc[c] = "recheck" /\ pc'[c] = "start" /\ held'[c] = held[c]
         /\ ResumeExec(c) => /\ Stays(c) /\ pc[c] = "acquired" /\ pc'[c] = "done" /\ held'[c] = held[c]
                             /\ held[c] \in ready /\ c \in Execs
         /\ Resume(c) => /\ Stays(c) /\ pc[c] = "acquired" /\ held'[c] = held[c]
                         /\ held[c] \in ready /\ c \in Resolves
                         /\ pc'[c] = IF LiveFlow(connections["resolve"]) THEN "recheck" ELSE "start"
<1>1. pc \in [Calls -> Pc] /\ held \in [Calls -> Calls \cup {NoCall}] /\ ready \subseteq Calls
  BY DEF IInv, TypeOK
<1>2. /\ pc[c] \in {"probe", "acquired", "recheck", "start"} => held[c] \in ready
      /\ pc[c] = "create" => held[c] = c /\ inFlight = c /\ c \notin ready /\ c \notin closed
  BY DEF IInv, HeldReady, Creating, ReadyIsPast, ClosedWereReady
<1>3. ReuseAlive(c) => Stays(c) /\ pc[c] = "reuse" /\ pc'[c] = "done" /\ held'[c] = held[c]
  BY <1>1 DEF ReuseAlive, Stays
<1>4. ProbeAlive(c) => Stays(c) /\ pc[c] = "probe" /\ pc'[c] = "acquired" /\ held'[c] = held[c]
  BY <1>1 DEF ProbeAlive, Stays
<1>5. Created(c) => Stays(c) /\ pc[c] = "create" /\ pc'[c] = "acquired" /\ held'[c] = held[c]
  BY <1>1 DEF Created, Stays
<1>6. CreateFails(c) => Stays(c) /\ pc[c] = "create" /\ pc'[c] = "failed" /\ held'[c] = held[c]
  BY <1>1 DEF CreateFails, Stays
<1>7. Started(c) => Stays(c) /\ pc[c] = "start" /\ pc'[c] = "done" /\ held'[c] = held[c]
  BY <1>1 DEF Started, Stays
<1>8. StartFails(c) => Stays(c) /\ pc[c] = "start" /\ pc'[c] = "failed" /\ held'[c] = held[c]
  BY <1>1 DEF StartFails, Stays
<1>9. RecheckAlive(c) => Stays(c) /\ pc[c] = "recheck" /\ pc'[c] = "done" /\ held'[c] = held[c]
  BY <1>1 DEF RecheckAlive, Stays
<1>10. RecheckFails(c) => Stays(c) /\ pc[c] = "recheck" /\ pc'[c] = "start" /\ held'[c] = held[c]
  BY <1>1 DEF RecheckFails, Stays
<1>11. ResumeExec(c) => /\ Stays(c) /\ pc[c] = "acquired" /\ pc'[c] = "done" /\ held'[c] = held[c]
                        /\ c \in Execs
  BY <1>1 DEF ResumeExec, Stays, Resuming
<1>12. Resume(c) => /\ Stays(c) /\ pc[c] = "acquired" /\ held'[c] = held[c] /\ c \in Resolves
                    /\ pc'[c] = IF LiveFlow(connections["resolve"]) THEN "recheck" ELSE "start"
  BY <1>1 DEF Resume, Stays, Resuming
<1>. QED BY <1>2, <1>3, <1>4, <1>5, <1>6, <1>7, <1>8, <1>9, <1>10, <1>11, <1>12

-----------------------------------------------------------------------------
(* Where the calls are *)

(* What a release closes has no other reference *)
LEMMA ReleaseRefs ==
  ASSUME IInv, NEW f, f = NoCall \/ FlowReady(f), Release(f)
  PROVE  \A t \in Calls : refs'[t] >= refs[t] \/ (refs'[t] = refs[t] - 1 /\ (refs[t] <= 1 => t \in closed'))
<1>1. refs \in [Calls -> Int]
  BY DEF IInv, TypeOK
<1>2. CASE f = NoCall
  BY <1>1, <1>2, CallsAssumption DEF Release, FlowReady
<1>3. CASE f # NoCall
  <2>1. PICK s \in Calls : s = on[f]
    BY <1>3 DEF FlowReady, IInv, TypeOK
  <2>2. /\ refs' = [refs EXCEPT ![s] = refs[s] - 1]
        /\ refs[s] <= 1 => s \in closed'
    BY <1>3, <2>1 DEF Release
  <2>. QED BY <1>1, <2>2
<1>. QED BY <1>2, <1>3

LEMMA PlacesStep ==
  ASSUME IInv, Places, NEW c \in Calls, Step(c) \/ Begin(c), plan' = plan
  PROVE  Places'
<1>0. /\ \A k \in Kind : connections[k] # NoCall =>
           connections[k] \in Calls /\ KindOf(connections[k]) = k /\ pc[connections[k]] = "done"
      /\ \A d \in ready : held[d] = d /\ d \in Calls
      /\ \A t \in made \ ready : pc[t] \in {"create", "failed"} /\ t \in Calls
      /\ \A d \in Calls : pc[d] \in {"reuse", "recheck", "start"} => d \in Resolves
      /\ inFlight # NoCall => registry = NoCall /\ pc[inFlight] = "create" /\ inFlight \in Calls
      /\ ~disposed => \A t \in ready \ closed : refs[t] >= 1
      /\ "resolve" \in Kind /\ "execServer" \in Kind
  BY DEF Places, IInv, TypeOK, Kind, FlowsReady, FlowReady
<1>1. CASE Begin(c)
  <2>1. /\ Stays(c) /\ pc[c] = "idle" /\ UNCHANGED <<connections, refs, made, ready, disposed>>
        /\ Reuses(c) \/ Probes(c) \/ Joins(c) \/ Creates(c, registry)
    BY <1>1, BeginMoves DEF trvars
  <2>2. c \notin ready /\ c \notin made
    BY <1>0, <2>1 DEF IInv, ReadyIsPast
  <2>. QED BY <1>0, <2>1, <2>2 DEF Places, Stays, Reuses, Probes, Joins, Creates
<1>2. CASE ReuseFails(c) \/ ProbeFails(c)
  <2>1. /\ Stays(c) /\ pc[c] \in {"reuse", "probe"} /\ UNCHANGED <<connections, refs, made, ready, disposed>>
        /\ Probes(c) \/ Joins(c) \/ \E x : Creates(c, x)
    BY <1>2, ReuseFailsMoves, ProbeFailsMoves DEF trvars
  <2>2. c \notin ready /\ c \notin made
    BY <1>0, <2>1 DEF IInv, ReadyIsPast
  <2>. QED BY <1>0, <2>1, <2>2 DEF Places, Stays, Probes, Joins, Creates
<1>3. CASE Wake(c)
  <2>1. /\ Stays(c) /\ pc[c] = "await" /\ UNCHANGED <<connections, made, ready, disposed>>
        /\ Handed(c) \/ (Refused(c)) \/ (refs' = refs /\ (Probes(c) \/ Joins(c) \/ \E x : Creates(c, x)))
    BY <1>3, WakeMoves DEF trvars
  <2>2. c \notin ready /\ c \notin made
    BY <1>0, <2>1 DEF IInv, ReadyIsPast
  <2>3. /\ \A t \in ready : t \in Calls => refs'[t] >= refs[t] /\ refs[t] \in Int /\ refs'[t] \in Int
        /\ closed \subseteq closed' /\ pc'[c] \in {"acquired", "failed", "probe", "await", "create"}
        /\ inFlight' # NoCall => registry' = NoCall /\ pc'[inFlight'] = "create"
    <3>1. refs \in [Calls -> Int]
      BY DEF IInv, TypeOK
    <3>2. inFlight' # NoCall => registry' = NoCall /\ pc'[inFlight'] = "create"
      BY <1>0, <2>1 DEF Stays, Handed, Refused, Probes, Joins, Creates
    <3>. QED BY <1>0, <2>1, <3>1, <3>2 DEF Handed, Refused, Probes, Joins, Creates
  <2>. QED BY <1>0, <2>1, <2>2, <2>3 DEF Places, Stays
<1>4. CASE ProbeAlive(c)
  <2>1. /\ Stays(c) /\ pc[c] = "probe" /\ pc'[c] = "acquired" /\ held'[c] = held[c] /\ held[c] \in ready
        /\ UNCHANGED <<connections, made, ready, disposed, registry, inFlight, closed>>
        /\ refs' = [refs EXCEPT ![held[c]] = refs[held[c]] + 1] /\ refs \in [Calls -> Int]
    BY <1>4, OtherMoves DEF ProbeAlive, trvars, IInv, TypeOK
  <2>2. c \notin ready /\ c \notin made
    BY <1>0, <2>1 DEF IInv, ReadyIsPast
  <2>. QED BY <1>0, <2>1, <2>2 DEF Places, Stays
<1>5. CASE Created(c)
  <2>1. /\ Stays(c) /\ pc[c] = "create" /\ pc'[c] = "acquired" /\ held'[c] = c
        /\ UNCHANGED <<connections, made, disposed, closed>> /\ ready' = ready \cup {c}
        /\ inFlight' = NoCall
        /\ refs' = [refs EXCEPT ![c] = 1] /\ refs \in [Calls -> Int]
    BY <1>5, OtherMoves DEF Created, trvars, IInv, TypeOK
  <2>. QED BY <1>0, <2>1 DEF Places, Stays
<1>6. CASE ReuseAlive(c) \/ CreateFails(c) \/ StartFails(c) \/ RecheckAlive(c)
  <2>1. /\ Stays(c) /\ pc[c] \in {"reuse", "create", "start", "recheck"} /\ pc'[c] \in {"done", "failed"}
        /\ pc[c] = "create" => pc'[c] = "failed"
        /\ held'[c] = held[c] \/ pc[c] = "create"
        /\ UNCHANGED <<connections, made, ready, disposed, registry, closed, refs>>
        /\ inFlight' = IF pc[c] = "create" THEN NoCall ELSE inFlight
        /\ pc[c] = "create" => c \notin ready
    <3>1. CASE ReuseAlive(c)
      BY <3>1, OtherMoves DEF ReuseAlive, trvars
    <3>2. CASE CreateFails(c)
      BY <3>2, OtherMoves DEF CreateFails, trvars, IInv, ReadyIsPast
    <3>3. CASE StartFails(c)
      BY <3>3, OtherMoves DEF StartFails, trvars
    <3>4. CASE RecheckAlive(c)
      BY <3>4, OtherMoves DEF RecheckAlive, trvars
    <3>. QED BY <1>6, <3>1, <3>2, <3>3, <3>4
  <2>. QED BY <1>0, <2>1 DEF Places, Stays
<1>7. CASE Started(c)
  <2>1. /\ Stays(c) /\ pc[c] = "start" /\ pc'[c] = "done" /\ held'[c] = held[c]
        /\ UNCHANGED <<made, ready, disposed, registry, closed, refs, inFlight>>
        /\ connections' = [connections EXCEPT !["resolve"] = c]
        /\ connections \in [Kind -> Calls \cup {NoCall}]
    BY <1>7, OtherMoves DEF Started, trvars, IInv, TypeOK
  <2>2. KindOf(c) = "resolve"
    BY <1>0, <2>1 DEF KindOf
  <2>. QED BY <1>0, <2>1, <2>2 DEF Places, Stays, Kind
<1>8. CASE Resume(c) \/ RecheckFails(c) \/ ResumeExec(c)
  <2>1. /\ Stays(c) /\ pc[c] \in {"acquired", "recheck"} /\ held'[c] = held[c]
        /\ pc'[c] \in {"recheck", "start", "done"}
        /\ pc'[c] \in {"recheck", "start"} => c \in Resolves
        /\ UNCHANGED <<made, ready, disposed, inFlight>>
        /\ connections \in [Kind -> Calls \cup {NoCall}]
    BY <1>0, <1>8, OtherMoves DEF Resume, RecheckFails, ResumeExec, trvars, IInv, TypeOK
  <2>2. \/ UNCHANGED <<refs, closed, registry>>
        \/ \E f : (f = NoCall \/ FlowReady(f)) /\ Release(f)
    BY <1>8 DEF Resume, RecheckFails, ResumeExec, KillConnection, IInv, FlowsReady, Kind
  <2>3. /\ \A t \in ready : refs'[t] >= refs[t] \/ (refs'[t] = refs[t] - 1 /\ (refs[t] <= 1 => t \in closed'))
        /\ closed \subseteq closed' /\ registry' \in {registry, NoCall}
        /\ refs' \in [Calls -> Int]
    <3>1. CASE UNCHANGED <<refs, closed, registry>>
      <4>1. refs \in [Calls -> Int]
        BY DEF IInv, TypeOK
      <4>. QED BY <1>0, <3>1, <4>1
    <3>2. ASSUME NEW f, f = NoCall \/ FlowReady(f), Release(f)
          PROVE  /\ \A t \in ready : refs'[t] >= refs[t] \/ (refs'[t] = refs[t] - 1 /\ (refs[t] <= 1 => t \in closed'))
                 /\ closed \subseteq closed' /\ registry' \in {registry, NoCall}
                 /\ refs' \in [Calls -> Int]
      BY <1>0, <3>2, ReleaseRefs, ReleaseFacts
    <3>. QED BY <2>2, <3>1, <3>2
  <2>4. \A t \in ready : refs[t] \in Int /\ refs'[t] \in Int
    <3>1. refs \in [Calls -> Int]
      BY DEF IInv, TypeOK
    <3>. QED BY <1>0, <2>3, <3>1
  <2>5. ~disposed => \A t \in ready \ closed' : refs'[t] >= 1
    BY <1>0, <2>3, <2>4
  <2>6. \A k \in Kind : \/ connections'[k] \in {connections[k], NoCall}
                        \/ k = "execServer" /\ connections'[k] = c /\ c \in Execs /\ pc'[c] = "done"
    <3>1. connections' = connections \/ connections' = [connections EXCEPT !["resolve"] = NoCall]
          \/ (ResumeExec(c) /\ connections' = [connections EXCEPT !["execServer"] = c])
      BY <1>8 DEF Resume, RecheckFails, ResumeExec
    <3>. QED BY <2>1, <3>1, OtherMoves
  <2>7. c \in Execs => KindOf(c) = "execServer"
    BY CallsAssumption DEF KindOf
  <2>8. \A k \in Kind : connections'[k] # NoCall =>
            KindOf(connections'[k]) = k /\ pc'[connections'[k]] = "done"
    BY <1>0, <2>1, <2>6, <2>7 DEF Stays
  <2>. QED BY <1>0, <2>1, <2>3, <2>5, <2>8 DEF Places, Stays
<1>9. CASE Connect(c)
  BY <1>0, <1>9 DEF Places, Connect
<1>. QED BY <1>1, <1>2, <1>3, <1>4, <1>5, <1>6, <1>7, <1>8, <1>9 DEF Step

LEMMA PlacesUnforced ==
  ASSUME IInv, Places, (\E t \in Calls : Lose(t) \/ MonitorProbe(t) \/ Unreachable(t)) \/ Dispose
  PROVE  Places'
<1>1. ASSUME NEW t \in Calls, Lose(t) \/ MonitorProbe(t) \/ Unreachable(t) PROVE Places'
  BY <1>1 DEF Places, Lose, MonitorProbe, Unreachable, MarkDead, trvars
<1>2. CASE Dispose
  BY <1>2 DEF Places, Dispose
<1>. QED BY <1>1, <1>2

(* Between two events nobody's awaited creation has settled *)
LEMMA AwaitFacts ==
  ASSUME IInv, Places, Awaiting
  PROVE  /\ \A d \in Calls : pc[d] = "await" =>
              /\ held[d] \in Calls
              /\ d \notin Waking => held[d] = inFlight
              /\ d \in Waking => pc[held[d]] \in {"acquired", "failed"}
         /\ inFlight # NoCall => inFlight \in Calls /\ pc[inFlight] = "create"
BY DEF IInv, TypeOK, HeldReady, Creating, Places, Awaiting, Waking

(* A step that leaves no creation behind, and one that settles one *)
LEMMA AwaitingEvent ==
  ASSUME IInv, Places, Awaiting, Waking = {}, NEW c \in Calls, Stays(c),
         pc'[c] = "await" => held'[c] = inFlight /\ inFlight # NoCall,
         \/ pc[c] # "create" \/ pc'[c] = "create"
         \/ inFlight = c /\ pc'[c] \in {"acquired", "failed"} /\ (c \in ready' => registry' = c)
  PROVE  Awaiting'
<1>1. \A d \in Calls : pc[d] = "await" => held[d] = inFlight
  BY AwaitFacts
<1>2. inFlight # NoCall => inFlight \in Calls /\ pc[inFlight] = "create"
  BY AwaitFacts
<1>3. \A d \in Calls : pc[d] = "await" => inFlight \in Calls
  BY <1>1, AwaitFacts
<1>4. \A d \in Calls : pc'[d] = "await" => held'[d] = inFlight /\ inFlight # NoCall
  BY <1>1, <1>3, CallsAssumption DEF Stays
<1>5. CASE pc[c] # "create" \/ pc'[c] = "create"
  <2>1. inFlight # NoCall => pc'[inFlight] = "create"
    BY <1>2, <1>5 DEF Stays
  <2>2. Waking' = {}
    BY <1>4, <2>1 DEF Waking
  <2>. QED BY <1>4, <2>1, <2>2 DEF Awaiting
<1>6. CASE inFlight = c /\ pc'[c] \in {"acquired", "failed"} /\ (c \in ready' => registry' = c)
  <2>1. \A d \in Waking' : held'[d] = c
    BY <1>4, <1>6 DEF Waking
  <2>. QED BY <1>4, <1>6, <2>1 DEF Awaiting
<1>. QED BY <1>5, <1>6

(* The continuations of a settled creation run one after the other *)
LEMMA AwaitingWake ==
  ASSUME IInv, Places, Awaiting, NEW c \in Calls, Wake(c)
  PROVE  Awaiting'
<1>1. /\ Stays(c) /\ pc[c] = "await" /\ c \in Waking /\ ~disposed
      /\ UNCHANGED <<dead, ready, disposed>>
      /\ \/ Handed(c)
         \/ /\ held[c] \in ready \cap dead
            /\ Probes(c) \/ Joins(c) \/ Creates(c, registry)
         \/ Refused(c)
  BY WakeMoves DEF trvars
<1>2. PICK e \in Calls : e = held[c]
  BY <1>1, AwaitFacts
<1>3. \A d \in Waking : held[d] = e /\ pc[e] \in {"acquired", "failed"}
  BY <1>1, <1>2, AwaitFacts DEF Awaiting, Waking
<1>4. e \in ready => registry \in {e, NoCall} /\ (e \notin dead => registry = e)
  BY <1>1, <1>2 DEF Awaiting
<1>5. ~Probes(c)
  BY <1>1, <1>2, <1>4 DEF Handed, Joins, Creates, Refused, Probes
<1>6. pc'[c] # "probe"
  BY <1>1, <1>2, <1>5 DEF Handed, Joins, Creates, Refused, Probes
<1>7. pc'[c] = "await" => held'[c] = inFlight /\ inFlight # NoCall
  BY <1>1, <1>2, <1>5 DEF Handed, Joins, Creates, Refused, Probes
<1>8. \A d \in Calls \ {c} : /\ pc'[d] = pc[d] /\ held'[d] = held[d]
                             /\ pc[d] = "await" => held[d] \in Calls \ {c}
                                                     /\ pc[held[d]] \in {"create", "acquired", "failed"}
  BY <1>1, AwaitFacts DEF Stays, Awaiting
<1>9. inFlight # NoCall => inFlight \in Calls \ {c} /\ pc'[inFlight] = "create"
  BY <1>1, AwaitFacts DEF Stays
<1>10. Waking' \subseteq Waking
  BY <1>7, <1>8, <1>9 DEF Waking, Stays
<1>11. c \notin Waking'
  BY <1>7, <1>9 DEF Waking
<1>12. \A d \in Waking' : held'[d] = e
  BY <1>3, <1>8, <1>10, <1>11 DEF Waking
<1>13. \A d \in Calls : pc'[d] = "await" => pc'[held'[d]] \in {"create", "acquired", "failed"}
  BY <1>7, <1>8, <1>9
<1>14. e \in ready => registry' \in {e, NoCall} /\ (e \notin dead => registry' = e)
  BY <1>1, <1>2, <1>4, <1>5 DEF Handed, Joins, Creates, Refused
<1>. QED BY <1>1, <1>12, <1>13, <1>14 DEF Awaiting

LEMMA AwaitingStep ==
  ASSUME IInv, Places, Awaiting, NEW c \in Calls, Step(c) \/ Begin(c)
  PROVE  Awaiting'
<1>1. CASE Begin(c) \/ ReuseFails(c) \/ ProbeFails(c)
  <2>1. /\ Stays(c) /\ pc[c] \in {"idle", "reuse", "probe"} /\ Event
        /\ Reuses(c) \/ Probes(c) \/ Joins(c) \/ \E x : Creates(c, x)
    BY <1>1, BeginMoves, ReuseFailsMoves, ProbeFailsMoves
  <2>. QED BY <2>1, AwaitingEvent DEF Event, Reuses, Probes, Joins, Creates
<1>2. CASE Wake(c)
  BY <1>2, AwaitingWake
<1>3. CASE Created(c) \/ CreateFails(c)
  <2>1. /\ Stays(c) /\ inFlight = c /\ Event /\ pc'[c] \in {"acquired", "failed"}
        /\ c \in ready' => registry' = c
    <3>1. CASE Created(c)
      BY <3>1, OtherMoves DEF Created
    <3>2. CASE CreateFails(c)
      BY <3>2, OtherMoves DEF CreateFails, trvars, IInv, ReadyIsPast
    <3>. QED BY <1>3, <3>1, <3>2
  <2>. QED BY <2>1, AwaitingEvent DEF Event
<1>4. CASE \/ ReuseAlive(c) \/ ProbeAlive(c) \/ Started(c) \/ StartFails(c)
           \/ RecheckAlive(c) \/ RecheckFails(c) \/ Resume(c) \/ ResumeExec(c)
  <2>1. Waking = {}
    BY <1>4 DEF ReuseAlive, ProbeAlive, Started, StartFails, RecheckAlive, RecheckFails,
                Resume, ResumeExec, Event
  <2>2. Stays(c) /\ pc[c] # "create" /\ pc'[c] # "await"
    BY <1>4, OtherMoves
  <2>. QED BY <2>1, <2>2, AwaitingEvent
<1>5. CASE Connect(c)
  BY <1>5 DEF Connect, Awaiting, Waking
<1>. QED BY <1>1, <1>2, <1>3, <1>4, <1>5 DEF Step

LEMMA AwaitingUnforced ==
  ASSUME Awaiting, (\E t \in Calls : Lose(t) \/ MonitorProbe(t) \/ Unreachable(t)) \/ Dispose
  PROVE  Awaiting'
<1>1. Waking = {} /\ pc' = pc /\ held' = held
  BY DEF Lose, MonitorProbe, Unreachable, MarkDead, Dispose, Event
<1>2. Waking' = {}
  BY <1>1 DEF Waking
<1>. QED BY <1>1, <1>2 DEF Awaiting

-----------------------------------------------------------------------------
(* One call of a kind after the other *)

LEMMA StepFacts ==
  ASSUME IInv, Places, NEW c \in Calls, Step(c) \/ Begin(c)
  PROVE  /\ ~disposed /\ ~disposed'
         /\ Stays(c)
         /\ Step(c) => UnderWay(c)
         /\ flowDead \subseteq flowDead' /\ dead \subseteq dead'
         /\ \A d \in Calls \ {c} : prev'[d] = prev[d] /\ on'[d] = on[d]
         /\ \A k \in Kind : k # KindOf(c) => connections'[k] = connections[k]
<1>1. ~disposed /\ disposed' = disposed
  BY DEF Step, Begin, ReuseAlive, ReuseFails, ProbeAlive, ProbeFails, Connect, Created, CreateFails, Wake,
         Resume, ResumeExec, RecheckAlive, RecheckFails, Started, StartFails, Event, trvars
<1>2. Stays(c)
  <2>1. CASE Connect(c)
    BY <2>1 DEF Connect, Stays
  <2>. QED BY <2>1, BeginMoves, ReuseFailsMoves, ProbeFailsMoves, WakeMoves, OtherMoves DEF Step
<1>3. Step(c) => UnderWay(c)
  <2>1. Connect(c) => pc[c] = "create"
    BY DEF Connect
  <2>. QED BY <2>1, ReuseFailsMoves, ProbeFailsMoves, WakeMoves, OtherMoves DEF Step, UnderWay
<1>4. flowDead \subseteq flowDead' /\ dead \subseteq dead'
  BY DEF Step, Begin, ReuseAlive, ReuseFails, ProbeAlive, ProbeFails, Connect, Created, CreateFails, Wake,
         Resume, ResumeExec, RecheckAlive, RecheckFails, Started, StartFails
<1>5. \A d \in Calls \ {c} : prev'[d] = prev[d] /\ on'[d] = on[d]
  <2>1. prev \in [Calls -> Calls \cup {NoCall}] /\ on \in [Calls -> Calls \cup {NoCall}]
    BY DEF IInv, TypeOK
  <2>2. prev' = prev \/ (\E x : prev' = [prev EXCEPT ![c] = x])
    BY DEF Step, Begin, ReuseAlive, ReuseFails, ProbeAlive, ProbeFails, Connect, Created, CreateFails, Wake,
           Resume, ResumeExec, RecheckAlive, RecheckFails, Started, StartFails
  <2>3. on' = on \/ (\E x : on' = [on EXCEPT ![c] = x])
    BY DEF Step, Begin, ReuseAlive, ReuseFails, ProbeAlive, ProbeFails, Connect, Created, CreateFails, Wake,
           Resume, ResumeExec, RecheckAlive, RecheckFails, Started, StartFails
  <2>. QED BY <2>1, <2>2, <2>3
<1>6. ASSUME NEW k \in Kind, k # KindOf(c) PROVE connections'[k] = connections[k]
  <2>1. pc[c] \in {"recheck", "start"} => c \in Resolves
    BY DEF Places
  <2>2. connections \in [Kind -> Calls \cup {NoCall}] /\ "resolve" \in Kind /\ "execServer" \in Kind
    BY DEF IInv, TypeOK, Kind
  <2>3. /\ c \in Resolves => KindOf(c) = "resolve"
        /\ c \in Execs => KindOf(c) = "execServer"
    BY CallsAssumption DEF KindOf
  <2>4. CASE Resume(c)
    <3>1. c \in Resolves
      BY <2>4, OtherMoves
    <3>2. connections' = connections \/ connections' = [connections EXCEPT !["resolve"] = NoCall]
      BY <2>4 DEF Resume
    <3>. QED BY <1>6, <2>2, <2>3, <3>1, <3>2
  <2>5. CASE ResumeExec(c)
    <3>1. c \in Execs
      BY <2>5, OtherMoves
    <3>2. connections' = [connections EXCEPT !["execServer"] = c]
      BY <2>5 DEF ResumeExec
    <3>. QED BY <1>6, <2>2, <2>3, <3>1, <3>2
  <2>6. CASE RecheckFails(c)
    <3>1. c \in Resolves
      BY <2>1, <2>6, OtherMoves
    <3>2. connections' = [connections EXCEPT !["resolve"] = NoCall]
      BY <2>6 DEF RecheckFails
    <3>. QED BY <1>6, <2>2, <2>3, <3>1, <3>2
  <2>7. CASE Started(c)
    <3>1. c \in Resolves
      BY <2>1, <2>7, OtherMoves
    <3>2. connections' = [connections EXCEPT !["resolve"] = c]
      BY <2>7 DEF Started
    <3>. QED BY <1>6, <2>2, <2>3, <3>1, <3>2
  <2>8. CASE ~(Resume(c) \/ ResumeExec(c) \/ RecheckFails(c) \/ Started(c))
    <3>1. connections' = connections
      BY <2>8 DEF Step, Begin, ReuseAlive, ReuseFails, ProbeAlive, ProbeFails, Connect, Created, CreateFails, Wake,
                  RecheckAlive, StartFails
    <3>. QED BY <3>1
  <2>. QED BY <2>4, <2>5, <2>6, <2>7, <2>8
<1>. QED BY <1>1, <1>2, <1>3, <1>4, <1>5, <1>6

(* What resolve() does once it has looked at its flow *)
Looked(c) ==
  /\ pc[c] = "reuse" => prev[c] = connections["resolve"]
  /\ pc[c] \in {"probe", "create", "await", "acquired"} => ~LiveFlow(connections["resolve"])
  /\ pc[c] = "start" => connections["resolve"] = NoCall
  /\ pc[c] # "recheck"

LEMMA LookedStep ==
  ASSUME IInv, Places, NEW c \in Calls, c \in Resolves, Looked(c), Step(c) \/ Begin(c)
  PROVE  Looked(c)'
<1>1. /\ flowDead \subseteq flowDead' /\ dead \subseteq dead'
      /\ \A d \in Calls \ {c} : on'[d] = on[d]
      /\ connections["resolve"] = NoCall \/ (connections["resolve"] \in Calls \ {c} \/ pc[c] = "done")
      /\ c \in Calls
  BY StepFacts, CallsAssumption DEF Places, Kind, IInv, TypeOK, Calls, FlowsReady, FlowReady
<1>2. CASE Begin(c)
  <2>1. /\ UNCHANGED <<connections, on, flowDead, dead>>
        /\ \/ Reuses(c)
           \/ (Probes(c) \/ Joins(c) \/ Creates(c, registry)) /\ ~LiveFlow(connections["resolve"])
    BY <1>2, BeginMoves
  <2>2. LiveFlow(connections["resolve"])' <=> LiveFlow(connections["resolve"])
    BY <2>1 DEF LiveFlow
  <2>. QED BY <2>1, <2>2 DEF Looked, Reuses, Probes, Joins, Creates
<1>3. CASE ReuseFails(c)
  <2>1. /\ UNCHANGED <<connections, on, dead>> /\ flowDead' = flowDead \cup {prev[c]}
        /\ pc[c] = "reuse"
        /\ Probes(c) \/ Joins(c) \/ Creates(c, registry)
    BY <1>3, ReuseFailsMoves
  <2>2. ~LiveFlow(connections["resolve"])'
    BY <2>1 DEF LiveFlow, Looked
  <2>. QED BY <2>1, <2>2 DEF Looked, Probes, Joins, Creates
<1>4. CASE ProbeFails(c) \/ Wake(c) \/ ProbeAlive(c) \/ Connect(c) \/ Created(c)
  <2>1. UNCHANGED <<connections, on>> /\ pc[c] \in {"probe", "await", "create"}
    BY <1>4, ProbeFailsMoves, WakeMoves, OtherMoves DEF ProbeAlive, Connect, Created
  <2>2. pc'[c] \in {"probe", "await", "create", "acquired", "failed"}
    <3>1. ProbeFails(c) \/ Wake(c) => pc'[c] \in {"probe", "await", "create", "acquired", "failed"}
      BY ProbeFailsMoves, WakeMoves DEF Probes, Joins, Creates, Handed, Refused
    <3>2. ProbeAlive(c) \/ Created(c) => pc'[c] = "acquired"
      BY OtherMoves
    <3>3. Connect(c) => pc'[c] = "create"
      BY DEF Connect
    <3>. QED BY <1>4, <3>1, <3>2, <3>3
  <2>3. ~LiveFlow(connections["resolve"])'
    BY <1>1, <2>1 DEF LiveFlow, Looked
  <2>. QED BY <2>2, <2>3 DEF Looked
<1>5. CASE Resume(c)
  <2>1. pc[c] = "acquired" /\ ~LiveFlow(connections["resolve"])
    BY <1>5, OtherMoves DEF Looked
  <2>2. pc'[c] = "start" /\ connections' = [connections EXCEPT !["resolve"] = NoCall]
    BY <1>1, <1>5, <2>1, OtherMoves DEF Resume
  <2>3. connections \in [Kind -> Calls \cup {NoCall}] /\ "resolve" \in Kind
    BY DEF IInv, TypeOK, Kind
  <2>. QED BY <2>2, <2>3 DEF Looked
<1>6. CASE RecheckAlive(c) \/ RecheckFails(c)
  BY <1>1, <1>6, OtherMoves DEF Looked
<1>7. CASE ReuseAlive(c) \/ CreateFails(c) \/ Started(c) \/ StartFails(c)
  BY <1>1, <1>7, OtherMoves DEF Looked
<1>8. CASE ResumeExec(c)
  BY <1>1, <1>8, OtherMoves, CallsAssumption DEF Calls
<1>. QED BY <1>2, <1>3, <1>4, <1>5, <1>6, <1>7, <1>8 DEF Step

LEMMA SerialStep ==
  ASSUME IInv, Places, Serial, plan' = plan, NEW c \in Calls, Step(c) \/ Begin(c)
  PROVE  Serial'
<1>. SUFFICES ASSUME Steady PROVE Serial'
  BY DEF Serial, Steady, MayHappen
<1>1. /\ \A d, e \in Calls : UnderWay(d) /\ UnderWay(e) /\ KindOf(d) = KindOf(e) => d = e
      /\ ~disposed => \A d \in Resolves : Looked(d)
  BY DEF Serial, Looked
<1>2. /\ ~disposed /\ Stays(c)
      /\ flowDead \subseteq flowDead' /\ dead \subseteq dead'
      /\ \A d \in Calls \ {c} : prev'[d] = prev[d] /\ on'[d] = on[d]
      /\ \A k \in Kind : k # KindOf(c) => connections'[k] = connections[k]
  BY StepFacts
<1>3. \A d \in Calls \ {c} : (UnderWay(d)' <=> UnderWay(d)) /\ (UnderWay(d) => KindOf(d) # KindOf(c))
  <2>1. CASE Step(c)
    BY <1>1, <1>2, <2>1, StepFacts DEF Stays, UnderWay
  <2>2. CASE Begin(c)
    BY <1>2, <2>2, BeginMoves DEF Stays, UnderWay
  <2>. QED BY <2>1, <2>2
<1>4. \A d, e \in Calls : UnderWay(d)' /\ UnderWay(e)' /\ KindOf(d) = KindOf(e) => d = e
  BY <1>1, <1>3
<1>5. ASSUME NEW d \in Resolves PROVE Looked(d)'
  <2>1. CASE d = c
    BY <1>1, <1>2, <2>1, LookedStep
  <2>2. CASE d # c /\ ~UnderWay(d)
    BY <1>3, <2>2 DEF Looked, UnderWay, Calls
  <2>3. CASE d # c /\ UnderWay(d)
    <3>1. d \in Calls /\ KindOf(d) = "resolve" /\ "resolve" \in Kind
      BY DEF Calls, KindOf, Kind
    <3>2. connections'["resolve"] = connections["resolve"]
      BY <1>2, <1>3, <2>3, <3>1
    <3>3. connections["resolve"] = NoCall \/ connections["resolve"] \in Calls \ {c}
      <4>1. c \in Calls /\ KindOf(c) # "resolve"
        BY <1>3, <2>3, <3>1
      <4>2. connections["resolve"] # NoCall => connections["resolve"] \in Calls /\ KindOf(connections["resolve"]) = "resolve"
        BY <3>1 DEF Places, IInv, FlowsReady, FlowReady
      <4>. QED BY <4>1, <4>2
    <3>4. LiveFlow(connections["resolve"])' => LiveFlow(connections["resolve"])
      BY <1>2, <3>2, <3>3 DEF LiveFlow
    <3>. QED BY <1>1, <1>2, <2>3, <3>1, <3>2, <3>4 DEF Looked, Stays
  <2>. QED BY <2>1, <2>2, <2>3
<1>. QED BY <1>4, <1>5 DEF Serial, Looked

LEMMA SerialUnforced ==
  ASSUME Serial, plan' = plan, (\E t \in Calls : Lose(t) \/ MonitorProbe(t) \/ Unreachable(t)) \/ Dispose
  PROVE  Serial'
<1>0. Steady' <=> Steady
  BY DEF Steady, MayHappen
<1>1. ASSUME NEW t \in Calls, Lose(t) \/ MonitorProbe(t) \/ Unreachable(t) PROVE Serial'
  <2>1. UNCHANGED <<pc, connections, on, prev, flowDead, disposed>> /\ dead \subseteq dead'
    BY <1>1 DEF Lose, MonitorProbe, Unreachable, MarkDead, trvars
  <2>2. LiveFlow(connections["resolve"])' => LiveFlow(connections["resolve"])
    BY <2>1 DEF LiveFlow
  <2>. QED BY <1>0, <2>1, <2>2 DEF Serial, UnderWay
<1>2. CASE Dispose
  BY <1>0, <1>2 DEF Dispose, Serial, UnderWay
<1>. QED BY <1>1, <1>2

-----------------------------------------------------------------------------
(* The count of a transport's users *)

LEMMA KindFacts ==
  /\ Kind = {"resolve", "execServer"} /\ NoCall \notin Calls
  /\ \A c \in Calls : KindOf(c) \in Kind
  /\ \A c \in Resolves : KindOf(c) = "resolve" /\ c \in Calls
  /\ \A c \in Execs : KindOf(c) = "execServer" /\ c \in Calls
BY CallsAssumption DEF Kind, KindOf, Calls

LEMMA FlowFacts ==
  ASSUME IInv, Places
  PROVE  /\ \A k \in Kind : connections[k] # NoCall =>
              /\ connections[k] \in Calls /\ KindOf(connections[k]) = k /\ pc[connections[k]] = "done"
              /\ on[connections[k]] \in ready /\ on[connections[k]] \in Calls
         /\ connections \in [Kind -> Calls \cup {NoCall}]
         /\ on \in [Calls -> Calls \cup {NoCall}]
         /\ refs \in [Calls -> Int] /\ ready \subseteq Calls
BY DEF Places, IInv, TypeOK, FlowsReady, FlowReady

OtherKind(k) == IF k = "resolve" THEN "execServer" ELSE "resolve"
Rest(k, t) == One(FlowOn(OtherKind(k), t)) + One(HeldBy(OtherKind(k), t))

LEMMA UsersType ==
  ASSUME NEW t
  PROVE  /\ One(FlowOn("resolve", t)) \in {0, 1} /\ One(FlowOn("execServer", t)) \in {0, 1}
         /\ One(HeldBy("resolve", t)) \in {0, 1} /\ One(HeldBy("execServer", t)) \in {0, 1}
         /\ Users(t) \in Nat
         /\ \A k : Rest(k, t) \in Nat
         /\ FlowOn("resolve", t) \/ FlowOn("execServer", t) => Users(t) >= 1
         /\ HeldBy("resolve", t) \/ HeldBy("execServer", t) => Users(t) >= 1
         /\ FlowOn("resolve", t) /\ FlowOn("execServer", t) => Users(t) >= 2
BY DEF One, Users, Rest

(* Seen from the only call of a kind that is under way: what it holds, the   *)
(* flow of that kind, and the rest, which its step leaves alone              *)
LEMMA UsersOf ==
  ASSUME IInv, Places, Serial, Steady, NEW c \in Calls, Step(c) \/ Begin(c), NEW t \in Calls
  PROVE  /\ Users(t) = One(FlowOn(KindOf(c), t)) + One(Holds(c, t)) + Rest(KindOf(c), t)
         /\ Users(t)' = One(FlowOn(KindOf(c), t)') + One(Holds(c, t)') + Rest(KindOf(c), t)
<1>1. /\ Stays(c) /\ \A k \in Kind : k # KindOf(c) => connections'[k] = connections[k]
      /\ \A d \in Calls \ {c} : on'[d] = on[d]
      /\ Step(c) => UnderWay(c)
  BY StepFacts
<1>2. \A d \in Calls \ {c} : KindOf(d) = KindOf(c) => ~UnderWay(d)
  BY <1>1, BeginMoves DEF Serial
<1>3. \A d \in Calls \ {c} : Holds(d, t)' <=> Holds(d, t)
  BY <1>1 DEF Stays, Holds
<1>4. \A d \in Calls : Holds(d, t) => UnderWay(d)
  BY DEF Holds, UnderWay
<1>5. /\ HeldBy(KindOf(c), t) <=> Holds(c, t)
      /\ HeldBy(KindOf(c), t)' <=> Holds(c, t)'
  BY <1>2, <1>3, <1>4 DEF HeldBy
<1>6. PICK j \in Kind : j = OtherKind(KindOf(c)) /\ j # KindOf(c)
  BY KindFacts DEF OtherKind
<1>7. HeldBy(j, t)' <=> HeldBy(j, t)
  BY <1>3, <1>6 DEF HeldBy
<1>8. FlowOn(j, t)' <=> FlowOn(j, t)
  <2>1. connections'[j] = connections[j]
    BY <1>1, <1>6
  <2>2. connections[j] # NoCall => connections[j] \in Calls \ {c}
    BY <1>6, FlowFacts
  <2>. QED BY <1>1, <2>1, <2>2 DEF FlowOn
<1>9. /\ One(HeldBy(KindOf(c), t)) = One(Holds(c, t))
      /\ One(HeldBy(KindOf(c), t)') = One(Holds(c, t)')
      /\ One(HeldBy(j, t)') = One(HeldBy(j, t))
      /\ One(FlowOn(j, t)') = One(FlowOn(j, t))
  BY <1>5, <1>7, <1>8 DEF One
<1>10. Rest(KindOf(c), t) = One(FlowOn(j, t)) + One(HeldBy(j, t))
  BY <1>6 DEF Rest
<1>11. (KindOf(c) = "resolve" /\ j = "execServer") \/ (KindOf(c) = "execServer" /\ j = "resolve")
  <2>1. KindOf(c) \in {"resolve", "execServer"}
    BY KindFacts
  <2>2. CASE KindOf(c) = "resolve"
    BY <1>6, <2>2 DEF OtherKind
  <2>3. CASE KindOf(c) = "execServer"
    BY <1>6, <2>3 DEF OtherKind
  <2>. QED BY <2>1, <2>2, <2>3
<1>12. /\ One(FlowOn("resolve", t)) \in Nat /\ One(FlowOn("execServer", t)) \in Nat
       /\ One(HeldBy("resolve", t)) \in Nat /\ One(HeldBy("execServer", t)) \in Nat
       /\ One(FlowOn("resolve", t)') \in Nat /\ One(FlowOn("execServer", t)') \in Nat
       /\ One(HeldBy("resolve", t)') \in Nat /\ One(HeldBy("execServer", t)') \in Nat
  BY DEF One
<1>13. Users(t)' = One(FlowOn("resolve", t)') + One(FlowOn("execServer", t)')
                     + One(HeldBy("resolve", t)') + One(HeldBy("execServer", t)')
  BY DEF Users, One
<1>14. CASE KindOf(c) = "resolve" /\ j = "execServer"
  BY <1>9, <1>10, <1>12, <1>13, <1>14 DEF Users
<1>15. CASE KindOf(c) = "execServer" /\ j = "resolve"
  BY <1>9, <1>10, <1>12, <1>13, <1>15 DEF Users
<1>. QED BY <1>11, <1>14, <1>15

(* A step moves a reference together with its user; a start that throws only *)
(* takes the user away                                                       *)
LEMMA Balance ==
  ASSUME IInv, Places, Awaiting, Serial, Steady, NEW c \in Calls, Step(c) \/ Begin(c)
  PROVE  /\ \A t \in ready : \/ refs'[t] - Users(t)' = refs[t] - Users(t)
                             \/ /\ refs'[t] - Users(t)' >= refs[t] - Users(t)
                                /\ pc'[c] = "failed"
         /\ \A t \in ready' : t \notin ready => refs'[t] = 1 /\ Users(t)' = 1
<1>0. /\ Stays(c) /\ ~disposed
      /\ \A d \in Calls \ {c} : on'[d] = on[d]
  BY StepFacts
<1>1. PICK k \in Kind : k = KindOf(c)
  BY KindFacts
<1>2. ASSUME NEW t \in Calls
      PROVE  \E x \in Nat :
               /\ Users(t) = One(FlowOn(k, t)) + One(Holds(c, t)) + x
               /\ Users(t)' = One(FlowOn(k, t)') + One(Holds(c, t)') + x
  BY <1>1, UsersOf, UsersType
<1>3. /\ \A t \in Calls : One(FlowOn(k, t)) \in {0, 1} /\ One(Holds(c, t)) \in {0, 1}
      /\ \A t \in Calls : One(FlowOn(k, t)') \in {0, 1} /\ One(Holds(c, t)') \in {0, 1}
  BY DEF One
<1>4. refs \in [Calls -> Int] /\ ready \subseteq Calls /\ on \in [Calls -> Calls \cup {NoCall}]
  BY FlowFacts
<1>5. CASE /\ UNCHANGED <<connections, on, refs, ready>>
           /\ pc[c] \notin {"acquired", "start"} /\ pc'[c] \notin {"acquired", "start"}
  <2>1. ASSUME NEW t \in ready PROVE refs'[t] - Users(t)' = refs[t] - Users(t)
    <3>1. /\ One(FlowOn(k, t)') = One(FlowOn(k, t))
          /\ One(Holds(c, t)) = 0 /\ One(Holds(c, t)') = 0
      BY <1>5 DEF One, FlowOn, Holds
    <3>2. Users(t)' = Users(t)
      BY <1>2, <1>3, <1>4, <3>1
    <3>. QED BY <1>5, <3>2
  <2>. QED BY <1>5, <2>1
<1>6. CASE /\ UNCHANGED <<connections, on, ready>> /\ held[c] \in ready
           /\ refs' = [refs EXCEPT ![held[c]] = refs[held[c]] + 1]
           /\ pc[c] \notin {"acquired", "start"} /\ pc'[c] = "acquired" /\ held'[c] = held[c]
  <2>1. ASSUME NEW t \in ready PROVE refs'[t] - Users(t)' = refs[t] - Users(t)
    <3>1. /\ One(FlowOn(k, t)') = One(FlowOn(k, t))
          /\ One(Holds(c, t)) = 0 /\ One(Holds(c, t)') = IF held[c] = t THEN 1 ELSE 0
      BY <1>6 DEF One, FlowOn, Holds
    <3>2. refs[t] \in Int /\ refs'[t] = IF held[c] = t THEN refs[t] + 1 ELSE refs[t]
      BY <1>4, <1>6
    <3>3. PICK x \in Nat : /\ Users(t) = One(FlowOn(k, t)) + One(Holds(c, t)) + x
                           /\ Users(t)' = One(FlowOn(k, t)') + One(Holds(c, t)') + x
      BY <1>2, <1>4
    <3>4. One(FlowOn(k, t)) \in {0, 1}
      BY <1>3, <1>4
    <3>. QED BY <3>1, <3>2, <3>3, <3>4
  <2>. QED BY <1>6, <2>1
<1>7. CASE Created(c)
  <2>1. /\ UNCHANGED <<connections, on>> /\ ready' = ready \cup {c} /\ c \notin ready
        /\ refs' = [refs EXCEPT ![c] = 1] /\ pc[c] = "create" /\ pc'[c] = "acquired" /\ held'[c] = c
    BY <1>7, OtherMoves DEF Created
  <2>2. ASSUME NEW t \in ready PROVE refs'[t] - Users(t)' = refs[t] - Users(t)
    <3>1. /\ One(FlowOn(k, t)') = One(FlowOn(k, t))
          /\ One(Holds(c, t)) = 0 /\ One(Holds(c, t)') = 0
      BY <2>1 DEF One, FlowOn, Holds
    <3>2. Users(t)' = Users(t) /\ refs'[t] = refs[t]
      BY <1>2, <1>3, <1>4, <2>1, <3>1
    <3>. QED BY <3>2
  <2>3. refs'[c] = 1
    BY <1>4, <2>1
  <2>4. Users(c)' = 1
    <3>1. \A j \in Kind : ~FlowOn(j, c)
      BY <2>1, FlowFacts DEF FlowOn
    <3>2. \A d \in Calls : pc[d] \in {"acquired", "start"} => held[d] # c
      BY <2>1 DEF IInv, HeldReady
    <3>3. Users(c) = 0
      <4>1. /\ ~FlowOn("resolve", c) /\ ~FlowOn("execServer", c)
            /\ ~HeldBy("resolve", c) /\ ~HeldBy("execServer", c)
        BY <3>1, <3>2, KindFacts DEF HeldBy, Holds
      <4>. QED BY <4>1 DEF Users, One
    <3>4. One(FlowOn(k, c)') = 0 /\ One(Holds(c, c)') = 1
      BY <2>1, <3>1 DEF FlowOn, Holds, One
    <3>5. One(FlowOn(k, c)) = 0 /\ One(Holds(c, c)) = 0
      BY <2>1, <3>1 DEF Holds, One
    <3>. QED BY <1>2, <3>3, <3>4, <3>5
  <2>. QED BY <2>1, <2>2, <2>3, <2>4
<1>8. CASE StartFails(c)
  <2>1. UNCHANGED <<connections, on, ready, refs>> /\ pc'[c] = "failed"
    BY <1>8, OtherMoves DEF StartFails, trvars
  <2>2. ASSUME NEW t \in ready PROVE refs'[t] - Users(t)' >= refs[t] - Users(t)
    <3>1. One(FlowOn(k, t)') = One(FlowOn(k, t)) /\ One(Holds(c, t)') = 0
      BY <2>1 DEF One, FlowOn, Holds
    <3>2. PICK x \in Nat : /\ Users(t) = One(FlowOn(k, t)) + One(Holds(c, t)) + x
                           /\ Users(t)' = One(FlowOn(k, t)') + One(Holds(c, t)') + x
      BY <1>2, <1>4
    <3>3. One(FlowOn(k, t)) \in {0, 1} /\ One(Holds(c, t)) \in {0, 1} /\ refs[t] \in Int
      BY <1>3, <1>4
    <3>. QED BY <2>1, <3>1, <3>2, <3>3
  <2>. QED BY <2>1, <2>2
<1>. DEFINE f == connections[k]
<1>9. CASE Resume(c)
  <2>1. /\ k = "resolve" /\ c \in Resolves /\ pc[c] = "acquired" /\ held'[c] = held[c]
    BY <1>1, <1>9, OtherMoves, KindFacts
  <2>2. ~LiveFlow(connections["resolve"])
    BY <1>0, <2>1 DEF Serial
  <2>3. /\ connections' = [connections EXCEPT !["resolve"] = NoCall] /\ Release(f)
        /\ UNCHANGED <<on, ready>> /\ pc'[c] = "start"
    <3>1. pc'[c] = "start"
      BY <1>9, <2>2, OtherMoves
    <3>2. /\ connections' = [connections EXCEPT !["resolve"] = NoCall] /\ Release(connections["resolve"])
          /\ UNCHANGED <<on, ready>>
      BY <1>9, <2>2 DEF Resume, KillConnection, trvars
    <3>. QED BY <2>1, <3>1, <3>2
  <2>4. ASSUME NEW t \in ready PROVE refs'[t] - Users(t)' = refs[t] - Users(t)
    <3>1. One(FlowOn(k, t)') = 0 /\ One(Holds(c, t)') = One(Holds(c, t))
      BY <2>1, <2>3, FlowFacts DEF One, FlowOn, Holds
    <3>2. refs[t] \in Int /\ refs'[t] = refs[t] - One(FlowOn(k, t))
      BY <1>4, <2>3 DEF Release, One, FlowOn
    <3>3. PICK x \in Nat : /\ Users(t) = One(FlowOn(k, t)) + One(Holds(c, t)) + x
                           /\ Users(t)' = One(FlowOn(k, t)') + One(Holds(c, t)') + x
      BY <1>2, <1>4
    <3>4. One(FlowOn(k, t)) \in {0, 1} /\ One(Holds(c, t)) \in {0, 1}
      BY <1>3, <1>4
    <3>. QED BY <3>1, <3>2, <3>3, <3>4
  <2>. QED BY <2>3, <2>4
<1>10. CASE ResumeExec(c)
  <2>1. /\ k = "execServer" /\ c \in Execs /\ pc[c] = "acquired" /\ pc'[c] = "done"
        /\ held[c] \in ready
    BY <1>1, <1>10, OtherMoves, KindFacts
  <2>2. /\ connections' = [connections EXCEPT !["execServer"] = c] /\ Release(f)
        /\ on' = [on EXCEPT ![c] = held[c]] /\ UNCHANGED ready
    BY <1>10, <2>1 DEF ResumeExec, trvars
  <2>3. ASSUME NEW t \in ready PROVE refs'[t] - Users(t)' = refs[t] - Users(t)
    <3>1. One(FlowOn(k, t)') = One(Holds(c, t)) /\ One(Holds(c, t)') = 0
      <4>1. connections'[k] = c /\ on'[c] = held[c] /\ c # NoCall
        BY <1>4, <2>1, <2>2, FlowFacts, KindFacts
      <4>2. FlowOn(k, t)' <=> Holds(c, t)
        BY <2>1, <4>1 DEF FlowOn, Holds
      <4>. QED BY <2>1, <4>2 DEF One, Holds
    <3>2. refs[t] \in Int /\ refs'[t] = refs[t] - One(FlowOn(k, t))
      BY <1>4, <2>2 DEF Release, One, FlowOn
    <3>3. PICK x \in Nat : /\ Users(t) = One(FlowOn(k, t)) + One(Holds(c, t)) + x
                           /\ Users(t)' = One(FlowOn(k, t)') + One(Holds(c, t)') + x
      BY <1>2, <1>4
    <3>4. One(FlowOn(k, t)) \in {0, 1} /\ One(Holds(c, t)) \in {0, 1}
      BY <1>3, <1>4
    <3>. QED BY <3>1, <3>2, <3>3, <3>4
  <2>. QED BY <2>2, <2>3
<1>11. CASE Started(c)
  <2>1. /\ pc[c] = "start" /\ pc'[c] = "done" /\ held[c] \in ready
    BY <1>11, OtherMoves
  <2>2. c \in Resolves /\ k = "resolve"
    BY <1>1, <2>1, KindFacts DEF Places
  <2>3. /\ connections' = [connections EXCEPT !["resolve"] = c]
        /\ on' = [on EXCEPT ![c] = held[c]] /\ UNCHANGED <<ready, refs>>
        /\ connections["resolve"] = NoCall
    BY <1>0, <1>11, <2>1, <2>2 DEF Started, trvars, Serial
  <2>4. ASSUME NEW t \in ready PROVE refs'[t] - Users(t)' = refs[t] - Users(t)
    <3>1. /\ One(FlowOn(k, t)') = One(Holds(c, t)) /\ One(Holds(c, t)') = 0
          /\ One(FlowOn(k, t)) = 0
      <4>1. connections'[k] = c /\ on'[c] = held[c] /\ c # NoCall
        BY <1>4, <2>2, <2>3, FlowFacts, KindFacts
      <4>2. FlowOn(k, t)' <=> Holds(c, t)
        BY <2>1, <4>1 DEF FlowOn, Holds
      <4>. QED BY <2>1, <2>2, <2>3, <4>2 DEF One, Holds, FlowOn
    <3>2. refs[t] \in Int /\ refs'[t] = refs[t]
      BY <1>4, <2>3
    <3>3. PICK x \in Nat : /\ Users(t) = One(FlowOn(k, t)) + One(Holds(c, t)) + x
                           /\ Users(t)' = One(FlowOn(k, t)') + One(Holds(c, t)') + x
      BY <1>2, <1>4
    <3>4. One(Holds(c, t)) \in {0, 1}
      BY <1>3, <1>4
    <3>. QED BY <3>1, <3>2, <3>3, <3>4
  <2>. QED BY <2>3, <2>4
<1>12. CASE RecheckAlive(c) \/ RecheckFails(c)
  <2>1. pc[c] = "recheck" /\ c \in Resolves
    BY <1>12, OtherMoves DEF Places
  <2>. QED BY <1>0, <2>1 DEF Serial
<1>13. CASE Begin(c) \/ ReuseFails(c) \/ ProbeFails(c) \/ ReuseAlive(c) \/ Connect(c) \/ CreateFails(c)
  <2>1. CASE Begin(c)
    BY <1>5, <2>1, BeginMoves DEF Reuses, Probes, Joins, Creates, trvars
  <2>2. CASE ReuseFails(c)
    BY <1>5, <2>2, ReuseFailsMoves DEF Probes, Joins, Creates, trvars
  <2>3. CASE ProbeFails(c)
    BY <1>5, <2>3, ProbeFailsMoves DEF Joins, Creates, trvars
  <2>4. CASE ReuseAlive(c)
    BY <1>5, <2>4, OtherMoves DEF ReuseAlive, trvars
  <2>5. CASE Connect(c)
    BY <1>5, <2>5 DEF Connect
  <2>6. CASE CreateFails(c)
    BY <1>5, <2>6, OtherMoves DEF CreateFails, trvars
  <2>. QED BY <1>13, <2>1, <2>2, <2>3, <2>4, <2>5, <2>6
<1>14. CASE Wake(c)
  <2>1. /\ pc[c] = "await" /\ UNCHANGED <<connections, on, ready>>
        /\ \/ Handed(c)
           \/ refs' = refs /\ (Probes(c) \/ Joins(c) \/ Creates(c, registry) \/ Refused(c))
    BY <1>14, WakeMoves DEF trvars, Refused
  <2>2. CASE Handed(c)
    BY <1>6, <2>1, <2>2 DEF Handed
  <2>3. CASE refs' = refs /\ (Probes(c) \/ Joins(c) \/ Creates(c, registry) \/ Refused(c))
    BY <1>5, <2>1, <2>3 DEF Probes, Joins, Creates, Refused
  <2>. QED BY <2>1, <2>2, <2>3
<1>15. CASE ProbeAlive(c)
  BY <1>6, <1>15, OtherMoves DEF ProbeAlive, trvars
<1>. HIDE DEF f
<1>. QED BY <1>7, <1>8, <1>9, <1>10, <1>11, <1>12, <1>13, <1>14, <1>15 DEF Step

LEMMA FlowsStep ==
  ASSUME IInv, Places, Serial, Steady, NEW c \in Calls, Step(c) \/ Begin(c),
         \A t, f \in Calls : f \in flows[t] <=> on[f] = t /\ \E k \in Kind : connections[k] = f
  PROVE  \A t, f \in Calls : f \in flows'[t] <=> on'[f] = t /\ \E k \in Kind : connections'[k] = f
<1>0. /\ flows \in [Calls -> SUBSET Calls] /\ connections \in [Kind -> Calls \cup {NoCall}]
      /\ on \in [Calls -> Calls \cup {NoCall}] /\ Kind = {"resolve", "execServer"} /\ NoCall \notin Calls
      /\ \A k \in Kind : connections[k] # NoCall =>
           /\ connections[k] \in Calls /\ KindOf(connections[k]) = k /\ pc[connections[k]] = "done"
           /\ on[connections[k]] \in Calls
  BY FlowFacts, KindFacts DEF IInv, TypeOK
<1>1. ~disposed
  BY StepFacts
<1>. DEFINE f == connections["resolve"]
            g == connections["execServer"]
<1>2. CASE UNCHANGED <<flows, on, connections>>
  BY <1>2
<1>3. CASE Resume(c)
  <2>1. pc[c] = "acquired" /\ c \in Resolves
    BY <1>3, OtherMoves
  <2>2. ~LiveFlow(f)
    BY <1>1, <2>1 DEF Serial
  <2>3. /\ connections' = [connections EXCEPT !["resolve"] = NoCall]
        /\ flows' = Without(f) /\ on' = on
    BY <1>3, <2>2 DEF Resume, KillConnection
  <2>4. connections'["resolve"] = NoCall /\ connections'["execServer"] = g
    BY <1>0, <2>3
  <2>5. f # NoCall => f # g
    BY <1>0
  <2>6. ASSUME NEW t \in Calls, NEW h \in Calls PROVE h \in flows'[t] <=> h \in flows[t] /\ h # f
    <3>1. CASE f = NoCall
      BY <1>0, <2>3, <3>1 DEF Without
    <3>2. CASE f # NoCall
      <4>1. flows'[t] = IF t = on[f] THEN flows[t] \ {f} ELSE flows[t]
        BY <1>0, <2>3, <3>2 DEF Without
      <4>. QED BY <4>1
    <3>. QED BY <3>1, <3>2
  <2>. QED BY <1>0, <2>3, <2>4, <2>5, <2>6
<1>4. CASE ResumeExec(c)
  <2>1. pc[c] = "acquired" /\ held[c] \in Calls
    BY <1>4, OtherMoves, FlowFacts
  <2>2. /\ connections' = [connections EXCEPT !["execServer"] = c]
        /\ flows' = [Without(g) EXCEPT ![held[c]] = @ \cup {c}]
        /\ on' = [on EXCEPT ![c] = held[c]]
    BY <1>4 DEF ResumeExec
  <2>3. connections'["resolve"] = f /\ connections'["execServer"] = c
    BY <1>0, <2>2
  <2>4. (g # NoCall => f # g) /\ c # f /\ c # g /\ \A t \in Calls : c \notin flows[t]
    BY <1>0, <2>1
  <2>5. Without(g) \in [Calls -> SUBSET Calls] /\ \A t, h \in Calls : h \in Without(g)[t] <=> h \in flows[t] /\ h # g
    <3>1. CASE g = NoCall
      BY <1>0, <3>1 DEF Without
    <3>2. CASE g # NoCall
      <4>1. /\ Without(g) = [flows EXCEPT ![on[g]] = flows[on[g]] \ {g}]
            /\ on[g] \in Calls
        BY <1>0, <3>2 DEF Without
      <4>2. \A t \in Calls : g \in flows[t] => on[g] = t
        BY <1>0, <3>2
      <4>3. \A t \in Calls : Without(g)[t] = IF t = on[g] THEN flows[t] \ {g} ELSE flows[t]
        BY <1>0, <4>1
      <4>4. Without(g) \in [Calls -> SUBSET Calls]
        BY <1>0, <4>1
      <4>5. ASSUME NEW t \in Calls, NEW h \in Calls PROVE h \in Without(g)[t] <=> h \in flows[t] /\ h # g
        <5>1. Without(g)[t] = IF t = on[g] THEN flows[t] \ {g} ELSE flows[t]
          BY <4>3
        <5>2. CASE t = on[g]
          BY <5>1, <5>2
        <5>3. CASE t # on[g]
          BY <4>2, <5>1, <5>3
        <5>. QED BY <5>2, <5>3
      <4>. QED BY <4>4, <4>5
    <3>. QED BY <3>1, <3>2
  <2>6. \A t \in Calls : flows'[t] = IF t = held[c] THEN Without(g)[t] \cup {c} ELSE Without(g)[t]
    BY <2>1, <2>2, <2>5
  <2>7. ASSUME NEW t \in Calls, NEW h \in Calls
        PROVE  h \in flows'[t] <=> on'[h] = t /\ \E k \in Kind : connections'[k] = h
    <3>1. CASE h = c
      BY <1>0, <2>2, <2>3, <2>4, <2>5, <2>6, <3>1
    <3>2. CASE h # c
      <4>1. on'[h] = on[h]
        BY <1>0, <2>2, <3>2
      <4>2. h \in flows'[t] <=> h \in flows[t] /\ h # g
        <5>1. /\ h \in Without(g)[t] <=> h \in flows[t] /\ h # g
              /\ flows'[t] = IF t = held[c] THEN Without(g)[t] \cup {c} ELSE Without(g)[t]
          BY <2>5, <2>6
        <5>2. h \in flows'[t] <=> h \in Without(g)[t]
          BY <3>2, <5>1
        <5>. QED BY <5>1, <5>2
      <4>3. (\E k \in Kind : connections'[k] = h) <=> (\E k \in Kind : connections[k] = h) /\ h # g
        BY <1>0, <2>3, <2>4, <3>2
      <4>. QED BY <4>1, <4>2, <4>3
    <3>. QED BY <3>1, <3>2
  <2>. QED BY <2>7
<1>5. CASE Started(c)
  <2>1. pc[c] = "start" /\ held[c] \in Calls
    BY <1>5, OtherMoves, FlowFacts
  <2>2. c \in Resolves
    BY <2>1 DEF Places
  <2>3. /\ connections' = [connections EXCEPT !["resolve"] = c] /\ f = NoCall
        /\ flows' = [flows EXCEPT ![held[c]] = flows[held[c]] \cup {c}]
        /\ on' = [on EXCEPT ![c] = held[c]]
    BY <1>1, <1>5, <2>1, <2>2 DEF Started, Serial
  <2>4. connections'["resolve"] = c /\ connections'["execServer"] = g
    BY <1>0, <2>3
  <2>5. c # g /\ \A t \in Calls : c \notin flows[t]
    BY <1>0, <2>1
  <2>6. \A t \in Calls : flows'[t] = IF t = held[c] THEN flows[t] \cup {c} ELSE flows[t]
    BY <1>0, <2>1, <2>3
  <2>7. ASSUME NEW t \in Calls, NEW h \in Calls
        PROVE  h \in flows'[t] <=> on'[h] = t /\ \E k \in Kind : connections'[k] = h
    <3>1. CASE h = c
      BY <1>0, <2>3, <2>4, <2>5, <2>6, <3>1
    <3>2. CASE h # c
      <4>1. on'[h] = on[h]
        BY <1>0, <2>3, <3>2
      <4>2. h \in flows'[t] <=> h \in flows[t]
        <5>1. flows'[t] = IF t = held[c] THEN flows[t] \cup {c} ELSE flows[t]
          BY <2>6
        <5>. QED BY <3>2, <5>1
      <4>3. (\E k \in Kind : connections'[k] = h) <=> (\E k \in Kind : connections[k] = h)
        BY <1>0, <2>3, <2>4, <3>2
      <4>. QED BY <4>1, <4>2, <4>3
    <3>. QED BY <3>1, <3>2
  <2>. QED BY <2>7
<1>6. CASE RecheckFails(c) \/ RecheckAlive(c)
  <2>1. pc[c] = "recheck" /\ c \in Resolves
    BY <1>6, OtherMoves DEF Places
  <2>. QED BY <1>1, <2>1 DEF Serial
<1>7. Step(c) \/ Begin(c) =>
        \/ UNCHANGED <<flows, on, connections>>
        \/ Resume(c) \/ ResumeExec(c) \/ Started(c) \/ RecheckFails(c) \/ RecheckAlive(c)
  BY DEF Step, Begin, ReuseAlive, ReuseFails, ProbeAlive, ProbeFails, Connect, Created, CreateFails, Wake, StartFails
<1>. HIDE DEF f, g
<1>. QED BY <1>2, <1>3, <1>4, <1>5, <1>6, <1>7

LEMMA CountedStep ==
  ASSUME IInv, Places, Awaiting, Serial, Counted, plan' = plan, NEW c \in Calls, Step(c) \/ Begin(c)
  PROVE  Counted'
<1>. SUFFICES ASSUME Steady PROVE Counted'
  BY DEF Counted, Steady, MayHappen
<1>1. \A t, f \in Calls : f \in flows'[t] <=> on'[f] = t /\ \E k \in Kind : connections'[k] = f
  BY FlowsStep DEF Counted
<1>2. ready \subseteq Calls /\ refs \in [Calls -> Int] /\ (IInv => \A t \in Calls : refs[t] \in Int)
  BY FlowFacts
<1>3. \A d \in Calls : pc[d] = "failed" => pc'[d] = "failed"
  BY StepFacts, BeginMoves DEF Stays, UnderWay
<1>4. ASSUME NEW t \in ready'
      PROVE  /\ refs'[t] >= Users(t)'
             /\ (\A d \in Calls : pc'[d] # "failed") => refs'[t] = Users(t)'
  <2>1. CASE t \notin ready
    <3>1. refs'[t] = 1 /\ Users(t)' = 1
      BY <2>1, Balance
    <3>. QED BY <3>1
  <2>2. CASE t \in ready
    <3>1. PICK u \in Nat : u = Users(t)
      BY UsersType
    <3>2. PICK v \in Nat : v = Users(t)'
      <4>1. Users(t)' \in Nat
        BY DEF Users, One
      <4>. QED BY <4>1
    <3>3. PICK r \in Int : r = refs[t]
      BY <1>2, <2>2
    <3>4. \/ refs'[t] - v = r - u
          \/ refs'[t] - v >= r - u /\ pc'[c] = "failed"
      BY <2>2, <3>1, <3>2, <3>3, Balance
    <3>5. r >= u /\ ((\A d \in Calls : pc[d] # "failed") => r = u)
      BY <2>2, <3>1, <3>3 DEF Counted
    <3>6. refs'[t] \in Int
      <4>1. CASE Created(c)
        BY <1>2, <2>2, <4>1 DEF Created
      <4>2. refs' \in [Calls -> Int]
        BY IInvNext DEF IInv, TypeOK, Next, Unforced
      <4>. QED BY <1>2, <2>2, <4>2
    <3>7. refs'[t] >= v /\ ((\A d \in Calls : pc'[d] # "failed") => refs'[t] = v)
      BY <1>3, <3>4, <3>5, <3>6
    <3>. QED BY <3>2, <3>7
  <2>. QED BY <2>1, <2>2
<1>. QED BY <1>1, <1>4 DEF Counted

(* The flows that dispose() kills on a transport *)
LEMMA FlowCount ==
  ASSUME IInv, Places, NEW t
  PROVE  Cardinality({f \in {connections[k] : k \in Kind} \ {NoCall} : on[f] = t})
           = One(FlowOn("resolve", t)) + One(FlowOn("execServer", t))
<1>. DEFINE f == connections["resolve"]
            g == connections["execServer"]
            S == {h \in {connections[k] : k \in Kind} \ {NoCall} : on[h] = t}
<1>1. f # NoCall /\ g # NoCall => f # g
  BY FlowFacts, KindFacts
<1>2. S = {h \in {f, g} : h # NoCall /\ on[h] = t}
  BY KindFacts
<1>3. /\ FlowOn("resolve", t) <=> f # NoCall /\ on[f] = t
      /\ FlowOn("execServer", t) <=> g # NoCall /\ on[g] = t
  BY DEF FlowOn
<1>. HIDE DEF f, g, S
<1>4. CASE ~FlowOn("resolve", t) /\ ~FlowOn("execServer", t)
  <2>1. S = {}
    BY <1>2, <1>3, <1>4
  <2>. QED BY <1>4, <2>1, FS_EmptySet DEF One, S
<1>5. CASE FlowOn("resolve", t) /\ ~FlowOn("execServer", t)
  <2>1. S = {f}
    BY <1>2, <1>3, <1>5
  <2>2. Cardinality(S) = 1
    BY <2>1, FS_Singleton
  <2>. QED BY <1>5, <2>2 DEF One, S
<1>6. CASE ~FlowOn("resolve", t) /\ FlowOn("execServer", t)
  <2>1. S = {g}
    BY <1>2, <1>3, <1>6
  <2>2. Cardinality(S) = 1
    BY <2>1, FS_Singleton
  <2>. QED BY <1>6, <2>2 DEF One, S
<1>7. CASE FlowOn("resolve", t) /\ FlowOn("execServer", t)
  <2>1. S = {f} \cup {g} /\ g \notin {f}
    BY <1>1, <1>2, <1>3, <1>7
  <2>2. IsFiniteSet({f}) /\ Cardinality({f}) = 1
    BY FS_Singleton
  <2>3. Cardinality(S) = 2
    BY <2>1, <2>2, FS_AddElement
  <2>. QED BY <1>7, <2>3 DEF One, S
<1>. QED BY <1>4, <1>5, <1>6, <1>7

(* The steps of the connection and of its monitors say nothing of the flows *)
LEMMA MarkKeeps ==
  ASSUME plan' = plan, NEW t \in Calls, Lose(t) \/ MonitorProbe(t) \/ Unreachable(t),
         Counted, Unused, Registered, Probing, Ended
  PROVE  (Counted /\ Unused /\ Registered /\ Probing /\ Ended)'
<1>1. /\ UNCHANGED <<pc, held, registry, connections, on, refs, flows, closed, made, ready, disposed>>
      /\ dead \subseteq dead'
  BY DEF Lose, MonitorProbe, Unreachable, MarkDead, trvars
<1>2. \A k, s : FlowOn(k, s)' <=> FlowOn(k, s)
  BY <1>1 DEF FlowOn
<1>3. \A k, s : HeldBy(k, s)' <=> HeldBy(k, s)
  BY <1>1 DEF HeldBy, Holds
<1>4. \A s : Users(s)' = Users(s)
  BY <1>2, <1>3 DEF Users, One
<1>5. \A k, s : Kept(k, s)' <=> Kept(k, s)
  BY <1>1, <1>2, <1>4 DEF Kept, Leaked
<1>6. (Steady' <=> Steady) /\ (Orderly' <=> Orderly) /\ (Quiet' <=> Quiet)
  BY <1>1 DEF Steady, Orderly, Quiet, MayHappen, UnderWay
<1>7. Counted'
  BY <1>1, <1>4, <1>6 DEF Counted
<1>8. Unused'
  BY <1>1, <1>6 DEF Unused
<1>9. Registered'
  BY <1>1, <1>5, <1>6 DEF Registered
<1>10. Probing'
  BY <1>1, <1>5, <1>6 DEF Probing
<1>11. Ended'
  BY <1>1, <1>6 DEF Ended, Open
<1>. QED BY <1>7, <1>8, <1>9, <1>10, <1>11

(* Dispose takes every flow away with its reference.  If nothing is under   *)
(* way and nothing has failed, these were all the references there were.    *)
LEMMA DisposeKeeps ==
  ASSUME IInv, Places, Counted, plan' = plan, Dispose
  PROVE  (Counted /\ Unused /\ Registered /\ Probing /\ Ended)'
<1>. DEFINE killed == {connections[k] : k \in Kind} \ {NoCall}
            left(t) == refs[t] - Cardinality({f \in killed : on[f] = t})
            freed == {on[f] : f \in killed} \cap {t \in Calls : left(t) <= 0}
<1>1. /\ UNCHANGED <<pc, held, on, made, ready>>
      /\ refs' = [t \in Calls |-> left(t)]
      /\ flows' = [t \in Calls |-> flows[t] \ killed]
      /\ closed \cup freed \subseteq closed'
      /\ connections' = [k \in Kind |-> NoCall]
      /\ disposed' = TRUE
  BY DEF Dispose
<1>2. \A t \in Calls : left(t) = refs[t] - (One(FlowOn("resolve", t)) + One(FlowOn("execServer", t)))
  BY FlowCount
<1>3. \A f : f \in killed <=> f # NoCall /\ \E k \in Kind : connections[k] = f
  OBVIOUS
<1>4. \A t \in Calls : FlowOn("resolve", t) \/ FlowOn("execServer", t) => \E f \in killed : on[f] = t
  BY <1>3, KindFacts DEF FlowOn
<1>. HIDE DEF killed, left
<1>5. ready \subseteq Calls /\ refs \in [Calls -> Int] /\ NoCall \notin Calls
  BY FlowFacts, KindFacts
<1>6. \A k \in Kind : connections'[k] = NoCall
  BY <1>1
<1>7. ASSUME NEW t \in ready
      PROVE  refs'[t] - Users(t)' = refs[t] - Users(t)
  <2>1. ~FlowOn("resolve", t)' /\ ~FlowOn("execServer", t)'
    BY <1>6, KindFacts DEF FlowOn
  <2>2. (HeldBy("resolve", t)' <=> HeldBy("resolve", t)) /\ (HeldBy("execServer", t)' <=> HeldBy("execServer", t))
    BY <1>1 DEF HeldBy, Holds
  <2>3. PICK h \in Nat : h = One(HeldBy("resolve", t)) + One(HeldBy("execServer", t))
    BY DEF One
  <2>4. Users(t)' = h
    BY <2>1, <2>2, <2>3 DEF Users, One
  <2>5. PICK n \in Nat : n = One(FlowOn("resolve", t)) + One(FlowOn("execServer", t))
    BY DEF One
  <2>6. Users(t) = n + h
    BY <2>3, <2>5 DEF Users, One
  <2>7. refs'[t] = refs[t] - n /\ refs[t] \in Int
    BY <1>1, <1>2, <1>5, <2>5
  <2>. QED BY <2>4, <2>6, <2>7
<1>8. Counted'
  <2>. SUFFICES ASSUME Steady PROVE Counted'
    BY DEF Counted, Steady, MayHappen
  <2>1. \A t, f \in Calls : f \notin flows'[t]
    BY <1>1, <1>3, <1>5 DEF Counted
  <2>2. \A t, f \in Calls : f \in flows'[t] <=> on'[f] = t /\ \E k \in Kind : connections'[k] = f
    BY <1>5, <1>6, <2>1
  <2>3. ASSUME NEW t \in ready
        PROVE  refs'[t] >= Users(t)' /\ ((\A c \in Calls : pc[c] # "failed") => refs'[t] = Users(t)')
    <3>1. PICK u \in Nat, v \in Nat : u = Users(t) /\ v = Users(t)'
      <4>1. Users(t) \in Nat /\ Users(t)' \in Nat
        BY DEF Users, One
      <4>. QED BY <4>1
    <3>2. refs[t] \in Int /\ refs'[t] \in Int
      BY <1>1, <1>2, <1>5 DEF One
    <3>3. refs'[t] - v = refs[t] - u
      BY <1>7, <3>1
    <3>4. refs[t] >= u /\ ((\A c \in Calls : pc[c] # "failed") => refs[t] = u)
      BY <3>1 DEF Counted
    <3>5. refs'[t] >= v /\ ((\A c \in Calls : pc[c] # "failed") => refs'[t] = v)
      BY <3>2, <3>3, <3>4
    <3>. QED BY <3>1, <3>5
  <2>. QED BY <1>1, <2>2, <2>3 DEF Counted
<1>9. Ended'
  <2>. SUFFICES ASSUME Orderly', Quiet', NEW t \in made, t \notin closed' PROVE FALSE
    BY <1>1 DEF Ended, Open
  <2>1. Steady /\ \A c \in Calls : pc[c] \notin {"create", "acquired", "start", "failed"}
    BY <1>1 DEF Orderly, Quiet, UnderWay, Steady, MayHappen
  <2>2. t \in Calls /\ t \in ready \ closed
    BY <1>1, <2>1 DEF Places, IInv, TypeOK
  <2>3. refs[t] >= 1
    BY <2>2 DEF Places, Dispose, Event
  <2>4. refs[t] = Users(t)
    BY <2>1, <2>2 DEF Counted
  <2>5. ~HeldBy("resolve", t) /\ ~HeldBy("execServer", t)
    BY <2>1 DEF HeldBy, Holds
  <2>6. PICK n \in Nat : n = One(FlowOn("resolve", t)) + One(FlowOn("execServer", t))
    BY DEF One
  <2>7. refs[t] = n
    BY <2>4, <2>5, <2>6 DEF Users, One
  <2>8. FlowOn("resolve", t) \/ FlowOn("execServer", t)
    BY <2>3, <2>6, <2>7 DEF One
  <2>9. left(t) <= 0
    BY <1>2, <2>2, <2>6, <2>7
  <2>10. t \in freed
    BY <1>4, <2>2, <2>8, <2>9
  <2>. QED BY <1>1, <2>10
<1>10. Unused' /\ Registered' /\ Probing'
  BY <1>1 DEF Unused, Registered, Probing
<1>. QED BY <1>8, <1>9, <1>10

-----------------------------------------------------------------------------
(* What the steps make of the flows, the counts and the registry *)

LEMMA TypePrimed ==
  ASSUME IInv, plan' = plan, NEW c \in Calls, Step(c) \/ Begin(c)
  PROVE  IInv' /\ refs' \in [Calls -> Int] /\ ready' \subseteq Calls
<1>1. IInv'
  BY IInvNext DEF Next, Unforced
<1>. QED BY <1>1 DEF IInv, TypeOK

(* Where the flow of c's kind is taken away, and where c registers its own *)
Drops(c) ==
  /\ pc[c] = "acquired" /\ KindOf(c) = "resolve" /\ pc'[c] = "start" /\ held'[c] = held[c]
  /\ on' = on /\ Release(connections[KindOf(c)])
Swaps(c) ==
  /\ pc[c] = "acquired" /\ KindOf(c) = "execServer" /\ pc'[c] = "done"
  /\ connections'[KindOf(c)] = c /\ on'[c] = held[c] /\ Release(connections[KindOf(c)])
Registers(c) ==
  /\ pc[c] = "start" /\ KindOf(c) = "resolve" /\ pc'[c] = "done"
  /\ connections[KindOf(c)] = NoCall /\ connections'[KindOf(c)] = c /\ on'[c] = held[c]
  /\ UNCHANGED <<refs, closed, registry>>

LEMMA FlowActs ==
  ASSUME IInv, Places, Serial, Steady, NEW c \in Calls, Step(c) \/ Begin(c)
  PROVE  /\ Resume(c) => Drops(c)
         /\ ResumeExec(c) => Swaps(c)
         /\ Started(c) => Registers(c)
         /\ ~RecheckAlive(c) /\ ~RecheckFails(c)
<1>0. /\ ~disposed
      /\ connections \in [Kind -> Calls \cup {NoCall}] /\ on \in [Calls -> Calls \cup {NoCall}]
      /\ "resolve" \in Kind /\ "execServer" \in Kind
  BY StepFacts, FlowFacts, KindFacts
<1>1. ASSUME Resume(c) PROVE Drops(c)
  <2>1. c \in Resolves /\ pc[c] = "acquired" /\ held'[c] = held[c] /\ KindOf(c) = "resolve"
    BY <1>1, OtherMoves, KindFacts
  <2>2. ~LiveFlow(connections["resolve"])
    BY <1>0, <2>1 DEF Serial
  <2>3. pc'[c] = "start"
    BY <1>1, <2>2, OtherMoves
  <2>4. Release(connections["resolve"]) /\ on' = on
    BY <1>1, <2>2 DEF Resume, KillConnection
  <2>. QED BY <2>1, <2>3, <2>4 DEF Drops
<1>2. ASSUME ResumeExec(c) PROVE Swaps(c)
  <2>1. c \in Execs /\ pc[c] = "acquired" /\ pc'[c] = "done" /\ KindOf(c) = "execServer"
    BY <1>2, OtherMoves, KindFacts
  <2>2. /\ Release(connections["execServer"])
        /\ connections' = [connections EXCEPT !["execServer"] = c] /\ on' = [on EXCEPT ![c] = held[c]]
    BY <1>2 DEF ResumeExec
  <2>3. connections'["execServer"] = c /\ on'[c] = held[c]
    BY <1>0, <2>2
  <2>. QED BY <2>1, <2>2, <2>3 DEF Swaps
<1>3. ASSUME Started(c) PROVE Registers(c)
  <2>1. pc[c] = "start" /\ pc'[c] = "done"
    BY <1>3, OtherMoves
  <2>2. c \in Resolves /\ KindOf(c) = "resolve"
    BY <2>1, KindFacts DEF Places
  <2>3. connections["resolve"] = NoCall
    BY <1>0, <2>1, <2>2 DEF Serial
  <2>4. /\ connections' = [connections EXCEPT !["resolve"] = c] /\ on' = [on EXCEPT ![c] = held[c]]
        /\ UNCHANGED <<refs, closed, registry>>
    BY <1>3 DEF Started
  <2>5. connections'["resolve"] = c /\ on'[c] = held[c]
    BY <1>0, <2>4
  <2>. QED BY <2>1, <2>2, <2>3, <2>4, <2>5 DEF Registers
<1>4. ASSUME RecheckAlive(c) \/ RecheckFails(c) PROVE FALSE
  <2>1. pc[c] = "recheck" /\ c \in Resolves
    BY <1>4, OtherMoves DEF Places
  <2>. QED BY <1>0, <2>1 DEF Serial
<1>. QED BY <1>1, <1>2, <1>3, <1>4

LEMMA FlowMoves ==
  ASSUME IInv, Places, Serial, Steady, NEW c \in Calls, Step(c) \/ Begin(c)
  PROVE  UNCHANGED <<connections, on>> \/ Drops(c) \/ Swaps(c) \/ Registers(c)
<1>1. \/ UNCHANGED <<connections, on>>
      \/ Resume(c) \/ ResumeExec(c) \/ Started(c) \/ RecheckFails(c) \/ RecheckAlive(c)
  BY DEF Step, Begin, ReuseAlive, ReuseFails, ProbeAlive, ProbeFails, Connect, Created, CreateFails, Wake, StartFails
<1>. QED BY <1>1, FlowActs

(* A call that was handed a transport goes on to drop or to swap the flow of *)
(* its kind; a server start ends in a flow or throws                         *)
LEMMA PastAcquire ==
  ASSUME IInv, Places, Serial, Steady, NEW c \in Calls, Step(c) \/ Begin(c)
  PROVE  /\ pc[c] = "acquired" => Drops(c) \/ Swaps(c)
         /\ pc[c] = "start" => Registers(c) \/ StartFails(c)
<1>1. /\ Begin(c) => pc[c] = "idle"
      /\ ReuseFails(c) => pc[c] = "reuse"
      /\ ProbeFails(c) => pc[c] = "probe"
      /\ Wake(c) => pc[c] = "await"
      /\ Connect(c) => pc[c] = "create"
  BY BeginMoves, ReuseFailsMoves, ProbeFailsMoves, WakeMoves DEF Connect
<1>2. pc[c] = "acquired" => Resume(c) \/ ResumeExec(c)
  BY <1>1, OtherMoves DEF Step
<1>3. pc[c] = "start" => Started(c) \/ StartFails(c)
  BY <1>1, OtherMoves DEF Step
<1>. QED BY <1>2, <1>3, FlowActs

(* Past the acquisition a call releases what the last of its kind registered *)
LEMMA Released ==
  ASSUME IInv, Places, Serial, Steady, ~disposed, NEW c \in Calls
  PROVE  /\ Resume(c) \/ ResumeExec(c) => pc[c] = "acquired" /\ Release(connections[KindOf(c)])
         /\ ~RecheckFails(c)
<1>1. ASSUME Resume(c) PROVE pc[c] = "acquired" /\ Release(connections[KindOf(c)])
  <2>1. c \in Resolves /\ pc[c] = "acquired" /\ KindOf(c) = "resolve"
    BY <1>1, OtherMoves, KindFacts
  <2>2. ~LiveFlow(connections["resolve"])
    BY <2>1 DEF Serial
  <2>3. Release(connections["resolve"])
    BY <1>1, <2>2 DEF Resume, KillConnection
  <2>. QED BY <2>1, <2>3
<1>2. ASSUME ResumeExec(c) PROVE pc[c] = "acquired" /\ Release(connections[KindOf(c)])
  <2>1. c \in Execs /\ pc[c] = "acquired" /\ KindOf(c) = "execServer"
    BY <1>2, OtherMoves, KindFacts
  <2>2. Release(connections["execServer"])
    BY <1>2 DEF ResumeExec
  <2>. QED BY <2>1, <2>2
<1>3. ASSUME RecheckFails(c) PROVE FALSE
  <2>1. pc[c] = "recheck" /\ c \in Resolves
    BY <1>3, OtherMoves DEF Places
  <2>. QED BY <2>1 DEF Serial
<1>. QED BY <1>1, <1>2, <1>3

(* What becomes of the count: only a reuse raises it *)
Reused(c) ==
  /\ pc[c] \in {"probe", "await"} /\ held[c] \in ready
  /\ pc[c] = "await" => registry = held[c]
  /\ refs' = [refs EXCEPT ![held[c]] = refs[held[c]] + 1]

LEMMA RefsMoves ==
  ASSUME IInv, Places, Awaiting, Serial, Steady, NEW c \in Calls, Step(c) \/ Begin(c)
  PROVE  \/ Created(c) \/ Reused(c) \/ refs' = refs
         \/ pc[c] = "acquired" /\ Release(connections[KindOf(c)])
<1>0. ~disposed
  BY StepFacts
<1>1. CASE Begin(c) \/ ReuseFails(c) \/ ProbeFails(c) \/ ReuseAlive(c) \/ Connect(c) \/ CreateFails(c)
           \/ Started(c) \/ StartFails(c) \/ RecheckAlive(c)
  BY <1>1 DEF Begin, ReuseFails, ProbeFails, ReuseAlive, Connect, CreateFails, Started, StartFails, RecheckAlive
<1>2. CASE Resume(c) \/ ResumeExec(c) \/ RecheckFails(c)
  BY <1>0, <1>2, Released
<1>3. CASE ProbeAlive(c)
  <2>1. refs' = [refs EXCEPT ![held[c]] = refs[held[c]] + 1]
    BY <1>3 DEF ProbeAlive
  <2>. QED BY <1>3, <2>1, OtherMoves DEF Reused
<1>4. CASE Wake(c)
  <2>1. pc[c] = "await" /\ c \in Waking /\ (Handed(c) \/ refs' = refs)
    BY <1>4, WakeMoves DEF Refused
  <2>2. CASE Handed(c)
    <3>1. registry = held[c]
      BY <1>0, <2>1, <2>2 DEF Awaiting, Handed
    <3>. QED BY <2>1, <2>2, <3>1 DEF Reused, Handed
  <2>. QED BY <2>1, <2>2
<1>. QED BY <1>1, <1>2, <1>3, <1>4 DEF Step

(* What becomes of the registration *)
Retires(c) ==
  /\ pc[c] = "probe" /\ held[c] \in ready /\ held[c] \in dead'
  /\ registry' = NoCall /\ closed' = closed \cup {held[c]}
Releases(c) ==
  /\ pc[c] = "acquired" /\ Release(connections[KindOf(c)])

LEMMA RegistryMoves ==
  ASSUME IInv, Places, Awaiting, Serial, Steady, NEW c \in Calls, Step(c) \/ Begin(c)
  PROVE  \/ Created(c) \/ UNCHANGED <<registry, closed>>
         \/ /\ registry \in dead \cup {NoCall} /\ registry' = NoCall
            /\ closed' = closed \cup ({registry} \ {NoCall})
         \/ Retires(c) \/ Releases(c)
<1>1. CASE Begin(c)
  BY <1>1, BeginMoves DEF Reuses, Probes, Joins, Creates
<1>2. CASE ReuseFails(c)
  BY <1>2, ReuseFailsMoves DEF Probes, Joins, Creates
<1>3. CASE Wake(c)
  BY <1>3, WakeMoves DEF Probes, Joins, Creates, Handed, Refused
<1>4. CASE ProbeFails(c)
  <2>1. held[c] # NoCall
    BY <1>4, ProbeFailsMoves, FlowFacts, KindFacts
  <2>. QED BY <1>4, <2>1, ProbeFailsMoves DEF Joins, Creates, Retires
<1>5. CASE ReuseAlive(c) \/ ProbeAlive(c) \/ Connect(c) \/ CreateFails(c) \/ Started(c) \/ StartFails(c)
           \/ RecheckAlive(c)
  BY <1>5 DEF ReuseAlive, ProbeAlive, Connect, CreateFails, Started, StartFails, RecheckAlive
<1>6. CASE Resume(c) \/ ResumeExec(c) \/ RecheckFails(c)
  <2>1. ~disposed
    BY StepFacts
  <2>. QED BY <1>6, <2>1, Released DEF Releases
<1>. QED BY <1>1, <1>2, <1>3, <1>4, <1>5, <1>6 DEF Step

-----------------------------------------------------------------------------
(* What is torn down stays unused, what is registered stays in use *)

(* A release: the count falls, to nothing where something is closed *)
LEMMA ReleaseMoves ==
  ASSUME IInv, Places, NEW k \in Kind, Release(connections[k])
  PROVE  /\ \A t \in Calls : refs'[t] <= refs[t]
         /\ closed \subseteq closed'
         /\ \A t \in closed' \ closed : refs'[t] <= 0
         /\ \/ registry' = registry
            \/ /\ registry' = NoCall /\ connections[k] # NoCall
               /\ refs[on[connections[k]]] <= 1
         /\ registry' \in {registry, NoCall}
<1>1. PICK f : f = connections[k]
  OBVIOUS
<1>2. refs \in [Calls -> Int]
  BY FlowFacts
<1>3. CASE f = NoCall
  <2>1. UNCHANGED <<refs, closed, registry>>
    BY <1>1, <1>3, FlowFacts, KindFacts DEF Release
  <2>. QED BY <1>2, <2>1
<1>4. CASE f # NoCall
  <2>1. PICK s \in Calls : s = on[f]
    BY <1>1, <1>4, FlowFacts
  <2>2. /\ refs' = [refs EXCEPT ![s] = refs[s] - 1]
        /\ closed' = IF refs[s] <= 1 THEN closed \cup {s} ELSE closed
        /\ registry' = IF refs[s] <= 1 THEN NoCall ELSE registry
    BY <1>1, <1>4, <2>1 DEF Release
  <2>3. \A t \in Calls : refs'[t] = IF t = s THEN refs[t] - 1 ELSE refs[t]
    BY <1>2, <2>2
  <2>4. /\ \A t \in Calls : refs'[t] <= refs[t]
        /\ closed \subseteq closed'
        /\ \A t \in closed' \ closed : refs'[t] <= 0
    BY <1>2, <2>2, <2>3
  <2>5. CASE refs[s] <= 1
    BY <1>1, <1>4, <2>1, <2>2, <2>4, <2>5
  <2>6. CASE ~(refs[s] <= 1)
    BY <2>2, <2>4, <2>6
  <2>. QED BY <2>5, <2>6
<1>. QED BY <1>3, <1>4

(* A user counts *)
LEMMA UserCounts ==
  ASSUME IInv, Places, Counted, Steady, NEW t \in ready
  PROVE  /\ \A k \in Kind : Kept(k, t) => refs[t] >= 1
         /\ refs[t] >= Users(t)
<1>1. PICK u \in Nat : u = Users(t)
  BY UsersType
<1>2. refs[t] \in Int /\ refs[t] >= u
  BY <1>1, FlowFacts DEF Counted
<1>3. ASSUME NEW k \in Kind, FlowOn(k, t) PROVE u >= 1
  BY <1>1, <1>3, UsersType, KindFacts
<1>4. Leaked(t) => refs[t] > u
  BY <1>1 DEF Leaked
<1>. QED BY <1>1, <1>2, <1>3, <1>4 DEF Kept

LEMMA UnusedStep ==
  ASSUME IInv, Places, Awaiting, Serial, Counted, Unused, Probing, plan' = plan,
         NEW c \in Calls, Step(c) \/ Begin(c)
  PROVE  Unused'
<1>. SUFFICES ASSUME Steady, NEW t \in closed', t \notin dead' PROVE refs'[t] <= 0
  BY DEF Unused, Steady, MayHappen
<1>1. ~disposed /\ dead \subseteq dead' /\ closed \subseteq ready /\ ready \subseteq Calls
  BY StepFacts, FlowFacts DEF IInv, ClosedWereReady
<1>2. refs \in [Calls -> Int] /\ KindOf(c) \in Kind
  BY FlowFacts, KindFacts
<1>3. CASE t \in closed
  <2>1. refs[t] <= 0 /\ t \in Calls /\ t \notin dead
    BY <1>1, <1>3 DEF Unused
  <2>2. CASE Created(c)
    <3>1. t # c
      BY <1>3, <2>2, OtherMoves
    <3>2. refs' = [refs EXCEPT ![c] = 1]
      BY <2>2 DEF Created
    <3>. QED BY <1>2, <2>1, <3>1, <3>2
  <2>3. CASE Reused(c)
    <3>1. CASE t = held[c]
      <4>1. registry # t
        BY <1>1, <1>3, KindFacts DEF IInv, RegisteredIsOpen
      <4>2. pc[c] = "probe" /\ Kept(KindOf(c), t)
        BY <1>1, <2>1, <2>3, <3>1, <4>1 DEF Reused, Probing
      <4>3. refs[t] >= 1
        BY <1>1, <1>2, <1>3, <4>2, UserCounts
      <4>. QED BY <1>2, <2>1, <4>3
    <3>2. CASE t # held[c]
      BY <1>2, <2>1, <2>3, <3>2 DEF Reused
    <3>. QED BY <3>1, <3>2
  <2>4. CASE pc[c] = "acquired" /\ Release(connections[KindOf(c)])
    <3>1. refs'[t] <= refs[t] /\ refs' \in [Calls -> Int]
      BY <1>2, <2>1, <2>4, ReleaseMoves, TypePrimed
    <3>. QED BY <1>2, <2>1, <3>1
  <2>. QED BY <2>1, <2>2, <2>3, <2>4, RefsMoves
<1>4. CASE t \notin closed
  <2>1. CASE Created(c)
    BY <1>4, <2>1 DEF Created
  <2>2. CASE /\ registry \in dead \cup {NoCall} /\ registry' = NoCall
             /\ closed' = closed \cup ({registry} \ {NoCall})
    BY <1>1, <1>4, <2>2
  <2>3. CASE Retires(c)
    BY <1>4, <2>3 DEF Retires
  <2>4. CASE Releases(c)
    BY <1>2, <1>4, <2>4, ReleaseMoves DEF Releases
  <2>. QED BY <1>4, <2>1, <2>2, <2>3, <2>4, RegistryMoves
<1>. QED BY <1>3, <1>4

(* What a step of c leaves of the claims on a transport *)
LEMMA LeakedStays ==
  ASSUME IInv, Places, Awaiting, Serial, Steady, plan' = plan, NEW c \in Calls, Step(c) \/ Begin(c),
         NEW t \in ready, Leaked(t)
  PROVE  Leaked(t)'
<1>1. PICK u \in Nat, v \in Nat : u = Users(t) /\ v = Users(t)'
  <2>1. Users(t) \in Nat /\ Users(t)' \in Nat
    BY DEF Users, One
  <2>. QED BY <2>1
<1>2. t \in Calls /\ refs[t] \in Int /\ refs'[t] \in Int
  BY FlowFacts, TypePrimed
<1>3. refs'[t] - v >= refs[t] - u
  BY <1>1, <1>2, Balance
<1>4. refs[t] > u
  BY <1>1 DEF Leaked
<1>5. refs'[t] > v
  BY <1>2, <1>3, <1>4
<1>. QED BY <1>1, <1>5 DEF Leaked

LEMMA OthersFlowStays ==
  ASSUME IInv, Places, NEW c \in Calls, Step(c) \/ Begin(c), NEW k \in Kind, k # KindOf(c), NEW t
  PROVE  FlowOn(k, t)' <=> FlowOn(k, t)
<1>1. connections'[k] = connections[k] /\ \A d \in Calls \ {c} : on'[d] = on[d]
  BY StepFacts
<1>2. connections[k] # NoCall => connections[k] \in Calls \ {c}
  BY FlowFacts
<1>. QED BY <1>1, <1>2 DEF FlowOn

LEMMA RegisteredStep ==
  ASSUME IInv, Places, Awaiting, Serial, Counted, Registered, Probing, plan' = plan,
         NEW c \in Calls, Step(c) \/ Begin(c)
  PROVE  Registered'
<1>. SUFFICES ASSUME Steady, NEW r, r = registry', r \notin dead' \cup {NoCall}, NEW K, K = KindOf(r)
              PROVE  \/ Leaked(r)' \/ FlowOn(K, r)' \/ pc'[r] = "acquired"
                     \/ \E d \in Calls : KindOf(d) = K /\ pc'[d] = "start" /\ held'[d] = r
  BY DEF Registered, Kept, Leaked, FlowOn, Users, HeldBy, Holds, Steady, MayHappen
<1>0. ~disposed /\ dead \subseteq dead' /\ Stays(c) /\ (Step(c) => UnderWay(c))
  BY StepFacts
<1>1. CASE Created(c)
  <2>1. registry' = c /\ pc'[c] = "acquired"
    BY <1>1, OtherMoves DEF Created
  <2>. QED BY <2>1
<1>2. CASE ~Created(c)
  <2>1. registry' = registry
    <3>1. Releases(c) => registry' \in {registry, NoCall}
      BY ReleaseMoves, KindFacts DEF Releases
    <3>. QED BY <1>2, <3>1, RegistryMoves DEF Retires
  <2>2. r \in ready /\ r = registry /\ r \notin dead
    BY <1>0, <2>1 DEF IInv, RegisteredIsOpen
  <2>3. r \in Calls /\ r # NoCall /\ held[r] = r
    BY <2>2, FlowFacts, KindFacts DEF Places
  <2>4. K \in Kind
    BY <2>3, KindFacts
  <2>5. \/ Leaked(r) \/ FlowOn(K, r) \/ pc[r] = "acquired"
        \/ \E d \in Calls : KindOf(d) = K /\ pc[d] = "start" /\ held[d] = r
    BY <1>0, <2>2, <2>3, <2>4 DEF Registered, Kept
  <2>7. CASE Leaked(r)
    BY <2>2, <2>7, LeakedStays
  <2>8. pc[c] = "acquired" /\ KindOf(c) = K => held[c] = r
    BY <1>0, <2>2, <2>3, <2>4 DEF Probing
  <2>9. CASE FlowOn(K, r)
    <3>1. CASE K # KindOf(c)
      BY <2>4, <2>9, <3>1, OthersFlowStays
    <3>2. CASE K = KindOf(c) /\ UNCHANGED <<connections, on>>
      BY <2>9, <3>2 DEF FlowOn
    <3>3. CASE K = KindOf(c) /\ Drops(c)
      BY <2>8, <3>3 DEF Drops
    <3>4. CASE K = KindOf(c) /\ Swaps(c)
      BY <2>8, <3>4, KindFacts DEF Swaps, FlowOn
    <3>5. CASE K = KindOf(c) /\ Registers(c)
      BY <2>9, <3>5 DEF Registers, FlowOn
    <3>. QED BY <3>1, <3>2, <3>3, <3>4, <3>5, FlowMoves
  <2>10. CASE pc[r] = "acquired"
    <3>1. CASE r # c
      BY <1>0, <2>3, <2>10, <3>1 DEF Stays
    <3>2. CASE r = c
      <4>1. CASE Drops(c)
        BY <2>3, <2>4, <3>2, <4>1 DEF Drops
      <4>2. CASE Swaps(c)
        BY <2>3, <2>4, <3>2, <4>2 DEF Swaps, FlowOn
      <4>. QED BY <2>10, <3>2, <4>1, <4>2, PastAcquire
    <3>. QED BY <3>1, <3>2
  <2>11. ASSUME NEW d \in Calls, KindOf(d) = K, pc[d] = "start", held[d] = r
         PROVE  Leaked(r)' \/ FlowOn(K, r)' \/ (pc'[d] = "start" /\ held'[d] = r)
    <3>1. CASE d # c
      BY <1>0, <2>11, <3>1 DEF Stays
    <3>2. CASE d = c /\ Registers(c)
      BY <2>11, <3>2, KindFacts DEF Registers, FlowOn
    <3>3. CASE d = c /\ StartFails(c)
      <4>1. UNCHANGED <<connections, on, refs>> /\ pc'[c] = "failed"
        BY <3>3, OtherMoves DEF StartFails
      <4>2. One(FlowOn(K, r)') = One(FlowOn(K, r)) /\ One(Holds(c, r)) = 1 /\ One(Holds(c, r)') = 0
        BY <2>11, <3>3, <4>1 DEF One, FlowOn, Holds
      <4>3. PICK x \in Nat : /\ Users(r) = One(FlowOn(K, r)) + One(Holds(c, r)) + x
                             /\ Users(r)' = One(FlowOn(K, r)') + One(Holds(c, r)') + x
        BY <2>3, <2>11, <3>3, UsersOf, UsersType
      <4>4. PICK n \in Nat : n = One(FlowOn(K, r))
        BY DEF One
      <4>5. Users(r) = n + 1 + x /\ Users(r)' = n + x
        BY <4>2, <4>3, <4>4
      <4>6. refs[r] \in Int /\ refs[r] >= Users(r)
        BY <2>2, <2>3, FlowFacts, UserCounts
      <4>7. refs'[r] > Users(r)'
        BY <4>1, <4>5, <4>6
      <4>. QED BY <4>7 DEF Leaked
    <3>. QED BY <2>11, <3>1, <3>2, <3>3, PastAcquire
  <2>. QED BY <2>5, <2>7, <2>9, <2>10, <2>11
<1>. QED BY <1>1, <1>2

(* A probe begins while nobody has been handed a transport, and no step hands *)
(* one to the call that made it                                               *)
LEMMA ProbeBegins ==
  ASSUME IInv, Places, Awaiting, NEW c \in Calls, Step(c) \/ Begin(c)
  PROVE  /\ pc'[c] = "probe" =>
              /\ Begin(c) \/ ReuseFails(c)
              /\ held'[c] = registry /\ registry \notin dead \cup {NoCall}
              /\ UNCHANGED <<registry, connections, on, refs>> /\ Resuming = {}
         /\ pc'[c] = "acquired" =>
              \/ pc[c] = "probe" /\ UNCHANGED registry /\ held'[c] = held[c]
              \/ pc[c] = "await" /\ registry' \in {held'[c], NoCall}
              \/ pc[c] = "create" /\ registry' = c /\ held'[c] = c
         /\ pc'[c] = "acquired" => c \notin ready
<1>0. ~disposed
  BY StepFacts
<1>1. CASE Begin(c)
  <2>1. /\ Event /\ UNCHANGED <<connections, on, refs>>
        /\ Reuses(c) \/ Probes(c) \/ Joins(c) \/ Creates(c, registry)
    BY <1>1, BeginMoves
  <2>. QED BY <1>1, <2>1 DEF Reuses, Probes, Joins, Creates, Event
<1>2. CASE ReuseFails(c)
  <2>1. /\ Event /\ UNCHANGED <<connections, on, refs>>
        /\ Probes(c) \/ Joins(c) \/ Creates(c, registry)
    BY <1>2, ReuseFailsMoves
  <2>. QED BY <1>2, <2>1 DEF Probes, Joins, Creates, Event
<1>3. CASE ProbeFails(c)
  BY <1>3, ProbeFailsMoves DEF Joins, Creates
<1>4. CASE Wake(c)
  <2>1. /\ pc[c] = "await" /\ c \in Waking
        /\ \/ Handed(c) \/ Refused(c)
           \/ held[c] \in ready \cap dead /\ (Probes(c) \/ Joins(c) \/ Creates(c, registry))
    BY <1>4, WakeMoves
  <2>2. held[c] \in ready => registry \in {held[c], NoCall}
    BY <1>0, <2>1 DEF Awaiting
  <2>3. c \notin ready
    BY <2>1 DEF IInv, ReadyIsPast
  <2>. QED BY <2>1, <2>2, <2>3 DEF Probes, Joins, Creates, Handed, Refused
<1>5. CASE ProbeAlive(c)
  <2>1. pc[c] = "probe" /\ pc'[c] = "acquired" /\ held'[c] = held[c] /\ UNCHANGED registry
    BY <1>5, OtherMoves DEF ProbeAlive
  <2>2. c \notin ready
    BY <2>1 DEF IInv, ReadyIsPast
  <2>. QED BY <2>1, <2>2
<1>6. CASE Created(c)
  BY <1>6, OtherMoves DEF Created
<1>7. CASE \/ ReuseAlive(c) \/ Connect(c) \/ CreateFails(c) \/ Started(c) \/ StartFails(c)
           \/ RecheckAlive(c) \/ RecheckFails(c) \/ Resume(c) \/ ResumeExec(c)
  BY <1>7, OtherMoves DEF Connect
<1>. QED BY <1>1, <1>2, <1>3, <1>4, <1>5, <1>6, <1>7 DEF Step

(* What Probing says of one call *)
ProbingOf(c) ==
  /\ pc[c] = "probe" =>
       /\ pc[held[c]] # "acquired"
       /\ held[c] \notin dead =>
            /\ registry = held[c] \/ Kept(KindOf(c), held[c])
            /\ KindOf(held[c]) = KindOf(c) => Kept(KindOf(c), held[c])
  /\ pc[c] \in {"probe", "acquired"} /\ registry \notin {held[c], NoCall} =>
       KindOf(registry) # KindOf(c)

(* The call that moves *)
LEMMA ProbingOwn ==
  ASSUME IInv, Places, Awaiting, Serial, Counted, Registered, Probing, Steady, plan' = plan,
         NEW c \in Calls, Step(c) \/ Begin(c)
  PROVE  ProbingOf(c)'
<1>0. ~disposed /\ Stays(c) /\ KindOf(c) \in Kind
  BY StepFacts, KindFacts
<1>1. CASE pc'[c] = "probe"
  <2>1. /\ Begin(c) \/ ReuseFails(c)
        /\ held'[c] = registry /\ registry' = registry /\ registry \notin dead \cup {NoCall}
        /\ UNCHANGED <<connections, on, refs>> /\ Resuming = {}
    BY <1>1, ProbeBegins
  <2>2. PICK r \in ready : r = registry
    BY <2>1 DEF IInv, RegisteredIsOpen
  <2>3. pc[c] \in {"idle", "reuse"}
    BY <2>1, BeginMoves, ReuseFailsMoves
  <2>4. r # c /\ r \in Calls
    BY <2>2, <2>3, FlowFacts DEF IInv, ReadyIsPast
  <2>5. pc[r] # "acquired" /\ pc'[r] # "acquired"
    BY <1>0, <2>1, <2>4 DEF Resuming, Stays
  <2>6. ASSUME KindOf(r) = KindOf(c) PROVE Kept(KindOf(c), r)'
    <3>1. \A d \in Calls \ {c} : UnderWay(d) => KindOf(d) # KindOf(c)
      <4>1. CASE Begin(c)
        BY <4>1, BeginMoves
      <4>2. CASE ReuseFails(c)
        BY <4>2, ReuseFailsMoves DEF Serial, UnderWay
      <4>. QED BY <2>1, <4>1, <4>2
    <3>2. \A d \in Calls : pc[d] = "start" => KindOf(d) # KindOf(c)
      BY <2>3, <3>1 DEF UnderWay
    <3>3. Kept(KindOf(c), r)
      BY <1>0, <2>1, <2>2, <2>5, <2>6, <3>2 DEF Registered
    <3>4. Leaked(r) => Leaked(r)'
      BY <2>2, LeakedStays
    <3>5. FlowOn(KindOf(c), r)' <=> FlowOn(KindOf(c), r)
      BY <2>1 DEF FlowOn
    <3>. QED BY <3>3, <3>4, <3>5 DEF Kept
  <2>7. held'[c] = r /\ registry' = r
    BY <2>1, <2>2
  <2>. QED BY <2>5, <2>6, <2>7 DEF ProbingOf, Kept, Leaked, FlowOn, Users, HeldBy, Holds
<1>2. CASE pc'[c] = "acquired"
  <2>1. \/ pc[c] = "probe" /\ UNCHANGED registry /\ held'[c] = held[c]
        \/ registry' \in {held'[c], NoCall}
    BY <1>2, ProbeBegins
  <2>2. pc[c] = "probe" /\ registry \notin {held[c], NoCall} => KindOf(registry) # KindOf(c)
    BY <1>0 DEF Probing
  <2>3. pc'[c] # "probe"
    BY <1>2
  <2>. QED BY <2>1, <2>2, <2>3 DEF ProbingOf
<1>3. CASE pc'[c] \notin {"probe", "acquired"}
  BY <1>3 DEF ProbingOf
<1>. QED BY <1>1, <1>2, <1>3

(* Another call, which is of the other kind: what its probe rests on is not  *)
(* taken away, for the count of its own kind keeps the transport registered  *)
LEMMA ProbingOther ==
  ASSUME IInv, Places, Awaiting, Serial, Counted, Registered, Probing, Steady, plan' = plan,
         NEW c \in Calls, Step(c) \/ Begin(c), NEW d \in Calls, d # c
  PROVE  ProbingOf(d)'
<1>0. /\ ~disposed /\ Stays(c) /\ dead \subseteq dead' /\ ready \subseteq Calls
      /\ KindOf(c) \in Kind /\ KindOf(d) \in Kind /\ pc'[d] = pc[d] /\ held'[d] = held[d]
  BY StepFacts, KindFacts, FlowFacts DEF Stays
<1>1. UnderWay(d) => KindOf(d) # KindOf(c)
  <2>1. Step(c) => UnderWay(c)
    BY StepFacts
  <2>2. Begin(c) => \A o \in Calls : UnderWay(o) => KindOf(o) # KindOf(c)
    BY BeginMoves
  <2>. QED BY <2>1, <2>2 DEF Serial
<1>2. Created(c) \/ registry' \in {registry, NoCall}
  <2>1. Releases(c) => registry' \in {registry, NoCall}
    BY <1>0, ReleaseMoves DEF Releases
  <2>. QED BY <2>1, RegistryMoves DEF Retires
<1>3. Created(c) => registry' = c /\ registry = NoCall
  <2>1. Created(c) => registry' = c /\ inFlight = c
    BY OtherMoves DEF Created
  <2>2. inFlight # NoCall => registry = NoCall
    BY DEF Places
  <2>. QED BY <2>1, <2>2, KindFacts
<1>4. ASSUME pc[d] \in {"probe", "acquired"}, registry' \notin {held[d], NoCall}
      PROVE  KindOf(registry') # KindOf(d)
  <2>1. KindOf(d) # KindOf(c)
    BY <1>1, <1>4 DEF UnderWay
  <2>2. CASE Created(c)
    BY <1>3, <2>1, <2>2
  <2>3. CASE registry' = registry
    BY <1>0, <1>4, <2>3 DEF Probing
  <2>. QED BY <1>2, <1>4, <2>2, <2>3
<1>5. ASSUME pc[d] = "probe", NEW h, h = held[d]
      PROVE  /\ pc'[h] # "acquired"
             /\ h \notin dead' => /\ registry' = h \/ Kept(KindOf(d), h)'
                                  /\ KindOf(h) = KindOf(d) => Kept(KindOf(d), h)'
  <2>1. h \in ready /\ h \in Calls /\ h # NoCall
    BY <1>0, <1>5, KindFacts DEF IInv, HeldReady
  <2>2. KindOf(d) # KindOf(c)
    BY <1>1, <1>5 DEF UnderWay
  <2>3. pc[h] # "acquired"
    BY <1>0, <1>5 DEF Probing
  <2>4. pc'[h] # "acquired"
    <3>1. CASE h = c
      BY <2>1, <3>1, ProbeBegins
    <3>2. CASE h # c
      BY <1>0, <2>1, <2>3, <3>2 DEF Stays
    <3>. QED BY <3>1, <3>2
  <2>5. Kept(KindOf(d), h) => Kept(KindOf(d), h)'
    <3>1. Leaked(h) => Leaked(h)'
      BY <2>1, LeakedStays
    <3>2. FlowOn(KindOf(d), h)' <=> FlowOn(KindOf(d), h)
      BY <1>0, <2>2, OthersFlowStays
    <3>. QED BY <3>1, <3>2 DEF Kept
  <2>6. ASSUME h \notin dead', ~Kept(KindOf(d), h)
        PROVE  registry' = h /\ KindOf(h) # KindOf(d)
    <3>1. registry = h /\ KindOf(h) # KindOf(d) /\ h \notin dead
      BY <1>0, <1>5, <2>6 DEF Probing
    <3>2. KindOf(h) = KindOf(c)
      BY <1>0, <2>1, <2>2, <3>1, KindFacts
    <3>3. ~Created(c)
      BY <1>3, <2>1, <3>1
    <3>4. CASE Retires(c)
      <4>1. pc[c] = "probe" /\ held[c] # h
        BY <2>6, <3>4 DEF Retires
      <4>. QED BY <1>0, <2>1, <3>1, <3>2, <4>1 DEF Probing
    <3>5. CASE Releases(c)
      <4>. DEFINE f == connections[KindOf(c)]
      <4>1. pc[c] = "acquired"
        BY <3>5 DEF Releases
      <4>2. held[c] = h
        BY <1>0, <2>1, <3>1, <3>2, <4>1 DEF Probing
      <4>3. ASSUME f # NoCall, refs[on[f]] <= 1 PROVE FALSE
        <5>1. CASE on[f] = h
          <6>1. One(FlowOn(KindOf(c), h)) = 1 /\ One(Holds(c, h)) = 1
            BY <4>1, <4>2, <4>3, <5>1 DEF One, FlowOn, Holds
          <6>2. PICK x \in Nat : Users(h) = One(FlowOn(KindOf(c), h)) + One(Holds(c, h)) + x
            BY <2>1, UsersOf, UsersType
          <6>3. Users(h) >= 2 /\ Users(h) \in Nat
            BY <6>1, <6>2
          <6>4. refs[h] >= Users(h) /\ refs[h] \in Int
            BY <2>1, UserCounts, FlowFacts
          <6>. QED BY <4>3, <5>1, <6>3, <6>4
        <5>2. CASE on[f] # h
          <6>1. ~FlowOn(KindOf(h), h) /\ ~Leaked(h)
            BY <2>6, <3>2, <5>2 DEF FlowOn, Kept
          <6>2. PICK e \in Calls : KindOf(e) = KindOf(h) /\ pc[e] = "start" /\ held[e] = h
            BY <1>0, <2>1, <2>3, <3>1, <6>1 DEF Registered, Kept
          <6>3. e = c
            BY <3>2, <4>1, <6>2 DEF Serial, UnderWay
          <6>. QED BY <4>1, <6>2, <6>3
        <5>. QED BY <5>1, <5>2
      <4>4. registry' = registry
        BY <1>0, <3>5, <4>3, ReleaseMoves DEF Releases
      <4>. QED BY <3>1, <4>4
    <3>6. CASE registry \in dead \cup {NoCall}
      BY <2>1, <3>1, <3>6
    <3>. QED BY <3>1, <3>3, <3>4, <3>5, <3>6, RegistryMoves
  <2>. QED BY <2>4, <2>5, <2>6
<1>6. PICK h : h = held[d]
  OBVIOUS
<1>. QED BY <1>0, <1>4, <1>5, <1>6 DEF ProbingOf, Kept, Leaked, FlowOn, Users, HeldBy, Holds

LEMMA ProbingStep ==
  ASSUME IInv, Places, Awaiting, Serial, Counted, Registered, Probing, plan' = plan,
         NEW c \in Calls, Step(c) \/ Begin(c)
  PROVE  Probing'
<1>. SUFFICES ASSUME Steady PROVE Probing'
  BY DEF Probing, Steady, MayHappen
<1>1. \A d \in Calls : ProbingOf(d)'
  BY ProbingOwn, ProbingOther
<1>2. (\A d \in Calls : ProbingOf(d)) => Probing
  BY DEF ProbingOf, Probing
<1>. QED BY <1>1 DEF ProbingOf, Probing

-----------------------------------------------------------------------------
LEMMA UseInvNext ==
  ASSUME IInv, UseInv, [Next]_vars
  PROVE  UseInv'
<1>1. ASSUME NEW c \in Calls, Step(c) \/ Begin(c), plan' = plan PROVE UseInv'
  <2>1. Places' /\ Awaiting' /\ Serial' /\ Counted'
    BY <1>1, PlacesStep, AwaitingStep, SerialStep, CountedStep DEF UseInv
  <2>2. Unused' /\ Registered' /\ Probing'
    BY <1>1, UnusedStep, RegisteredStep, ProbingStep DEF UseInv
  <2>3. Killed' /\ Ended'
    BY <1>1, StepFacts DEF UseInv, Killed, Ended
  <2>. QED BY <2>1, <2>2, <2>3 DEF UseInv
<1>2. ASSUME NEW t \in Calls, Lose(t) \/ MonitorProbe(t) \/ Unreachable(t), plan' = plan PROVE UseInv'
  <2>1. Killed'
    BY <1>2 DEF UseInv, Killed, Lose, MonitorProbe, Unreachable, MarkDead, trvars
  <2>. QED BY <1>2, <2>1, PlacesUnforced, AwaitingUnforced, SerialUnforced, MarkKeeps DEF UseInv
<1>3. CASE Dispose /\ plan' = plan
  <2>1. Killed'
    BY <1>3 DEF Killed, Dispose
  <2>. QED BY <1>3, <2>1, PlacesUnforced, AwaitingUnforced, SerialUnforced, DisposeKeeps DEF UseInv
<1>4. CASE UNCHANGED vars
  <2>1. /\ UNCHANGED <<pc, held, prev, registry, inFlight, connections, on, flowDead, refs, flows>>
        /\ UNCHANGED <<dead, closed, made, ready, lost, disposed, plan>>
    BY <1>4 DEF vars, trvars
  <2>2. Waking' = Waking /\ (Steady' <=> Steady)
    BY <2>1 DEF Waking, Steady, MayHappen
  <2>3. \A k, t : (Kept(k, t)' <=> Kept(k, t)) /\ Users(t)' = Users(t)
    BY <2>1 DEF Kept, Leaked, Users, FlowOn, HeldBy, Holds
  <2>4. Places' /\ Awaiting'
    BY <2>1, <2>2 DEF UseInv, Places, Awaiting
  <2>5. Serial' /\ Killed' /\ Ended'
    BY <2>1, <2>2 DEF UseInv, Serial, UnderWay, LiveFlow, Killed, Ended, Orderly, Quiet, Open, MayHappen
  <2>6. Counted' /\ Unused'
    BY <2>1, <2>2, <2>3 DEF UseInv, Counted, Unused
  <2>7. Registered' /\ Probing'
    BY <2>1, <2>2, <2>3 DEF UseInv, Registered, Probing
  <2>. QED BY <2>4, <2>5, <2>6, <2>7 DEF UseInv
<1>. QED BY <1>1, <1>2, <1>3, <1>4 DEF Next, Unforced, Step

LEMMA UseInvInit == Init => UseInv
<1>. SUFFICES ASSUME Init PROVE UseInv
  OBVIOUS
<1>1. /\ \A c \in Calls : pc[c] = "idle"
      /\ \A k \in Kind : connections[k] = NoCall
      /\ \A c \in Calls : flows[c] = {}
      /\ ready = {} /\ made = {} /\ closed = {} /\ registry = NoCall /\ inFlight = NoCall
      /\ disposed = FALSE
  BY DEF Init
<1>2. NoCall \notin Calls /\ Waking = {}
  BY <1>1, KindFacts DEF Waking
<1>. QED BY <1>1, <1>2, KindFacts DEF UseInv, Places, Awaiting, Serial, Counted, Unused, Registered, Probing,
     Killed, Ended, LiveFlow, UnderWay, Calls

LEMMA InductiveUse == Spec => []UseInv
<1>1. Init => UseInv BY UseInvInit
<1>2. IInv /\ UseInv /\ [Next]_vars => UseInv' BY UseInvNext
<1>. QED BY <1>1, <1>2, Inductive, PTL DEF Spec

(* As long as calls of one kind come one after the other, a flow that        *)
(* makeConnection() would still serve is on a transport that has not been    *)
(* torn down, through every death, late probe, failed start and replacement. *)
THEOREM FlowsStayOpen == Spec => []LiveFlowOpen
<1>1. ASSUME IInv, UseInv PROVE LiveFlowOpen
  <2>. SUFFICES ASSUME Steady, NEW k \in Kind, LiveFlow(connections[k]), on[connections[k]] \in closed
                PROVE  FALSE
    BY DEF LiveFlowOpen, Steady
  <2>1. PICK t : t = on[connections[k]]
    OBVIOUS
  <2>2. connections[k] # NoCall /\ t \in closed \ dead
    BY <2>1 DEF LiveFlow
  <2>3. t \in ready /\ FlowOn(k, t) /\ ~disposed
    BY <1>1, <2>1, <2>2 DEF IInv, ClosedWereReady, FlowOn, UseInv, Killed
  <2>4. refs[t] >= 1 /\ refs[t] \in Int
    BY <1>1, <2>3, UserCounts, FlowFacts DEF UseInv, Kept
  <2>5. refs[t] <= 0
    BY <1>1, <2>2, <2>3 DEF UseInv, Unused
  <2>. QED BY <2>4, <2>5
<1>. QED BY <1>1, Inductive, InductiveUse, PTL

(* A transport that is open is registered, held by a call under way or used  *)
(* by a flow, unless something has thrown.                                   *)
THEOREM NothingOrphaned == Spec => []NoneOrphaned
<1>1. ASSUME IInv, UseInv PROVE NoneOrphaned
  <2>. SUFFICES ASSUME Orderly, NEW t \in made, t \notin closed, ~disposed
                PROVE  \/ \E c \in Calls : UnderWay(c) /\ held[c] = t
                       \/ \E k \in Kind : connections[k] # NoCall /\ on[connections[k]] = t
    BY DEF NoneOrphaned, Open
  <2>1. t \in Calls /\ pc[t] # "failed" /\ Steady /\ \A c \in Calls : pc[c] # "failed"
    BY <1>1 DEF IInv, TypeOK, Orderly, Steady
  <2>2. CASE t \notin ready
    BY <1>1, <2>1, <2>2 DEF UseInv, Places, IInv, HeldReady, UnderWay
  <2>3. CASE t \in ready
    <3>1. refs[t] >= 1 /\ refs[t] = Users(t)
      BY <1>1, <2>1, <2>3 DEF UseInv, Places, Counted
    <3>2. FlowOn("resolve", t) \/ FlowOn("execServer", t) \/ HeldBy("resolve", t) \/ HeldBy("execServer", t)
      BY <3>1 DEF Users, One
    <3>. QED BY <3>2, KindFacts DEF FlowOn, HeldBy, Holds, UnderWay
  <2>. QED BY <2>2, <2>3
<1>. QED BY <1>1, Inductive, InductiveUse, PTL

(* After deactivate with no call under way, and nothing having thrown, every *)
(* connection the window made is closed.                                     *)
THEOREM DisposeIsComplete == Spec => []DisposeClosesAll
<1>1. UseInv => DisposeClosesAll
  BY DEF UseInv, Ended, DisposeClosesAll
<1>. QED BY <1>1, InductiveUse, PTL

(* Between calls, and nothing having thrown, a transport's refcount is the   *)
(* number of the flows it holds.                                             *)
THEOREM RefcountIsFlows == Spec => []RefsAreFlows
<1>1. ASSUME IInv, UseInv PROVE RefsAreFlows
  <2>. SUFFICES ASSUME Orderly, Quiet, NEW t \in ready PROVE refs[t] = Cardinality(flows[t])
    BY DEF RefsAreFlows
  <2>1. /\ Steady /\ \A c \in Calls : pc[c] \notin {"acquired", "start", "failed"}
    BY DEF Orderly, Quiet, UnderWay, Steady
  <2>2. refs[t] = Users(t)
    BY <1>1, <2>1 DEF UseInv, Counted
  <2>3. ~HeldBy("resolve", t) /\ ~HeldBy("execServer", t)
    BY <2>1 DEF HeldBy, Holds
  <2>4. PICK n \in Nat : n = One(FlowOn("resolve", t)) + One(FlowOn("execServer", t))
    BY DEF One
  <2>5. Users(t) = n
    BY <2>3, <2>4 DEF Users, One
  <2>6. flows[t] = {f \in {connections[k] : k \in Kind} \ {NoCall} : on[f] = t}
    <3>1. t \in Calls /\ flows[t] \subseteq Calls /\ NoCall \notin Calls
      BY <1>1, FlowFacts, KindFacts DEF UseInv, IInv, TypeOK
    <3>2. \A f \in Calls : f \in flows[t] <=> on[f] = t /\ \E k \in Kind : connections[k] = f
      BY <1>1, <2>1, <3>1 DEF UseInv, Counted
    <3>3. \A k \in Kind : connections[k] # NoCall => connections[k] \in Calls
      BY <1>1, FlowFacts DEF UseInv
    <3>. QED BY <3>1, <3>2, <3>3
  <2>7. Cardinality(flows[t]) = n
    BY <1>1, <2>4, <2>6, FlowCount DEF UseInv
  <2>. QED BY <2>2, <2>5, <2>7
<1>. QED BY <1>1, Inductive, InductiveUse, PTL

-----------------------------------------------------------------------------
(* One transport, as long as no connection dies and no probe is late         *)

Healthy == plan.faults \subseteq {"fail", "overlap"}

(* The calls that were handed a transport, and the registered flows.  Calls  *)
(* may overlap, so a flow may be registered over another: the count is at    *)
(* least that of these.                                                      *)
Holders == {c \in Calls : pc[c] \in {"acquired", "recheck", "start"}}
Registereds == {connections[k] : k \in Kind} \ {NoCall}
Claims == Holders \cup Registereds

Alone ==
  Healthy =>
    /\ dead = {} /\ lost = {}
    /\ \A s, t \in ready : s = t
    /\ ~disposed => /\ closed = {} /\ ready \subseteq {registry}
                    /\ IsFiniteSet(Claims)
                    /\ ready # {} => refs[registry] >= Cardinality(Claims)

LEMMA AddClaim ==
  ASSUME NEW S, IsFiniteSet(S), NEW r \in Int, r >= Cardinality(S), NEW c
  PROVE  /\ IsFiniteSet(S \cup {c}) /\ r + 1 >= Cardinality(S \cup {c})
<1>1. Cardinality(S) \in Nat
  BY FS_CardinalityType
<1>2. /\ IsFiniteSet(S \cup {c})
      /\ Cardinality(S \cup {c}) = Cardinality(S) \/ Cardinality(S \cup {c}) = Cardinality(S) + 1
  BY FS_AddElement
<1>. QED BY <1>1, <1>2

LEMMA DropClaim ==
  ASSUME NEW S, IsFiniteSet(S), NEW r \in Int, r >= Cardinality(S), NEW f \in S, NEW c \in S, c # f
  PROVE  /\ IsFiniteSet(S \ {f}) /\ r - 1 >= Cardinality(S \ {f}) /\ ~(r <= 1)
<1>1. Cardinality(S) \in Nat
  BY FS_CardinalityType
<1>2. IsFiniteSet(S \ {f}) /\ Cardinality(S \ {f}) = Cardinality(S) - 1
  BY FS_RemoveElement
<1>3. c \in S \ {f} /\ Cardinality(S \ {f}) \in Nat
  BY <1>2, FS_CardinalityType
<1>4. Cardinality(S \ {f}) # 0
  BY <1>2, <1>3, FS_EmptySet
<1>. QED BY <1>1, <1>2, <1>3, <1>4

LEMMA FewerClaims ==
  ASSUME NEW S, IsFiniteSet(S), NEW r \in Int, r >= Cardinality(S), NEW T \in SUBSET S
  PROVE  IsFiniteSet(T) /\ r >= Cardinality(T)
<1>1. IsFiniteSet(T) /\ Cardinality(T) <= Cardinality(S) /\ Cardinality(S) \in Nat /\ Cardinality(T) \in Nat
  BY FS_Subset, FS_CardinalityType
<1>. QED BY <1>1

(* Without a transport nobody has a claim *)
LEMMA NoClaims ==
  ASSUME IInv, Places
  PROVE  /\ ready = {} => Claims = {}
         /\ \A c \in Claims : c \in Calls
         /\ \A k \in Kind : connections[k] # NoCall => on[connections[k]] \in ready
         /\ \A c \in Holders : held[c] \in ready
         /\ Holders \cap Registereds = {}
BY FlowFacts, KindFacts DEF Claims, Holders, Registereds, IInv, HeldReady

LEMMA AloneStep ==
  ASSUME IInv, Places, Awaiting, Alone, plan' = plan, NEW c \in Calls, Step(c) \/ Begin(c)
  PROVE  Alone'
<1>. SUFFICES ASSUME Healthy PROVE Alone'
  BY DEF Alone, Healthy
<1>0. ~disposed /\ Stays(c) /\ refs \in [Calls -> Int] /\ ready \subseteq Calls
  BY StepFacts, FlowFacts
<1>1. /\ dead = {} /\ lost = {} /\ closed = {} /\ ready \subseteq {registry} /\ IsFiniteSet(Claims)
      /\ ready # {} => refs[registry] >= Cardinality(Claims)
  BY <1>0 DEF Alone
<1>2. ~ReuseFails(c) /\ ~ProbeFails(c) /\ ~RecheckFails(c)
  <2>1. \A t : ~ProbeMay(t, FALSE)
    BY <1>1 DEF ProbeMay, MayHappen, Healthy
  <2>. QED BY <2>1 DEF ReuseFails, ProbeFails, RecheckFails
<1>3. dead' = dead /\ lost' = lost
  BY <1>2 DEF Step, Begin, ReuseAlive, ProbeAlive, Connect, Created, CreateFails, Wake, Resume, ResumeExec,
              RecheckAlive, Started, StartFails, trvars
<1>4. ready = {} => Claims = {}
  BY NoClaims
<1>5. ASSUME ready # {} PROVE registry \in ready /\ registry \in Calls /\ refs[registry] \in Int
  BY <1>0, <1>1, <1>5
<1>6. ASSUME UNCHANGED <<ready, registry, closed, refs>>, Claims' \subseteq Claims PROVE Alone'
  <2>1. IsFiniteSet(Claims')
    BY <1>1, <1>6, FS_Subset
  <2>2. ready # {} => refs[registry] >= Cardinality(Claims')
    BY <1>1, <1>5, <1>6, FewerClaims
  <2>. QED BY <1>1, <1>3, <1>6, <2>1, <2>2 DEF Alone
<1>7. ASSUME held[c] \in ready, UNCHANGED <<ready, registry, closed>>, Claims' \subseteq Claims \cup {c},
             refs' = [refs EXCEPT ![held[c]] = refs[held[c]] + 1]
      PROVE  Alone'
  <2>1. held[c] = registry /\ registry \in Calls /\ refs'[registry] = refs[registry] + 1 /\ refs[registry] \in Int
    BY <1>0, <1>1, <1>7
  <2>2. PICK r \in Int : r = refs[registry]
    BY <2>1
  <2>3. r >= Cardinality(Claims)
    BY <1>1, <1>7, <2>2
  <2>4. IsFiniteSet(Claims \cup {c}) /\ r + 1 >= Cardinality(Claims \cup {c}) /\ r + 1 \in Int
    BY <1>1, <2>3, AddClaim
  <2>5. IsFiniteSet(Claims') /\ r + 1 >= Cardinality(Claims')
    BY <1>7, <2>4, FewerClaims
  <2>. QED BY <1>1, <1>3, <1>7, <2>1, <2>2, <2>5 DEF Alone
<1>8. ASSUME NEW k \in Kind, c \in Holders, Release(connections[k]), UNCHANGED ready,
             Claims' \subseteq Claims \ {connections[k]}
      PROVE  Alone'
  <2>1. PICK f : f = connections[k]
    OBVIOUS
  <2>2. CASE f = NoCall
    <3>1. UNCHANGED <<refs, closed, registry>>
      BY <1>8, <2>1, <2>2, FlowFacts, KindFacts DEF Release
    <3>. QED BY <1>6, <1>8, <3>1
  <2>3. CASE f # NoCall
    <3>1. f \in Claims /\ c \in Claims /\ c # f /\ on[f] \in ready
      BY <1>8, <2>1, <2>3, NoClaims DEF Claims, Registereds
    <3>2. on[f] = registry /\ registry \in Calls /\ ready # {}
      BY <1>1, <1>5, <3>1
    <3>3. PICK r \in Int : r = refs[registry]
      BY <1>5, <3>2
    <3>4. r >= Cardinality(Claims)
      BY <1>1, <3>2, <3>3
    <3>5. IsFiniteSet(Claims \ {f}) /\ r - 1 >= Cardinality(Claims \ {f}) /\ ~(r <= 1) /\ r - 1 \in Int
      BY <1>1, <3>1, <3>4, DropClaim
    <3>6. IsFiniteSet(Claims') /\ r - 1 >= Cardinality(Claims')
      BY <1>8, <2>1, <3>5, FewerClaims
    <3>7. /\ refs' = [refs EXCEPT ![registry] = r - 1] /\ UNCHANGED <<closed, registry>>
      BY <1>8, <2>1, <2>3, <3>2, <3>3, <3>5 DEF Release
    <3>8. refs'[registry] = r - 1
      BY <1>0, <3>2, <3>7
    <3>. QED BY <1>1, <1>3, <1>8, <3>6, <3>7, <3>8 DEF Alone
  <2>. QED BY <2>2, <2>3
<1>9. \A d \in Calls \ {c} : d \in Holders' <=> d \in Holders
  BY <1>0 DEF Holders, Stays
<1>10. Holders \subseteq Calls /\ Holders' \subseteq Calls
  BY DEF Holders
<1>11. CASE Created(c)
  <2>1. /\ UNCHANGED <<connections, closed>> /\ ready' = ready \cup {c} /\ registry' = c
        /\ refs' = [refs EXCEPT ![c] = 1] /\ inFlight = c
    BY <1>11, OtherMoves DEF Created
  <2>2. ready = {} /\ Claims = {}
    BY <1>0, <1>1, <1>4, <2>1, KindFacts DEF Places
  <2>3. Claims' \subseteq {c}
    BY <1>9, <1>10, <2>1, <2>2 DEF Claims, Registereds
  <2>4. IsFiniteSet({c}) /\ Cardinality({c}) = 1 /\ refs'[c] = 1
    BY <1>0, <2>1, FS_Singleton
  <2>5. IsFiniteSet(Claims') /\ 1 >= Cardinality(Claims')
    BY <2>3, <2>4, FewerClaims
  <2>. QED BY <1>1, <1>3, <2>1, <2>2, <2>4, <2>5 DEF Alone
<1>12. CASE Begin(c)
  <2>1. /\ UNCHANGED <<connections, ready, refs>> /\ c \notin Holders
        /\ Reuses(c) \/ Probes(c) \/ Joins(c) \/ (Creates(c, registry) /\ registry \in dead \cup {NoCall})
    BY <1>12, BeginMoves DEF trvars, Holders
  <2>2. UNCHANGED <<registry, closed>> /\ pc'[c] \in {"reuse", "probe", "await", "create"}
    BY <1>1, <2>1 DEF Reuses, Probes, Joins, Creates
  <2>3. Claims' \subseteq Claims
    BY <1>9, <1>10, <2>1, <2>2 DEF Claims, Registereds, Holders
  <2>. QED BY <1>6, <2>1, <2>2, <2>3
<1>13. CASE Wake(c)
  <2>1. UNCHANGED <<connections, ready>> /\ (Handed(c) \/ Refused(c))
    BY <1>1, <1>13, WakeMoves DEF trvars
  <2>2. CASE Handed(c)
    <3>1. Claims' \subseteq Claims \cup {c}
      BY <1>9, <1>10, <2>1 DEF Claims, Registereds
    <3>. QED BY <1>7, <2>1, <2>2, <3>1 DEF Handed
  <2>3. CASE Refused(c)
    <3>1. Claims' \subseteq Claims
      BY <1>9, <1>10, <2>1, <2>3 DEF Claims, Registereds, Holders, Refused
    <3>. QED BY <1>6, <2>1, <2>3, <3>1 DEF Refused
  <2>. QED BY <2>1, <2>2, <2>3
<1>14. CASE ProbeAlive(c)
  <2>1. /\ UNCHANGED <<connections, ready, registry, closed>> /\ held[c] \in ready
        /\ refs' = [refs EXCEPT ![held[c]] = refs[held[c]] + 1]
    BY <1>14, OtherMoves DEF ProbeAlive, trvars
  <2>2. Claims' \subseteq Claims \cup {c}
    BY <1>9, <1>10, <2>1 DEF Claims, Registereds
  <2>. QED BY <1>7, <2>1, <2>2
<1>15. CASE Resume(c)
  <2>. DEFINE f == connections["resolve"]
  <2>1. /\ c \in Holders /\ ready' = ready /\ pc'[c] = IF LiveFlow(f) THEN "recheck" ELSE "start"
    BY <1>15, OtherMoves DEF Resume, trvars, Holders
  <2>2. CASE LiveFlow(f)
    <3>1. UNCHANGED <<connections, refs, closed, registry>>
      BY <1>15, <2>2 DEF Resume
    <3>2. Claims' \subseteq Claims
      BY <1>9, <1>10, <2>1, <3>1 DEF Claims, Registereds
    <3>. QED BY <1>6, <2>1, <3>1, <3>2
  <2>3. CASE ~LiveFlow(f)
    <3>1. connections' = [connections EXCEPT !["resolve"] = NoCall] /\ Release(f)
      BY <1>15, <2>3 DEF Resume, KillConnection
    <3>2. connections'["resolve"] = NoCall /\ connections'["execServer"] = connections["execServer"]
      BY <3>1, FlowFacts, KindFacts
    <3>3. f # NoCall => f # connections["execServer"]
      BY FlowFacts, KindFacts
    <3>4. Registereds' \subseteq Registereds \ {f}
      BY <3>2, <3>3, KindFacts DEF Registereds
    <3>5. f \notin Holders'
      <4>1. f \in Holders' => f \in Holders /\ f # NoCall
        BY <1>9, <1>10, <2>1, KindFacts
      <4>. QED BY <4>1, NoClaims, KindFacts DEF Registereds
    <3>6. Claims' \subseteq Claims \ {f}
      BY <1>9, <1>10, <2>1, <3>4, <3>5 DEF Claims
    <3>. QED BY <1>8, <2>1, <3>1, <3>6, KindFacts
  <2>. QED BY <2>2, <2>3
<1>16. CASE ResumeExec(c)
  <2>. DEFINE g == connections["execServer"]
  <2>1. c \in Holders /\ ready' = ready /\ pc'[c] = "done"
    BY <1>16, OtherMoves DEF ResumeExec, trvars, Holders
  <2>2. connections' = [connections EXCEPT !["execServer"] = c] /\ Release(g)
    BY <1>16 DEF ResumeExec
  <2>3. connections'["execServer"] = c /\ connections'["resolve"] = connections["resolve"]
    BY <2>2, FlowFacts, KindFacts
  <2>4. g # NoCall => g # connections["resolve"]
    BY FlowFacts, KindFacts
  <2>5. Registereds' \subseteq (Registereds \ {g}) \cup {c}
    BY <2>3, <2>4, KindFacts DEF Registereds
  <2>6. g \notin Holders /\ c # g
    BY <2>1, NoClaims, KindFacts DEF Registereds, Holders
  <2>7. c \notin Holders'
    BY <2>1 DEF Holders
  <2>8. Claims' \subseteq Claims \ {g}
    BY <1>9, <1>10, <2>1, <2>5, <2>6, <2>7 DEF Claims
  <2>. QED BY <1>8, <2>1, <2>2, <2>8, KindFacts
<1>17. CASE Started(c)
  <2>1. /\ UNCHANGED <<ready, registry, closed, refs>> /\ c \in Holders
        /\ connections' = [connections EXCEPT !["resolve"] = c]
    BY <1>17 DEF Started, trvars, Holders
  <2>2. Registereds' \subseteq Registereds \cup {c}
    BY <2>1, FlowFacts, KindFacts DEF Registereds
  <2>3. Claims' \subseteq Claims
    BY <1>9, <1>10, <2>1, <2>2 DEF Claims
  <2>. QED BY <1>6, <2>1, <2>3
<1>18. CASE ReuseAlive(c) \/ Connect(c) \/ CreateFails(c) \/ RecheckAlive(c) \/ StartFails(c)
  <2>1. UNCHANGED <<ready, registry, closed, refs, connections>>
    BY <1>18 DEF ReuseAlive, Connect, CreateFails, RecheckAlive, StartFails, trvars
  <2>2. c \notin Holders'
    <3>1. CASE Connect(c)
      BY <3>1 DEF Connect, Holders
    <3>2. CASE ~Connect(c)
      BY <1>18, <3>2, OtherMoves DEF Holders
    <3>. QED BY <3>1, <3>2
  <2>3. Claims' \subseteq Claims
    BY <1>9, <1>10, <2>1, <2>2 DEF Claims, Registereds
  <2>. QED BY <1>6, <2>1, <2>3
<1>. QED BY <1>2, <1>11, <1>12, <1>13, <1>14, <1>15, <1>16, <1>17, <1>18 DEF Step

LEMMA AloneNext ==
  ASSUME IInv, Places, Awaiting, Alone, [Next]_vars
  PROVE  Alone'
<1>1. ASSUME NEW c \in Calls, Step(c) \/ Begin(c), plan' = plan PROVE Alone'
  BY <1>1, AloneStep
<1>2. ASSUME NEW t \in Calls, Lose(t) \/ MonitorProbe(t) \/ Unreachable(t), plan' = plan PROVE Alone'
  <2>1. ~Healthy
    BY <1>2 DEF Alone, Healthy, Lose, MonitorProbe, Unreachable, MayHappen, Event
  <2>. QED BY <1>2, <2>1 DEF Alone, Healthy
<1>3. CASE Dispose /\ plan' = plan
  BY <1>3 DEF Dispose, Alone, Healthy
<1>4. CASE UNCHANGED vars
  BY <1>4 DEF Alone, Healthy, Claims, Holders, Registereds, vars, trvars
<1>. QED BY <1>1, <1>2, <1>3, <1>4 DEF Next, Unforced, Step

(* "One ssh session + one Go transport per authority": while no connection   *)
(* dies and no probe is late, two transports of the window are never both    *)
(* open and alive, whatever calls overlap and whatever creations and server  *)
(* starts throw.                                                             *)
THEOREM OneTransportWhileHealthy == Spec => []OneHealthyTransport
<1>1. Init => Alone
  <2>1. ASSUME Init PROVE Alone
    <3>1. \A c \in Calls : pc[c] = "idle"
      BY <2>1 DEF Init
    <3>2. \A k \in Kind : connections[k] = NoCall
      BY <2>1 DEF Init
    <3>3. Claims = {}
      BY <3>1, <3>2 DEF Claims, Holders, Registereds
    <3>. QED BY <2>1, <3>3, FS_EmptySet DEF Init, Alone
  <2>. QED BY <2>1
<1>2. IInv /\ UseInv /\ Alone /\ [Next]_vars => Alone'
  BY AloneNext DEF UseInv
<1>3. Alone => OneHealthyTransport
  BY DEF Alone, Healthy, OneHealthyTransport, OneTransport
<1>. QED BY <1>1, <1>2, <1>3, Inductive, InductiveUse, PTL DEF Spec

=============================================================================
