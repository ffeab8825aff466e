------------------------ MODULE DirectConnection_proofs ------------------------
(***************************************************************************)
(* Theorems about DirectConnection, for any number of resolves and restarts  *)
(* and any courses of events.                                               *)
(*                                                                          *)
(* A transport's monitor has one probe at a time (OneProbe), and one that is *)
(* on its way to a restart, or in it, began when the forward was gone and    *)
(* nothing brings that one back (RepairsTheDead).  So the forward that a     *)
(* restart spawns finds no other, and one that is neither in use nor coming  *)
(* up was left behind by a restart that failed (LeftBehind).                 *)
(***************************************************************************)
EXTENDS DirectConnection, TLAPS

(* Resolves come one after the other *)
InTurn == \A c, d \in Calls : c < d /\ pc[d] # "idle" => Over(c)

(* What a resolve has made when it stands there *)
Progress ==
  \A c \in Calls :
    /\ pc[c] \in {"idle", "connect"} =>
         forward[c] = None /\ probes[c] = {} /\ \A k \in Forwards : proc[c][k] = "none"
    /\ pc[c] = "forward" => forward[c] = 1 /\ probes[c] = {}
    /\ pc[c] \notin {"idle", "connect", "failed"} => forward[c] # None
    /\ pc[c] \in {"idle", "connect", "forward"} => monitor[c] = "off"

(* One flow is registered, one that was is torn down *)
Registered ==
  /\ registered # None => pc[registered] = "done" /\ registered \notin closed
  /\ \A c \in Calls :
       /\ pc[c] \in {"lock", "server", "finalize"} => registered = None
       /\ pc[c] = "done" => registered = c \/ c \in closed
       /\ c \in closed => pc[c] = "done"

OneProbe == \A c \in Calls : \A p, q \in probes[c] : p = q

Spawned ==
  \A c \in Calls, k \in Forwards :
    k = forward[c] \/ k \in probes[c] => proc[c][k] # "none"

RepairsTheDead == \A c \in Calls : \A p \in probes[c] : p # Verify => ~ForwardAlive(c)

LeftBehind ==
  \A c \in Calls, k \in Forwards :
    proc[c][k] \in Running =>
      k = forward[c] \/ k \in probes[c] \/ (c \in dead /\ probes[c] = {})

(* A transport torn down while no probe ran is left alone *)
TornDown ==
  \A c \in closed \ interrupted : probes[c] = {} /\ ~ForwardAlive(c)

IInv == /\ TypeOK /\ InTurn /\ Progress /\ Registered /\ OneProbe /\ Spawned
        /\ RepairsTheDead /\ LeftBehind /\ TornDown /\ OneForward

-----------------------------------------------------------------------------
(* What the actions do to the part of the state the invariant is about *)

resolveVars == <<pc, registered, closed, interrupted, monitor>>
core == <<resolveVars, proc, forward, probes, dead>>

(* A probe of c is asked for: one begins, the transport is dead, or nothing  *)
Asks(c) ==
  \/ probes' = probes /\ dead' \in {dead, dead \cup {c}}
  \/ /\ probes[c] = {} /\ c \notin dead \cup closed
     /\ probes' = [probes EXCEPT ![c] = {IF ForwardAlive(c) THEN Verify ELSE Reach}]
     /\ dead' = dead

LEMMA TriggerFacts ==
  ASSUME TypeOK, NEW c \in Calls, NEW quiet, TriggerProbe(c, quiet)
  PROVE  Asks(c) /\ recent' \in {recent, recent \cup {c}, recent \ {c}}
<1>1. probes[c] = {} => [probes EXCEPT ![c] = @ \cup {IF ForwardAlive(c) THEN Verify ELSE Reach}]
                          = [probes EXCEPT ![c] = {IF ForwardAlive(c) THEN Verify ELSE Reach}]
  OBVIOUS
<1>. QED BY <1>1 DEF TriggerProbe, ProbeAndRepair, Asks

LEMMA AskFacts ==
  ASSUME TypeOK, NEW c \in Calls, Focus(c) \/ Wake(c) \/ Periodic(c)
  PROVE  /\ Asks(c) /\ UNCHANGED <<resolveVars, proc, forward>>
         /\ recent' \in {recent, recent \cup {c}, recent \ {c}}
<1>1. \E quiet : TriggerProbe(c, quiet)
  BY DEF Focus, Wake, Periodic
<1>2. UNCHANGED <<resolveVars, proc, forward>>
  BY DEF Focus, Wake, Periodic, flowVars, fwdVars, resolveVars
<1>. QED BY <1>1, <1>2, TriggerFacts

LEMMA QuietFacts ==
  ASSUME \/ \E c \in Calls : Calm(c) \/ Rearm(c) \/ CloseServer(c) \/ ServerMute(c)
         \/ Sleep \/ Lose \/ UNCHANGED vars
  PROVE  UNCHANGED core
  BY DEF Calm, Rearm, CloseServer, ServerMute, Sleep, Lose, vars, flowVars,
     downVars, fwdVars, monVars, core, resolveVars

(* The steps of a resolve that move it on and touch no forward *)
MovesOn(c) ==
  /\ UNCHANGED <<registered, closed, interrupted, monitor, proc, forward, probes, dead>>
  /\ pc' = [pc EXCEPT ![c] = pc'[c]]
  /\ \/ pc[c] = "idle" /\ pc'[c] = "connect" /\ \A d \in Calls : d < c => Over(d)
     \/ pc[c] = "recheck" /\ pc'[c] = "probe"
     \/ pc[c] = "probe" /\ pc'[c] = "reused"
     \/ pc[c] = "lock" /\ pc'[c] \in {"finalize", "server"}
     \/ pc[c] = "server" /\ pc'[c] \in {"finalize", "failed"}

LEMMA MoveFacts ==
  ASSUME TypeOK, NEW c \in Calls,
         \/ Resolve(c) \/ Recheck(c) \/ Reuse(c) \/ FindServer(c) \/ ServerListens(c) \/ ServerFails(c)
  PROVE  MovesOn(c)
  BY DEF Resolve, Recheck, Reuse, FindServer, ServerListens, ServerFails, TypeOK, MovesOn,
     downVars, fwdVars, monVars

(* killConnection() of the registered flow, if there is one *)
LEMMA ReplaceFacts ==
  ASSUME TypeOK, Progress, Registered, NEW c \in Calls, Replace(c)
  PROVE  /\ pc[c] \in {"recheck", "probe"} /\ pc' = [pc EXCEPT ![c] = "lock"]
         /\ registered' = None /\ UNCHANGED <<forward, probes, dead>>
         /\ \/ registered = None /\ UNCHANGED <<closed, interrupted, monitor, proc>>
            \/ /\ registered \in Calls
               /\ closed' = closed \cup {registered}
               /\ interrupted' = IF probes[registered] # {}
                                 THEN interrupted \cup {registered} ELSE interrupted
               /\ monitor' = [monitor EXCEPT ![registered] = "stopped"]
               /\ \A d \in Calls, k \in Forwards :
                    proc'[d][k] = IF d = registered /\ k = forward[d]
                                  THEN Killed(proc[d][k]) ELSE proc[d][k]
<1>1. CASE registered = None
  BY <1>1 DEF Replace
<1>2. CASE registered # None
  <2>1. registered \in Calls /\ forward[registered] \in Forwards
    BY <1>2 DEF TypeOK, Progress, Registered
  <2>2. KillConnection(registered)
    BY <1>2 DEF Replace
  <2>3. proc' = [proc EXCEPT ![registered][forward[registered]] = Killed(@)]
    BY <2>2 DEF KillConnection
  <2>4. \A d \in Calls, k \in Forwards :
          proc'[d][k] = IF d = registered /\ k = forward[d]
                        THEN Killed(proc[d][k]) ELSE proc[d][k]
    BY <2>1, <2>3 DEF TypeOK
  <2>. QED BY <1>2, <2>1, <2>2, <2>4 DEF Replace, KillConnection
<1>. QED BY <1>1, <1>2

-----------------------------------------------------------------------------
LEMMA ChildFacts ==
  /\ Running \subseteq Child
  /\ {"none", "killed", "exited", "closed", "starting", "up"} \subseteq Child
  /\ \A p \in Child : Killed(p) \in Child
  /\ \A p \in Child \cup {"mute"} : Killed(p) \in Child \cup {"mute"}
  /\ {"none", "killed", "exited", "closed"} \cap Running = {} /\ {"starting", "up"} \subseteq Running
  /\ \A p : Killed(p) \notin Running
  /\ \A p : Killed(p) = "none" <=> p = "none"
  BY DEF Running, Child, Killed

LEMMA ProcType ==
  ASSUME proc \in [Calls -> [Forwards -> Child]], NEW c \in Calls, NEW k \in Forwards,
         NEW p \in Child, proc' = [proc EXCEPT ![c][k] = p]
  PROVE  proc' \in [Calls -> [Forwards -> Child]]
<1>1. [proc[c] EXCEPT ![k] = p] \in [Forwards -> Child]
  OBVIOUS
<1>. QED BY <1>1

LEMMA TypeStep == TypeOK /\ Progress /\ Registered /\ [Next]_vars => TypeOK'
<1>. SUFFICES ASSUME TypeOK, Progress, Registered, [Next]_vars PROVE TypeOK'
  OBVIOUS
<1>. USE DEF TypeOK, flowVars, downVars, fwdVars, monVars
<1>0. /\ {Verify, Reach} \cap Forwards = {} /\ Verify # Reach /\ None \notin Forwards \cup Calls
      /\ 1 \in Forwards
  BY BoundsAssumption DEF Verify, Reach, None, Forwards, Calls
<1>1. ASSUME NEW c \in Calls, UNCHANGED plan,
             \/ Resolve(c) \/ Recheck(c) \/ Reuse(c) \/ FindServer(c) \/ ServerListens(c)
             \/ Register(c) \/ CloseServer(c) \/ ServerMute(c)
      PROVE  TypeOK'
  <2>1. server' \in [Calls -> Child \cup {"mute"}]
    BY ChildFacts, <1>1 DEF Resolve, Recheck, Reuse, FindServer, ServerListens, Register,
       CloseServer, ServerMute
  <2>2. UNCHANGED <<downVars, fwdVars, monVars, plan>> /\ lost' = lost
        /\ flowDead' \subseteq Calls /\ registered' \in {registered, c}
    BY <1>1 DEF Resolve, Recheck, Reuse, FindServer, ServerListens, Register, CloseServer, ServerMute
  <2>3. pc' = [pc EXCEPT ![c] = "connect"] \/ pc' = [pc EXCEPT ![c] = "reused"]
        \/ pc' = [pc EXCEPT ![c] = "probe"]
        \/ pc' = [pc EXCEPT ![c] = "finalize"] \/ pc' = [pc EXCEPT ![c] = "server"]
        \/ pc' = [pc EXCEPT ![c] = "done"] \/ pc' = pc
    BY <1>1 DEF Resolve, Recheck, Reuse, FindServer, ServerListens, Register, CloseServer, ServerMute
  <2>. QED BY <2>1, <2>2, <2>3
<1>2. ASSUME NEW c \in Calls, UNCHANGED plan, ServerFails(c) PROVE TypeOK'
  BY <1>0, ChildFacts, <1>2 DEF ServerFails
<1>3. ASSUME NEW c \in Calls, UNCHANGED plan, StartSocksForward(c) \/ Created(c)
      PROVE  TypeOK'
  <2>1. proc' \in [Calls -> [Forwards -> Child]]
    <3>1. "starting" \in Child /\ (IF proc[c][1] = "starting" THEN "up" ELSE proc[c][1]) \in Child
      BY <1>0, ChildFacts
    <3>2. \/ proc' = [proc EXCEPT ![c][1] = "starting"]
          \/ proc' = [proc EXCEPT ![c][1] = IF proc[c][1] = "starting" THEN "up" ELSE proc[c][1]]
      BY <1>3 DEF StartSocksForward, Created
    <3>3. \A p \in Child : proc' = [proc EXCEPT ![c][1] = p]
                           => proc' \in [Calls -> [Forwards -> Child]]
      BY <1>0, ProcType
    <3>. QED BY <3>1, <3>2, <3>3
  <2>2. forward' \in [Calls -> Forwards \cup {None}]
    BY <1>0, <1>3 DEF StartSocksForward, Created
  <2>. QED BY <1>3, <2>1, <2>2 DEF StartSocksForward, Created
<1>4. ASSUME NEW c \in Calls, UNCHANGED plan, Replace(c) PROVE TypeOK'
  <2>1. CASE registered = None
    BY <1>4, <2>1 DEF Replace
  <2>2. CASE registered # None
    <3>1. registered \in Calls /\ forward[registered] \in Forwards
      BY <2>2 DEF Progress, Registered
    <3>2. KillConnection(registered)
      BY <1>4, <2>2 DEF Replace
    <3>3. proc' \in [Calls -> [Forwards -> Child]]
      BY <1>0, ChildFacts, <3>1, <3>2 DEF KillConnection
    <3>4. server' \in [Calls -> Child \cup {"mute"}]
      BY <1>0, ChildFacts, <3>1, <3>2 DEF KillConnection
    <3>5. /\ monitor' = [monitor EXCEPT ![registered] = "stopped"]
          /\ tick' = [tick EXCEPT ![registered] = IF @ = "armed" THEN "off" ELSE @]
          /\ closed' = closed \cup {registered} /\ gap' = gap \ {registered}
          /\ interrupted' \subseteq interrupted \cup {registered} /\ registered' = None
      BY <3>2 DEF KillConnection
    <3>6. /\ pc' = [pc EXCEPT ![c] = "lock"] /\ UNCHANGED <<dead, forward, probes, recent, lost>>
          /\ flowDead' = flowDead \cup {registered}
      BY <1>4, <2>2 DEF Replace
    <3>. QED BY <1>4, <3>1, <3>3, <3>4, <3>5, <3>6
  <2>. QED BY <2>1, <2>2
<1>5. ASSUME NEW c \in Calls, UNCHANGED plan, ResolveFails(c) PROVE TypeOK'
  <2>1. server' \in [Calls -> Child \cup {"mute"}]
    BY <1>0, ChildFacts, <1>5 DEF ResolveFails
  <2>2. proc' \in [Calls -> [Forwards -> Child]]
    <3>1. proc[c][1] \in Child
      BY <1>0
    <3>2. proc' = [proc EXCEPT ![c][1] = Killed(proc[c][1])] \/ proc' = proc
      BY <1>5 DEF ResolveFails
    <3>3. Killed(proc[c][1]) \in Child
      BY <3>1, ChildFacts
    <3>4. CASE proc' = [proc EXCEPT ![c][1] = Killed(proc[c][1])]
      BY <1>0, <3>3, <3>4, ProcType
    <3>. QED BY <3>2, <3>4
  <2>. QED BY <1>5, <2>1, <2>2 DEF ResolveFails
<1>6. ASSUME NEW c \in Calls, UNCHANGED plan, Calm(c) \/ Rearm(c) \/ Connected(c)
      PROVE  TypeOK'
  <2>1. CASE Calm(c)
    BY <2>1, <1>6 DEF Calm
  <2>2. CASE Rearm(c)
    BY <2>2, <1>6 DEF Rearm
  <2>3. CASE Connected(c)
    BY <2>3, <1>6 DEF Connected
  <2>. QED BY <1>6, <2>1, <2>2, <2>3
<1>7. ASSUME NEW c \in Calls, UNCHANGED plan, Focus(c) \/ Wake(c) \/ Periodic(c)
      PROVE  TypeOK'
  <2>1. /\ probes' \in [Calls -> SUBSET ({Verify, Reach} \cup Forwards)]
        /\ dead' \subseteq Calls /\ recent' \subseteq Calls
    <3>1. Asks(c) /\ recent' \in {recent, recent \cup {c}, recent \ {c}}
      BY <1>7, AskFacts
    <3>2. dead' \subseteq Calls
      BY <3>1 DEF Asks
    <3>3. probes' \in [Calls -> SUBSET ({Verify, Reach} \cup Forwards)]
      BY <3>1 DEF Asks
    <3>. QED BY <3>1, <3>2, <3>3
  <2>2. CASE Focus(c)
    BY <1>7, <2>1, <2>2 DEF Focus
  <2>3. CASE Wake(c)
    BY <1>7, <2>1, <2>3 DEF Wake
  <2>4. CASE Periodic(c)
    BY <1>7, <2>1, <2>4 DEF Periodic
  <2>. QED BY <1>7, <2>2, <2>3, <2>4
<1>8. ASSUME NEW c \in Calls, UNCHANGED plan, RestartForward(c) PROVE TypeOK'
  BY <1>0, ChildFacts, <1>8 DEF RestartForward
<1>9. ASSUME NEW c \in Calls, UNCHANGED plan, NEW step, Unreachable(c, step) PROVE TypeOK'
  BY <1>9 DEF Unreachable
<1>10. ASSUME NEW c \in Calls, NEW k \in Forwards, UNCHANGED plan, Restored(c, k)
       PROVE  TypeOK'
  BY <1>0, ChildFacts, <1>10 DEF Restored
<1>11. ASSUME NEW c \in Calls, NEW k \in Forwards, UNCHANGED plan, RestartFails(c, k)
       PROVE  TypeOK'
  <2>1. proc' \in [Calls -> [Forwards -> Child]]
    <3>1. proc[c][k] \in Child
      OBVIOUS
    <3>2. proc' = [proc EXCEPT ![c][k] = Killed(proc[c][k])] \/ proc' = proc
      BY <1>11 DEF RestartFails
    <3>3. Killed(proc[c][k]) \in Child
      BY <3>1, ChildFacts
    <3>4. CASE proc' = [proc EXCEPT ![c][k] = Killed(proc[c][k])]
      BY <3>3, <3>4, ProcType
    <3>. QED BY <3>2, <3>4
  <2>. QED BY <1>11, <2>1 DEF RestartFails
<1>12. ASSUME NEW c \in Calls, NEW k \in Forwards, UNCHANGED plan, Exit(c, k)
       PROVE  TypeOK'
  BY <1>0, ChildFacts, <1>12 DEF Exit
<1>13. ASSUME NEW c \in Calls, NEW k \in Forwards, UNCHANGED plan, CloseForward(c, k)
       PROVE  TypeOK'
  <2>1. /\ probes' \in [Calls -> SUBSET ({Verify, Reach} \cup Forwards)]
        /\ dead' \subseteq Calls /\ recent' \subseteq Calls
    <3>1. \/ probes' = probes /\ recent' = recent /\ dead' \in {dead, dead \cup {c}}
          \/ Asks(c) /\ recent' \in {recent, recent \cup {c}, recent \ {c}}
      BY <1>13, TriggerFacts DEF CloseForward
    <3>. QED BY <3>1 DEF Asks
  <2>2. proc' \in [Calls -> [Forwards -> Child]]
    BY <1>0, ChildFacts, <1>13 DEF CloseForward
  <2>. QED BY <1>13, <2>1, <2>2 DEF CloseForward
<1>14. CASE (Sleep \/ Lose) /\ UNCHANGED plan
  BY <1>14 DEF Sleep, Lose, Watching
<1>15. CASE UNCHANGED vars
  BY <1>15 DEF vars
<1>. HIDE DEF TypeOK, flowVars, downVars, fwdVars, monVars
<1>. QED
  BY <1>1, <1>2, <1>3, <1>4, <1>5, <1>6, <1>7, <1>8, <1>9, <1>10, <1>11, <1>12,
     <1>13, <1>14, <1>15 DEF Next, ResolveStep, MonitorStep, ProbeStep

-----------------------------------------------------------------------------
(* What the actions do to the forwards *)

(* None starts: those that change end, or are told to *)
NoneStarts ==
  \A d \in Calls, j \in Forwards :
    \/ proc'[d][j] = proc[d][j]
    \/ proc'[d][j] \notin Running \cup {"none"} /\ proc[d][j] # "none"

LEMMA StaysGone ==
  ASSUME TypeOK, NoneStarts, forward' = forward
  PROVE  \A d \in Calls : ForwardAlive(d)' => ForwardAlive(d)
  BY DEF TypeOK, NoneStarts, ForwardAlive, None

(* A child ends, or a probe is asked for, or both *)
Watches(c) ==
  /\ Asks(c) /\ NoneStarts /\ UNCHANGED <<resolveVars, forward>>
  /\ probes' # probes => pc[c] \notin {"idle", "connect", "forward"}

LEMMA WatchesFacts ==
  ASSUME TypeOK, Progress, NEW c \in Calls,
         \/ Focus(c) \/ Wake(c) \/ Periodic(c)
         \/ \E k \in Forwards : Exit(c, k) \/ CloseForward(c, k)
  PROVE  Watches(c)
<1>1. CASE Focus(c) \/ Wake(c) \/ Periodic(c)
  <2>1. monitor[c] = "on"
    BY <1>1 DEF Focus, Wake, Periodic, Watching
  <2>. QED BY <1>1, <2>1, AskFacts DEF Watches, NoneStarts, Progress
<1>2. ASSUME NEW k \in Forwards, Exit(c, k) PROVE Watches(c)
  <2>1. \A d \in Calls, j \in Forwards :
          proc'[d][j] = IF d = c /\ j = k THEN "exited" ELSE proc[d][j]
    BY <1>2 DEF Exit, TypeOK
  <2>2. proc[c][k] # "none"
    BY <1>2, ChildFacts DEF Exit
  <2>3. NoneStarts
    BY <2>1, <2>2, ChildFacts DEF NoneStarts
  <2>. QED BY <1>2, <2>3 DEF Exit, Watches, Asks, resolveVars, flowVars, downVars, monVars
<1>3. ASSUME NEW k \in Forwards, CloseForward(c, k) PROVE Watches(c)
  <2>1. \A d \in Calls, j \in Forwards :
          proc'[d][j] = IF d = c /\ j = k THEN "closed" ELSE proc[d][j]
    BY <1>3 DEF CloseForward, TypeOK
  <2>2. NoneStarts
    BY <1>3, <2>1, ChildFacts DEF CloseForward, NoneStarts
  <2>3. Asks(c)
    <3>1. \/ probes' = probes /\ dead' = dead
          \/ probes' = probes /\ dead' = dead \cup {c}
          \/ TriggerProbe(c, TRUE)
      BY <1>3 DEF CloseForward
    <3>. QED BY <3>1, TriggerFacts DEF Asks
  <2>4. probes' # probes => pc[c] \notin {"idle", "connect", "forward"}
    <3>1. probes' # probes => forward[c] = k /\ k > 1
      BY <1>3 DEF CloseForward
    <3>2. forward[c] = k /\ k > 1 => forward[c] # None /\ forward[c] # 1
      BY DEF None, Forwards
    <3>. QED BY <3>1, <3>2 DEF Progress
  <2>. QED BY <1>3, <2>2, <2>3, <2>4 DEF CloseForward, Watches, resolveVars, flowVars
<1>. QED BY <1>1, <1>2, <1>3

(* A probe ends with the transport given up *)
GivesUp(c) ==
  /\ probes[c] # {} /\ probes' = [probes EXCEPT ![c] = {}]
  /\ dead' = dead \cup {c}
  /\ NoneStarts /\ UNCHANGED <<resolveVars, forward>>

LEMMA GivesUpFacts ==
  ASSUME TypeOK, Spawned, OneProbe, NEW c \in Calls,
         \/ \E step \in {Verify, Reach} : Unreachable(c, step)
         \/ \E k \in Forwards : RestartFails(c, k)
  PROVE  GivesUp(c)
<1>0. \A p \in probes[c] : [probes EXCEPT ![c] = @ \ {p}] = [probes EXCEPT ![c] = {}]
  BY DEF OneProbe
<1>1. ASSUME NEW step, Unreachable(c, step) PROVE GivesUp(c)
  BY <1>0, <1>1 DEF Unreachable, GivesUp, NoneStarts, resolveVars, flowVars, fwdVars
<1>2. ASSUME NEW k \in Forwards, RestartFails(c, k) PROVE GivesUp(c)
  <2>1. proc[c][k] # "none" /\ Killed(proc[c][k]) \notin Running \cup {"none"}
    BY <1>2, ChildFacts DEF RestartFails, Spawned
  <2>2. \/ proc' = proc
        \/ \A d \in Calls, j \in Forwards :
             proc'[d][j] = IF d = c /\ j = k THEN Killed(proc[c][k]) ELSE proc[d][j]
    BY <1>2 DEF RestartFails, TypeOK
  <2>3. NoneStarts
    BY <2>1, <2>2 DEF NoneStarts
  <2>. QED BY <1>0, <1>2, <2>3 DEF RestartFails, GivesUp, resolveVars, flowVars
<1>. QED BY <1>1, <1>2

(* The forward a restart spawns is the only one *)
Respawns(c, k) ==
  /\ probes[c] # {} /\ ~ForwardAlive(c)
  /\ \A j \in Forwards : proc[c][j] \notin Running
  /\ \A d \in Calls, j \in Forwards :
       proc'[d][j] = IF d = c /\ j = k THEN "starting" ELSE proc[d][j]
  /\ probes' = [probes EXCEPT ![c] = {k}]
  /\ proc[c][k] = "none"
  /\ UNCHANGED <<resolveVars, forward, dead>>

LEMMA RestartFacts ==
  ASSUME TypeOK, Spawned, OneProbe, RepairsTheDead, LeftBehind, NEW c \in Calls,
         RestartForward(c)
  PROVE  \E k \in Forwards : Respawns(c, k)
<1>1. PICK k \in Forwards :
        /\ \A j \in Forwards : proc[c][j] = "none" <=> j >= k
        /\ proc' = [proc EXCEPT ![c][k] = "starting"]
        /\ probes' = [probes EXCEPT ![c] = (@ \ {Reach}) \cup {k}]
  BY DEF RestartForward
<1>2. Reach \in probes[c] /\ Reach # Verify /\ Reach \notin Forwards
  BY DEF RestartForward, Reach, Verify, Forwards
<1>3. probes[c] = {Reach} /\ ~ForwardAlive(c)
  BY <1>2 DEF OneProbe, RepairsTheDead
<1>4. \A j \in Forwards : proc[c][j] \notin Running
  BY <1>2, <1>3 DEF LeftBehind, ForwardAlive, None, Forwards
<1>5. probes' = [probes EXCEPT ![c] = {k}]
  BY <1>1, <1>3
<1>6. proc[c][k] = "none"
  BY <1>1 DEF Forwards
<1>7. \A d \in Calls, j \in Forwards :
        proc'[d][j] = IF d = c /\ j = k THEN "starting" ELSE proc[d][j]
  BY <1>1 DEF TypeOK
<1>. QED
  BY <1>1, <1>3, <1>4, <1>5, <1>6, <1>7
  DEF Respawns, RestartForward, resolveVars, flowVars, downVars

(* A step of the resolve throws *)
LEMMA ResolveFailsFacts ==
  ASSUME TypeOK, Progress, Spawned, NEW c \in Calls, ResolveFails(c)
  PROVE  /\ pc[c] \in {"connect", "forward", "lock", "finalize"}
         /\ pc' = [pc EXCEPT ![c] = "failed"]
         /\ NoneStarts
         /\ UNCHANGED <<registered, closed, interrupted, monitor, forward, probes, dead>>
<1>1. CASE proc' = proc
  BY <1>1 DEF ResolveFails, NoneStarts, downVars, monVars
<1>2. CASE pc[c] = "forward" /\ proc' = [proc EXCEPT ![c][1] = Killed(@)]
  <2>1. 1 \in Forwards /\ proc[c][1] # "none"
    BY <1>2, BoundsAssumption DEF Progress, Spawned, Forwards
  <2>2. \A d \in Calls, j \in Forwards :
          proc'[d][j] = IF d = c /\ j = 1 THEN Killed(proc[c][1]) ELSE proc[d][j]
    BY <1>2, <2>1 DEF TypeOK
  <2>3. NoneStarts
    BY <2>1, <2>2, ChildFacts DEF NoneStarts
  <2>. QED BY <2>3 DEF ResolveFails, downVars, monVars
<1>. QED BY <1>1, <1>2 DEF ResolveFails

-----------------------------------------------------------------------------
LEMMA InvStep ==
  ASSUME IInv, TypeOK', [Next]_vars PROVE IInv'
<1>. USE DEF TypeOK
<1>0. /\ Verify = -1 /\ Reach = 0 /\ None = 0 /\ 1 \in Forwards /\ Calls \subseteq Nat \ {0}
      /\ Forwards \subseteq Nat \ {0}
  BY BoundsAssumption DEF Verify, Reach, Calls, Forwards, None
<1>1. ASSUME UNCHANGED core PROVE IInv'
  <2>1. InTurn'
    BY <1>0, ChildFacts, <1>1 DEF InTurn, Over, core, resolveVars, IInv
  <2>2. Progress'
    BY <1>0, ChildFacts, <1>1 DEF Progress, InTurn, Registered, core, resolveVars, IInv
  <2>3. Registered'
    BY <1>0, ChildFacts, <1>1 DEF Registered, Over, InTurn, Progress, core, resolveVars, IInv
  <2>4. OneProbe'
    BY <1>0, ChildFacts, <1>1 DEF OneProbe, Progress, core, resolveVars, IInv
  <2>5. Spawned'
    BY <1>0, ChildFacts, <1>1 DEF Spawned, Progress, core, resolveVars, IInv
  <2>6. RepairsTheDead'
    BY <1>0, ChildFacts, <1>1 DEF RepairsTheDead, ForwardAlive, OneProbe, Progress, Spawned, core, resolveVars, IInv
  <2>7. LeftBehind'
    BY <1>0, ChildFacts, <1>1 DEF LeftBehind, OneProbe, Progress, RepairsTheDead, ForwardAlive, core, resolveVars, IInv
  <2>8. TornDown'
    BY <1>0, ChildFacts, <1>1 DEF TornDown, ForwardAlive, Registered, Progress, Spawned, core, resolveVars, IInv
  <2>9. OneForward'
    BY <1>0, ChildFacts, <1>1 DEF OneForward, RepairsTheDead, ForwardAlive, OneProbe, LeftBehind, Progress, Spawned, core, resolveVars, IInv
  <2>. QED BY <2>1, <2>2, <2>3, <2>4, <2>5, <2>6, <2>7, <2>8, <2>9 DEF IInv
<1>2. ASSUME NEW c \in Calls, MovesOn(c) PROVE IInv'
  <2>1. InTurn'
    BY <1>0, ChildFacts, <1>2 DEF InTurn, Over, MovesOn, IInv
  <2>2. Progress'
    BY <1>0, ChildFacts, <1>2 DEF Progress, InTurn, Registered, MovesOn, IInv
  <2>3. Registered'
    BY <1>0, ChildFacts, <1>2 DEF Registered, Over, InTurn, Progress, MovesOn, IInv
  <2>4. OneProbe'
    BY <1>0, ChildFacts, <1>2 DEF OneProbe, Progress, MovesOn, IInv
  <2>5. Spawned'
    BY <1>0, ChildFacts, <1>2 DEF Spawned, Progress, MovesOn, IInv
  <2>6. RepairsTheDead'
    BY <1>0, ChildFacts, <1>2 DEF RepairsTheDead, ForwardAlive, OneProbe, Progress, Spawned, MovesOn, IInv
  <2>7. LeftBehind'
    BY <1>0, ChildFacts, <1>2 DEF LeftBehind, OneProbe, Progress, RepairsTheDead, ForwardAlive, MovesOn, IInv
  <2>8. TornDown'
    BY <1>0, ChildFacts, <1>2 DEF TornDown, ForwardAlive, Registered, Progress, Spawned, MovesOn, IInv
  <2>9. OneForward'
    BY <1>0, ChildFacts, <1>2 DEF OneForward, RepairsTheDead, ForwardAlive, OneProbe, LeftBehind, Progress, Spawned, MovesOn, IInv
  <2>. QED BY <2>1, <2>2, <2>3, <2>4, <2>5, <2>6, <2>7, <2>8, <2>9 DEF IInv
<1>3. ASSUME NEW c \in Calls, StartSocksForward(c) PROVE IInv'
  <2>1. InTurn'
    BY <1>0, ChildFacts, <1>3 DEF InTurn, Over, StartSocksForward, downVars, monVars, IInv
  <2>2. Progress'
    BY <1>0, ChildFacts, <1>3 DEF Progress, InTurn, Registered, StartSocksForward, downVars, monVars, IInv
  <2>3. Registered'
    BY <1>0, ChildFacts, <1>3 DEF Registered, Over, InTurn, Progress, StartSocksForward, downVars, monVars, IInv
  <2>4. OneProbe'
    BY <1>0, ChildFacts, <1>3 DEF OneProbe, Progress, StartSocksForward, downVars, monVars, IInv
  <2>5. Spawned'
    BY <1>0, ChildFacts, <1>3 DEF Spawned, Progress, StartSocksForward, downVars, monVars, IInv
  <2>6. RepairsTheDead'
    BY <1>0, ChildFacts, <1>3 DEF RepairsTheDead, ForwardAlive, OneProbe, Progress, Spawned, StartSocksForward, downVars, monVars, IInv
  <2>7. LeftBehind'
    BY <1>0, ChildFacts, <1>3 DEF LeftBehind, OneProbe, Progress, RepairsTheDead, ForwardAlive, StartSocksForward, downVars, monVars, IInv
  <2>8. TornDown'
    BY <1>0, ChildFacts, <1>3 DEF TornDown, ForwardAlive, Registered, Progress, Spawned, StartSocksForward, downVars, monVars, IInv
  <2>9. OneForward'
    BY <1>0, ChildFacts, <1>3 DEF OneForward, RepairsTheDead, ForwardAlive, OneProbe, LeftBehind, Progress, Spawned, StartSocksForward, downVars, monVars, IInv
  <2>. QED BY <2>1, <2>2, <2>3, <2>4, <2>5, <2>6, <2>7, <2>8, <2>9 DEF IInv
<1>4. ASSUME NEW c \in Calls, Created(c) PROVE IInv'
  <2>1. InTurn'
    BY <1>0, ChildFacts, <1>4 DEF InTurn, Over, Created, downVars, IInv
  <2>2. Progress'
    BY <1>0, ChildFacts, <1>4 DEF Progress, InTurn, Registered, Created, downVars, IInv
  <2>3. Registered'
    BY <1>0, ChildFacts, <1>4 DEF Registered, Over, InTurn, Progress, Created, downVars, IInv
  <2>4. OneProbe'
    BY <1>0, ChildFacts, <1>4 DEF OneProbe, Progress, Created, downVars, IInv
  <2>5. Spawned'
    BY <1>0, ChildFacts, <1>4 DEF Spawned, Progress, Created, downVars, IInv
  <2>6. RepairsTheDead'
    BY <1>0, ChildFacts, <1>4 DEF RepairsTheDead, ForwardAlive, OneProbe, Progress, Spawned, Created, downVars, IInv
  <2>7. LeftBehind'
    BY <1>0, ChildFacts, <1>4 DEF LeftBehind, OneProbe, Progress, RepairsTheDead, ForwardAlive, Created, downVars, IInv
  <2>8. TornDown'
    BY <1>0, ChildFacts, <1>4 DEF TornDown, ForwardAlive, Registered, Progress, Spawned, Created, downVars, IInv
  <2>9. OneForward'
    BY <1>0, ChildFacts, <1>4 DEF OneForward, RepairsTheDead, ForwardAlive, OneProbe, LeftBehind, Progress, Spawned, Created, downVars, IInv
  <2>. QED BY <2>1, <2>2, <2>3, <2>4, <2>5, <2>6, <2>7, <2>8, <2>9 DEF IInv
<1>5. ASSUME NEW c \in Calls, Replace(c) PROVE IInv'
  <2>0. \A d \in Calls : ForwardAlive(d)' => ForwardAlive(d) /\ d # registered
    <3>1. SUFFICES ASSUME NEW d \in Calls, forward[d] \in Forwards, proc'[d][forward[d]] \in Running
                   PROVE  proc[d][forward[d]] \in Running /\ d # registered
      BY <1>0, <1>5, ReplaceFacts DEF ForwardAlive, IInv
    <3>2. proc'[d][forward[d]] = IF d = registered THEN Killed(proc[d][forward[d]])
                                 ELSE proc[d][forward[d]]
      BY <1>0, <1>5, <3>1, ReplaceFacts DEF IInv
    <3>. QED BY <3>1, <3>2, ChildFacts
  <2>1. InTurn'
    BY <1>0, ChildFacts, <1>5, ReplaceFacts DEF InTurn, Over, IInv
  <2>2. Progress'
    BY <1>0, ChildFacts, <1>5, ReplaceFacts DEF Progress, InTurn, Registered, IInv
  <2>3. Registered'
    BY <1>0, ChildFacts, <1>5, ReplaceFacts DEF Registered, Over, InTurn, Progress, IInv
  <2>4. OneProbe'
    BY <1>0, ChildFacts, <1>5, ReplaceFacts DEF OneProbe, Progress, IInv
  <2>5. Spawned'
    BY <1>0, ChildFacts, <1>5, ReplaceFacts DEF Spawned, Progress, IInv
  <2>6. RepairsTheDead'
    BY <1>0, <2>0, <1>5, ReplaceFacts DEF RepairsTheDead, OneProbe, Progress, Spawned, IInv
  <2>7. LeftBehind'
    BY <1>0, ChildFacts, <1>5, ReplaceFacts DEF LeftBehind, OneProbe, Progress, RepairsTheDead, ForwardAlive, IInv
  <2>8. TornDown'
    BY <1>0, <2>0, <1>5, ReplaceFacts DEF TornDown, Registered, Progress, Spawned, IInv
  <2>9. OneForward'
    BY <1>0, ChildFacts, <1>5, ReplaceFacts DEF OneForward, RepairsTheDead, ForwardAlive, OneProbe, LeftBehind, Progress, Spawned, IInv
  <2>. QED BY <2>1, <2>2, <2>3, <2>4, <2>5, <2>6, <2>7, <2>8, <2>9 DEF IInv
<1>6. ASSUME NEW c \in Calls, Register(c) PROVE IInv'
  <2>1. InTurn'
    BY <1>0, ChildFacts, <1>6 DEF InTurn, Over, Register, downVars, fwdVars, monVars, IInv
  <2>2. Progress'
    BY <1>0, ChildFacts, <1>6 DEF Progress, InTurn, Registered, Register, downVars, fwdVars, monVars, IInv
  <2>3. Registered'
    BY <1>0, ChildFacts, <1>6 DEF Registered, Over, InTurn, Progress, Register, downVars, fwdVars, monVars, IInv
  <2>4. OneProbe'
    BY <1>0, ChildFacts, <1>6 DEF OneProbe, Progress, Register, downVars, fwdVars, monVars, IInv
  <2>5. Spawned'
    BY <1>0, ChildFacts, <1>6 DEF Spawned, Progress, Register, downVars, fwdVars, monVars, IInv
  <2>6. RepairsTheDead'
    BY <1>0, ChildFacts, <1>6 DEF RepairsTheDead, ForwardAlive, OneProbe, Progress, Spawned, Register, downVars, fwdVars, monVars, IInv
  <2>7. LeftBehind'
    BY <1>0, ChildFacts, <1>6 DEF LeftBehind, OneProbe, Progress, RepairsTheDead, ForwardAlive, Register, downVars, fwdVars, monVars, IInv
  <2>8. TornDown'
    BY <1>0, ChildFacts, <1>6 DEF TornDown, ForwardAlive, Registered, Progress, Spawned, Register, downVars, fwdVars, monVars, IInv
  <2>9. OneForward'
    BY <1>0, ChildFacts, <1>6 DEF OneForward, RepairsTheDead, ForwardAlive, OneProbe, LeftBehind, Progress, Spawned, Register, downVars, fwdVars, monVars, IInv
  <2>. QED BY <2>1, <2>2, <2>3, <2>4, <2>5, <2>6, <2>7, <2>8, <2>9 DEF IInv
<1>7. ASSUME NEW c \in Calls, ResolveFails(c) PROVE IInv'
  <2>1. InTurn'
    BY <1>0, ChildFacts, <1>7, ResolveFailsFacts, StaysGone DEF InTurn, Over, NoneStarts, IInv
  <2>2. Progress'
    BY <1>0, ChildFacts, <1>7, ResolveFailsFacts, StaysGone DEF Progress, InTurn, Registered, NoneStarts, IInv
  <2>3. Registered'
    BY <1>0, ChildFacts, <1>7, ResolveFailsFacts, StaysGone DEF Registered, Over, InTurn, Progress, NoneStarts, IInv
  <2>4. OneProbe'
    BY <1>0, ChildFacts, <1>7, ResolveFailsFacts, StaysGone DEF OneProbe, Progress, NoneStarts, IInv
  <2>5. Spawned'
    BY <1>0, ChildFacts, <1>7, ResolveFailsFacts, StaysGone DEF Spawned, Progress, NoneStarts, IInv
  <2>6. RepairsTheDead'
    BY <1>0, ChildFacts, <1>7, ResolveFailsFacts, StaysGone DEF RepairsTheDead, OneProbe, Progress, Spawned, IInv
  <2>7. LeftBehind'
    BY <1>0, ChildFacts, <1>7, ResolveFailsFacts, StaysGone DEF LeftBehind, OneProbe, Progress, RepairsTheDead, ForwardAlive, NoneStarts, IInv
  <2>8. TornDown'
    BY <1>0, ChildFacts, <1>7, ResolveFailsFacts, StaysGone DEF TornDown, Registered, Progress, Spawned, IInv
  <2>9. OneForward'
    BY <1>0, ChildFacts, <1>7, ResolveFailsFacts, StaysGone DEF OneForward, RepairsTheDead, ForwardAlive, OneProbe, LeftBehind, Progress, Spawned, NoneStarts, IInv
  <2>. QED BY <2>1, <2>2, <2>3, <2>4, <2>5, <2>6, <2>7, <2>8, <2>9 DEF IInv
<1>8. ASSUME NEW c \in Calls, Watches(c) PROVE IInv'
  <2>1. InTurn'
    BY <1>0, ChildFacts, <1>8, StaysGone DEF InTurn, Over, Watches, Asks, NoneStarts, resolveVars, IInv
  <2>2. Progress'
    BY <1>0, ChildFacts, <1>8, StaysGone DEF Progress, InTurn, Registered, Watches, Asks, NoneStarts, resolveVars, IInv
  <2>3. Registered'
    BY <1>0, ChildFacts, <1>8, StaysGone DEF Registered, Over, InTurn, Progress, Watches, Asks, NoneStarts, resolveVars, IInv
  <2>4. OneProbe'
    BY <1>0, ChildFacts, <1>8, StaysGone DEF OneProbe, Progress, Watches, Asks, NoneStarts, resolveVars, IInv
  <2>5. Spawned'
    BY <1>0, ChildFacts, <1>8, StaysGone DEF Spawned, Progress, Watches, Asks, NoneStarts, resolveVars, IInv
  <2>6. RepairsTheDead'
    BY <1>0, ChildFacts, <1>8, StaysGone DEF RepairsTheDead, OneProbe, Progress, Spawned, Watches, Asks, resolveVars, IInv
  <2>7. LeftBehind'
    BY <1>0, ChildFacts, <1>8, StaysGone DEF LeftBehind, OneProbe, Progress, RepairsTheDead, ForwardAlive, Watches, Asks, NoneStarts, resolveVars, IInv
  <2>8. TornDown'
    BY <1>0, ChildFacts, <1>8, StaysGone DEF TornDown, Registered, Progress, Spawned, Watches, Asks, resolveVars, IInv
  <2>9. OneForward'
    BY <1>0, ChildFacts, <1>8, StaysGone DEF OneForward, RepairsTheDead, ForwardAlive, OneProbe, LeftBehind, Progress, Spawned, Watches, Asks, NoneStarts, resolveVars, IInv
  <2>. QED BY <2>1, <2>2, <2>3, <2>4, <2>5, <2>6, <2>7, <2>8, <2>9 DEF IInv
<1>9. ASSUME NEW c \in Calls, GivesUp(c) PROVE IInv'
  <2>1. InTurn'
    BY <1>0, ChildFacts, <1>9, StaysGone DEF InTurn, Over, GivesUp, NoneStarts, resolveVars, IInv
  <2>2. Progress'
    BY <1>0, ChildFacts, <1>9, StaysGone DEF Progress, InTurn, Registered, GivesUp, NoneStarts, resolveVars, IInv
  <2>3. Registered'
    BY <1>0, ChildFacts, <1>9, StaysGone DEF Registered, Over, InTurn, Progress, GivesUp, NoneStarts, resolveVars, IInv
  <2>4. OneProbe'
    BY <1>0, ChildFacts, <1>9, StaysGone DEF OneProbe, Progress, GivesUp, NoneStarts, resolveVars, IInv
  <2>5. Spawned'
    BY <1>0, ChildFacts, <1>9, StaysGone DEF Spawned, Progress, GivesUp, NoneStarts, resolveVars, IInv
  <2>6. RepairsTheDead'
    BY <1>0, ChildFacts, <1>9, StaysGone DEF RepairsTheDead, OneProbe, Progress, Spawned, GivesUp, resolveVars, IInv
  <2>7. LeftBehind'
    BY <1>0, ChildFacts, <1>9, StaysGone DEF LeftBehind, OneProbe, Progress, RepairsTheDead, ForwardAlive, GivesUp, NoneStarts, resolveVars, IInv
  <2>8. TornDown'
    BY <1>0, ChildFacts, <1>9, StaysGone DEF TornDown, Registered, Progress, Spawned, GivesUp, resolveVars, IInv
  <2>9. OneForward'
    BY <1>0, ChildFacts, <1>9, StaysGone DEF OneForward, RepairsTheDead, ForwardAlive, OneProbe, LeftBehind, Progress, Spawned, GivesUp, NoneStarts, resolveVars, IInv
  <2>. QED BY <2>1, <2>2, <2>3, <2>4, <2>5, <2>6, <2>7, <2>8, <2>9 DEF IInv
<1>10. ASSUME NEW c \in Calls, Connected(c) PROVE IInv'
  <2>1. InTurn'
    BY <1>0, ChildFacts, <1>10 DEF InTurn, Over, Connected, flowVars, downVars, fwdVars, IInv
  <2>2. Progress'
    BY <1>0, ChildFacts, <1>10 DEF Progress, InTurn, Registered, Connected, flowVars, downVars, fwdVars, IInv
  <2>3. Registered'
    BY <1>0, ChildFacts, <1>10 DEF Registered, Over, InTurn, Progress, Connected, flowVars, downVars, fwdVars, IInv
  <2>4. OneProbe'
    BY <1>0, ChildFacts, <1>10 DEF OneProbe, Progress, Connected, flowVars, downVars, fwdVars, IInv
  <2>5. Spawned'
    BY <1>0, ChildFacts, <1>10 DEF Spawned, Progress, Connected, flowVars, downVars, fwdVars, IInv
  <2>6. RepairsTheDead'
    BY <1>0, ChildFacts, <1>10 DEF RepairsTheDead, ForwardAlive, OneProbe, Progress, Spawned, Connected, flowVars, downVars, fwdVars, IInv
  <2>7. LeftBehind'
    BY <1>0, ChildFacts, <1>10 DEF LeftBehind, OneProbe, Progress, RepairsTheDead, ForwardAlive, Connected, flowVars, downVars, fwdVars, IInv
  <2>8. TornDown'
    BY <1>0, ChildFacts, <1>10 DEF TornDown, ForwardAlive, Registered, Progress, Spawned, Connected, flowVars, downVars, fwdVars, IInv
  <2>9. OneForward'
    BY <1>0, ChildFacts, <1>10 DEF OneForward, RepairsTheDead, ForwardAlive, OneProbe, LeftBehind, Progress, Spawned, Connected, flowVars, downVars, fwdVars, IInv
  <2>. QED BY <2>1, <2>2, <2>3, <2>4, <2>5, <2>6, <2>7, <2>8, <2>9 DEF IInv
<1>11. ASSUME NEW c \in Calls, NEW k \in Forwards, Respawns(c, k) PROVE IInv'
  <2>0. \A d \in Calls : ForwardAlive(d)' => ForwardAlive(d)
    <3>. SUFFICES ASSUME NEW d \in Calls, ForwardAlive(d)' PROVE ForwardAlive(d)
      OBVIOUS
    <3>0. forward' = forward
      BY <1>11 DEF Respawns
    <3>1. forward[d] # None /\ forward[d] \in Forwards /\ proc'[d][forward[d]] \in Running
      <4>1. forward[d] # None /\ proc'[d][forward[d]] \in Running
        BY <3>0 DEF ForwardAlive
      <4>. QED BY <4>1 DEF IInv, TypeOK
    <3>2. ~(d = c /\ forward[d] = k)
      BY <1>11, <3>1 DEF Spawned, Respawns, IInv
    <3>. QED BY <1>11, <3>1, <3>2 DEF Respawns, ForwardAlive
  <2>1. InTurn'
    BY <1>0, ChildFacts, <1>11 DEF InTurn, Over, Respawns, resolveVars, IInv
  <2>2. Progress'
    BY <1>0, ChildFacts, <1>11 DEF Progress, InTurn, Registered, Respawns, resolveVars, IInv
  <2>3. Registered'
    BY <1>0, ChildFacts, <1>11 DEF Registered, Over, InTurn, Progress, Respawns, resolveVars, IInv
  <2>4. OneProbe'
    BY <1>0, ChildFacts, <1>11 DEF OneProbe, Progress, Respawns, resolveVars, IInv
  <2>5. Spawned'
    BY <1>0, ChildFacts, <1>11 DEF Spawned, Progress, Respawns, resolveVars, IInv
  <2>6. RepairsTheDead'
    BY <1>0, <2>0, <1>11 DEF RepairsTheDead, OneProbe, Progress, Spawned, Respawns, resolveVars, IInv
  <2>7. LeftBehind'
    BY <1>0, ChildFacts, <1>11 DEF LeftBehind, OneProbe, Progress, RepairsTheDead, ForwardAlive, Respawns, resolveVars, IInv
  <2>8. TornDown'
    BY <1>0, <2>0, <1>11 DEF TornDown, Registered, Progress, Spawned, Respawns, resolveVars, IInv
  <2>9. OneForward'
    BY <1>0, ChildFacts, <1>11 DEF OneForward, RepairsTheDead, ForwardAlive, OneProbe, LeftBehind, Progress, Spawned, Respawns, resolveVars, IInv
  <2>. QED BY <2>1, <2>2, <2>3, <2>4, <2>5, <2>6, <2>7, <2>8, <2>9 DEF IInv
<1>12. ASSUME NEW c \in Calls, NEW k \in Forwards, Restored(c, k) PROVE IInv'
  <2>1. InTurn'
    BY <1>0, ChildFacts, <1>12 DEF InTurn, Over, Restored, flowVars, downVars, IInv
  <2>2. Progress'
    BY <1>0, ChildFacts, <1>12 DEF Progress, InTurn, Registered, Restored, flowVars, downVars, IInv
  <2>3. Registered'
    BY <1>0, ChildFacts, <1>12 DEF Registered, Over, InTurn, Progress, Restored, flowVars, downVars, IInv
  <2>4. OneProbe'
    BY <1>0, ChildFacts, <1>12 DEF OneProbe, Progress, Restored, flowVars, downVars, IInv
  <2>5. Spawned'
    BY <1>0, ChildFacts, <1>12 DEF Spawned, Progress, Restored, flowVars, downVars, IInv
  <2>6. RepairsTheDead'
    BY <1>0, ChildFacts, <1>12 DEF RepairsTheDead, ForwardAlive, OneProbe, Progress, Spawned, Restored, flowVars, downVars, IInv
  <2>7. LeftBehind'
    BY <1>0, ChildFacts, <1>12 DEF LeftBehind, OneProbe, Progress, RepairsTheDead, ForwardAlive, Restored, flowVars, downVars, IInv
  <2>8. TornDown'
    BY <1>0, ChildFacts, <1>12 DEF TornDown, ForwardAlive, Registered, Progress, Spawned, Restored, flowVars, downVars, IInv
  <2>9. OneForward'
    BY <1>0, ChildFacts, <1>12 DEF OneForward, RepairsTheDead, ForwardAlive, OneProbe, LeftBehind, Progress, Spawned, Restored, flowVars, downVars, IInv
  <2>. QED BY <2>1, <2>2, <2>3, <2>4, <2>5, <2>6, <2>7, <2>8, <2>9 DEF IInv
<1>. HIDE DEF TypeOK
<1>. QED
  BY <1>1, <1>2, <1>3, <1>4, <1>5, <1>6, <1>7, <1>8, <1>9, <1>10, <1>11, <1>12, MoveFacts, WatchesFacts, GivesUpFacts, QuietFacts, RestartFacts
  DEF IInv, Next, ResolveStep, MonitorStep, ProbeStep

LEMMA Inductive == Spec => []IInv
<1>1. Init => IInv
  <2>. SUFFICES ASSUME Init PROVE IInv
    OBVIOUS
  <2>. USE DEF Init
  <2>0. None = 0 /\ 0 \notin Calls \cup Forwards
    BY DEF None, Calls, Forwards
  <2>1. TypeOK
    BY ChildFacts DEF TypeOK
  <2>2. InTurn /\ Progress /\ Registered /\ OneProbe /\ Spawned /\ RepairsTheDead
    BY <2>0 DEF InTurn, Progress, Registered, OneProbe, Spawned, RepairsTheDead
  <2>3. LeftBehind /\ TornDown /\ OneForward
    BY <2>0, ChildFacts DEF LeftBehind, TornDown, OneForward
  <2>. QED BY <2>1, <2>2, <2>3 DEF IInv
<1>2. IInv /\ [Next]_vars => IInv'
  BY TypeStep, InvStep DEF IInv
<1>. QED BY <1>1, <1>2, PTL DEF Spec

(* Every variable of the model keeps its type. *)
THEOREM TypeCorrect == Spec => []TypeOK
<1>1. IInv => TypeOK
  BY DEF IInv
<1>. QED BY <1>1, Inductive, PTL

(* However sleeps, focus, timers and exits ask for probes, a transport has    *)
(* at most one live ssh -D (triggerProbe, restartForward).                    *)
THEOREM OneForwardAtATime == Spec => []OneForward
<1>1. IInv => OneForward
  BY DEF IInv
<1>. QED BY <1>1, Inductive, PTL

(* An ssh -D that outlives its transport was left by a resolve that failed or *)
(* that reused the previous flow, by a restart that failed, or by a monitor   *)
(* stopped amid a probe (killSharedTransport, restartForward); there is no    *)
(* fifth way.                                                                 *)
THEOREM StraysAreKnown == Spec => []StrayOnlyKnown
<1>1. ASSUME IInv PROVE StrayOnlyKnown
  <2>1. SUFFICES ASSUME NEW c \in Calls, NEW k \in Forwards, Stray(c, k),
                        pc[c] \notin {"failed", "reused"}, c \notin interrupted
                 PROVE  c \in dead /\ forward[c] # k
    BY DEF StrayOnlyKnown
  <2>2. proc[c][k] \in Running
    BY <2>1 DEF Stray
  <2>3. CASE c \in closed
    <3>1. probes[c] = {} /\ ~ForwardAlive(c)
      BY <1>1, <2>1, <2>3 DEF IInv, TornDown
    <3>2. forward[c] # k
      BY <2>2, <3>1 DEF ForwardAlive, None, Forwards
    <3>. QED BY <1>1, <2>2, <3>1, <3>2 DEF IInv, LeftBehind
  <2>4. CASE c \notin closed
    <3>1. ~(Over(c) /\ registered # c)
      BY <1>1, <2>1, <2>4 DEF IInv, Registered, Over
    <3>2. forward[c] # k /\ k \notin probes[c]
      BY <2>1, <2>4, <3>1 DEF Stray
    <3>. QED BY <1>1, <2>2, <3>2 DEF IInv, LeftBehind
  <2>. QED BY <2>3, <2>4
<1>. QED BY <1>1, Inductive, PTL

(* While ssh answers in time, a transport is given up only over the forward   *)
(* it uses, which has ended, or over a restart that fails                     *)
(* (probeAndRepair, attachSharedForwardExitListeners, restartForward).        *)
THEOREM GivenUpForCause == Spec => DeadForCause
<1> DEFINE Cause(c) == \/ lost \/ MayHappen("slow") \/ c \in closed
                       \/ ~ForwardAlive(c) \/ probes[c] \cap Forwards # {}
<1>1. ASSUME IInv, [Next]_vars PROVE \A c \in dead' \ dead : Cause(c)
  <2>0. ASSUME dead' = dead PROVE \A c \in dead' \ dead : Cause(c)
    BY <2>0
  <2>1. ASSUME NEW c \in Calls, NEW quiet, TriggerProbe(c, quiet)
        PROVE  \A d \in dead' \ dead : d \in closed
    BY <2>1 DEF TriggerProbe, ProbeAndRepair
  <2>2. ASSUME NEW c \in Calls, NEW step, Unreachable(c, step)
        PROVE  \A d \in dead' \ dead : Cause(d)
    BY <2>2 DEF Unreachable, FailsToAnswer
  <2>3. ASSUME NEW c \in Calls, NEW k \in Forwards, RestartFails(c, k)
        PROVE  \A d \in dead' \ dead : Cause(d)
    BY <2>3 DEF RestartFails
  <2>4. ASSUME NEW c \in Calls, NEW k \in Forwards, CloseForward(c, k)
        PROVE  \A d \in dead' \ dead : Cause(d)
    <3>1. \/ dead' = dead
          \/ forward[c] = k /\ dead' = dead \cup {c}
          \/ TriggerProbe(c, TRUE)
      BY <2>4 DEF CloseForward
    <3>2. forward[c] = k => ~ForwardAlive(c)
      BY <2>4, ChildFacts DEF CloseForward, ForwardAlive
    <3>. QED BY <2>0, <2>1, <3>1, <3>2
  <2>5. ASSUME NEW c \in Calls, Focus(c) \/ Wake(c) \/ Periodic(c)
        PROVE  \A d \in dead' \ dead : Cause(d)
    <3>1. TriggerProbe(c, c \notin recent)
      BY <2>5 DEF Focus, Wake, Periodic
    <3>. QED BY <2>1, <3>1
  <2>6. ASSUME NEW c \in Calls,
               \/ Resolve(c) \/ ResolveStep(c) \/ CloseServer(c) \/ ServerMute(c)
               \/ Calm(c) \/ Rearm(c) \/ Connected(c) \/ RestartForward(c)
               \/ \E k \in Forwards : Exit(c, k) \/ Restored(c, k)
        PROVE  dead' = dead
    BY <2>6 DEF Resolve, ResolveStep, StartSocksForward, Created, Recheck, Reuse, Replace, FindServer,
       ServerListens, ServerFails, Register, ResolveFails, CloseServer, ServerMute, Calm,
       Rearm, Connected, RestartForward, Exit, Restored, downVars
  <2>7. Sleep \/ Lose \/ UNCHANGED vars => dead' = dead
    BY DEF Sleep, Lose, vars, downVars
  <2>. HIDE DEF Cause
  <2>. QED BY <1>1, <2>0, <2>2, <2>3, <2>4, <2>5, <2>6, <2>7 DEF Next, MonitorStep, ProbeStep
<1>2. IInv /\ [Next]_vars =>
        [\A c \in dead' \ dead :
           \/ lost \/ MayHappen("slow") \/ c \in closed
           \/ ~ForwardAlive(c)
           \/ probes[c] \cap Forwards # {}]_vars
  BY <1>1
<1>. QED BY <1>2, Inductive, PTL DEF Spec, DeadForCause

================================================================================
