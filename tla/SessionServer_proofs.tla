------------------------ MODULE SessionServer_proofs ------------------------
(***************************************************************************)
(* Theorems about SessionServer, for any number of clients and servers and  *)
(* any timer settings: type correctness, the shutdown timer under a client  *)
(* whose keepalive runs (Supplied), the record in the persistence file,     *)
(* which is inductive by itself, and the refcount, which is compared with   *)
(* the clients that a server counts (Counted).                              *)
(***************************************************************************)
EXTENDS SessionServer, FiniteSetTheorems, TLAPS

(* A client that is past the probe talks to a server that listens, or did *)
Attached ==
  \A c \in Clients : pc[c] \in {"probed", "ready", "started"} =>
    conn[c] \in Server /\ phase[conn[c]] \in {"listening", "gone", "failed", "killed"}

(* A pinging client's server has what the last interval may have cost it    *)
(* and, once the ping of this interval was sent, all of its time.           *)
Supplied ==
  \A c \in pinging :
    /\ c \in Clients /\ pc[c] = "started"
    /\ Up(conn[c]) => timer[conn[c]] >= ShutdownTicks - 1
    /\ Up(conn[c]) /\ c \in pinged => timer[conn[c]] >= ShutdownTicks

IInv == TypeOK /\ Attached /\ Supplied

LEMMA Ticks == /\ ShutdownTicks \in 0..MaxTicks
               /\ HandshakeTicks \in 0..MaxTicks
               /\ MaxTicks \in Nat
  BY ShutdownAssumption, HandshakeAssumption DEF MaxTicks

-----------------------------------------------------------------------------
(* Type correctness *)

LEMMA SpawnTyped ==
  ASSUME TypeOK, NEW c \in Clients, Spawn(c), file' \in Server \cup {NoServer}
  PROVE  TypeOK'
<1>1. PICK s \in Server :
        /\ phase' = [phase EXCEPT ![s] = "handshake"]
        /\ timer' = [timer EXCEPT ![s] = HandshakeTicks]
        /\ conn' = [conn EXCEPT ![c] = s]
        /\ pc' = [pc EXCEPT ![c] = "spawned"]
        /\ UNCHANGED <<stalled, refcount, counted, pinging, pinged>>
  BY DEF Spawn
<1> QED
  BY <1>1, Ticks DEF TypeOK, Phase, ClientPc

LEMMA ExitTyped ==
  ASSUME TypeOK, NEW s \in Server, NEW how \in {"gone", "failed", "killed"}, Exit(s, how),
         file' \in {file, NoServer}, UNCHANGED clvars
  PROVE  TypeOK'
  BY Ticks, MaxRefcountAssumption DEF Exit, TypeOK, Phase, clvars

LEMMA ClientStepTyped ==
  ASSUME TypeOK, NEW c \in Clients, ClientStep(c)
  PROVE  TypeOK'
<1>1. CASE Start(c)
  <2>1. CASE file # NoServer
    BY <1>1, <2>1 DEF Start, TypeOK, svrvars, ClientPc
  <2>2. CASE file = NoServer
    BY <1>1, <2>2, SpawnTyped DEF Start, TypeOK
  <2> QED BY <2>1, <2>2
<1>2. CASE ProbeAnswers(c)
  BY <1>2 DEF ProbeAnswers, TypeOK, svrvars, ClientPc
<1>3. CASE ProbeFails(c)
  BY <1>3, SpawnTyped DEF ProbeFails
<1>4. CASE Ready(c)
  BY <1>4 DEF Ready, TypeOK, svrvars, ClientPc
<1>5. CASE StartFails(c) \/ Crash(c)
  BY <1>5 DEF StartFails, Crash, GoesIdle, TypeOK, svrvars, ClientPc
<1>6. CASE Attach(c)
  BY <1>6, Ticks, MaxRefcountAssumption DEF Attach, Up, TypeOK, ClientPc
<1>7. CASE Ping(c)
  BY <1>7, Ticks DEF Ping, Up, TypeOK
<1>8. CASE Stop(c)
  BY <1>8, Ticks, MaxRefcountAssumption DEF Stop, GoesIdle, Up, TypeOK, ClientPc
<1> QED
  BY <1>1, <1>2, <1>3, <1>4, <1>5, <1>6, <1>7, <1>8 DEF ClientStep

LEMMA ServerStepTyped ==
  ASSUME TypeOK, NEW s \in Server, ServerStep(s)
  PROVE  TypeOK'
<1>1. CASE HandshakeDone(s)
  BY <1>1, Ticks DEF HandshakeDone, TypeOK, Phase, clvars
<1>2. CASE HandshakeTimeout(s) \/ HttpError(s) \/ Fire(s) \/ SshCloses(s) \/ Kill(s)
  BY <1>2, ExitTyped DEF HandshakeTimeout, HttpError, Fire, SshCloses, Kill, Cleanup
<1>3. CASE Listen(s) \/ SshStalls(s)
  BY <1>3 DEF Listen, SshStalls, Up, TypeOK, Phase, clvars
<1> QED
  BY <1>1, <1>2, <1>3 DEF ServerStep

(* Every state of the session layer is well typed: no timer runs below zero *)
(* or above the longer of the two timeouts, no refcount above its bound.    *)
THEOREM TypeCorrect == Spec => []TypeOK
<1>1. Init => TypeOK
  BY Ticks, MaxRefcountAssumption DEF Init, TypeOK, Phase, ClientPc, NoServer
<1>2. TypeOK /\ [Next]_vars => TypeOK'
  <2> SUFFICES ASSUME TypeOK, [Next]_vars PROVE TypeOK'
    OBVIOUS
  <2>1. CASE Tick
    <3>1. \A s \in Server : timer'[s] \in 0..MaxTicks
      BY <2>1, Ticks DEF Tick, TypeOK
    <3> QED
      BY <2>1, <3>1 DEF Tick, TypeOK
  <2>2. CASE UNCHANGED vars
    BY <2>2 DEF vars, svrvars, clvars, TypeOK
  <2> QED
    BY <2>1, <2>2, ClientStepTyped, ServerStepTyped DEF Next
<1> QED
  BY <1>1, <1>2, PTL DEF Spec

-----------------------------------------------------------------------------
(* The keepalive argument *)

(* A step of server s that only moves it from one state to a later one, or  *)
(* takes away its timer when it ends, harms no client.                      *)
LEMMA ServerStepKeeps ==
  ASSUME IInv, NEW s \in Server, ServerStep(s)
  PROVE  Attached' /\ Supplied'
<1> USE DEF IInv, TypeOK
<1>1. UNCHANGED clvars
  BY DEF ServerStep, HandshakeDone, HandshakeTimeout, Listen, HttpError, Fire, SshCloses,
         Kill, SshStalls, Cleanup
<1>2. \A q \in Server \ {s} : phase'[q] = phase[q] /\ timer'[q] = timer[q]
  BY DEF ServerStep, HandshakeDone, HandshakeTimeout, Listen, HttpError, Fire, SshCloses,
         Kill, SshStalls, Cleanup, Exit
<1>3. CASE HandshakeDone(s)
  <2>1. phase[s] = "handshake" /\ phase'[s] = "recorded"
    BY <1>3 DEF HandshakeDone
  <2> QED BY <1>1, <1>2, <2>1 DEF Attached, Supplied, Up, clvars
<1>4. CASE Listen(s)
  <2>1. phase[s] = "recorded"
    BY <1>4 DEF Listen
  <2> QED BY <1>1, <1>2, <2>1 DEF Attached, Supplied, Up, clvars
<1>5. CASE SshStalls(s)
  BY <1>5 DEF SshStalls, Attached, Supplied, Up, clvars
<1>6. CASE HandshakeTimeout(s) \/ HttpError(s) \/ Fire(s) \/ SshCloses(s) \/ Kill(s)
  <2>1. phase'[s] \in {"gone", "failed", "killed"}
    BY <1>6 DEF HandshakeTimeout, HttpError, Fire, SshCloses, Kill, Cleanup, Exit
  <2> QED BY <1>1, <1>2, <2>1 DEF Attached, Supplied, Up, clvars
<1> QED
  BY <1>3, <1>4, <1>5, <1>6 DEF ServerStep

(* The launch of a new server by c leaves the other clients' servers alone *)
LEMMA SpawnKeeps ==
  ASSUME IInv, NEW c \in Clients, Spawn(c), pc[c] # "started"
  PROVE  Attached' /\ Supplied'
<1> USE DEF IInv, TypeOK
<1>1. PICK s \in Server :
        /\ phase[s] = "unborn"
        /\ phase' = [phase EXCEPT ![s] = "handshake"]
        /\ timer' = [timer EXCEPT ![s] = HandshakeTicks]
        /\ conn' = [conn EXCEPT ![c] = s]
        /\ pc' = [pc EXCEPT ![c] = "spawned"]
        /\ UNCHANGED <<counted, pinging, pinged>>
  BY DEF Spawn
<1>2. Attached'
  BY <1>1 DEF Attached
<1>3. Supplied'
  BY <1>1 DEF Attached, Supplied, Up
<1> QED BY <1>2, <1>3

(* The other clients of the server see its timer only go up *)
LEMMA ClientStepKeeps ==
  ASSUME IInv, NEW c \in Clients, ClientStep(c)
  PROVE  Attached' /\ Supplied'
<1> USE ShutdownAssumption DEF IInv, TypeOK
<1>1. CASE Start(c)
  <2>1. CASE file # NoServer
    BY <1>1, <2>1 DEF Start, Attached, Supplied, Up, svrvars
  <2>2. CASE file = NoServer
    BY <1>1, <2>2, SpawnKeeps DEF Start
  <2> QED BY <2>1, <2>2
<1>2. CASE ProbeAnswers(c) \/ Ready(c)
  BY <1>2 DEF ProbeAnswers, Ready, Attached, Supplied, Up, svrvars
<1>3. CASE ProbeFails(c)
  BY <1>3, SpawnKeeps DEF ProbeFails
<1>4. CASE StartFails(c) \/ Crash(c)
  BY <1>4 DEF StartFails, Crash, GoesIdle, Attached, Supplied, Up, svrvars
<1>5. CASE Attach(c)
  <2>1. Attached'
    BY <1>5 DEF Attach, Attached
  <2>2. Supplied'
    BY <1>5 DEF Attach, Attached, Supplied, Up
  <2> QED BY <2>1, <2>2
<1>6. CASE Ping(c)
  <2>1. Attached'
    BY <1>6 DEF Ping, Attached
  <2>2. Supplied'
    BY <1>6 DEF Ping, Attached, Supplied, Up
  <2> QED BY <2>1, <2>2
<1>7. CASE Stop(c)
  <2>1. Attached'
    BY <1>7 DEF Stop, GoesIdle, Attached
  <2>2. Supplied'
    BY <1>7 DEF Stop, GoesIdle, Attached, Supplied, Up
  <2> QED BY <2>1, <2>2
<1> QED
  BY <1>1, <1>2, <1>3, <1>4, <1>5, <1>6, <1>7 DEF ClientStep

LEMMA KeepStep == IInv /\ [Next]_vars => (Attached /\ Supplied)'
<1>. SUFFICES ASSUME IInv, [Next]_vars PROVE Attached' /\ Supplied'
  BY DEF IInv
<1>1. CASE Tick
  <2>1. \A c \in pinging : c \in pinged
    BY <1>1 DEF Tick
  <2>2. \A s \in Server : Up(s) => timer'[s] = timer[s] - 1
    BY <1>1 DEF Tick, Up, Alive
  <2>3. /\ UNCHANGED <<phase, pc, conn, pinging>>
        /\ pinged' = {}
    BY <1>1 DEF Tick
  <2>4. Supplied'
    BY <2>1, <2>2, <2>3, ShutdownAssumption DEF Supplied, Up, IInv, TypeOK
  <2>. QED BY <2>3, <2>4 DEF Attached, IInv
<1>2. CASE UNCHANGED vars
  BY <1>2 DEF vars, svrvars, clvars, IInv, Attached, Supplied, Up
<1>. QED
  BY <1>1, <1>2, ClientStepKeeps, ServerStepKeeps DEF Next

LEMMA KeepInv == Spec => []IInv
<1>1. Init => Attached /\ Supplied
  BY DEF Init, Attached, Supplied
<1>. QED
  BY <1>1, KeepStep, TypeCorrect, PTL DEF Spec, IInv

(* However many windows share a local server and however they come and go,  *)
(* its shutdown timer (resetShutdownTimer) has time left while one of them  *)
(* pings: one reset per keepalive interval is enough for any timeout of two *)
(* intervals or more.                                                       *)
THEOREM KeepaliveSuffices == Spec => []KeptAlive
<1>1. IInv => KeptAlive
  BY ShutdownAssumption DEF IInv, TypeOK, Supplied, KeptAlive, Up
<1>. QED
  BY <1>1, KeepInv, PTL

-----------------------------------------------------------------------------
(* The persistence file *)

(* cleanup() of any server removes the record and a handshake writes its     *)
(* own.  A server that got through its handshake ends without a cleanup()    *)
(* only by a kill or by an error of its http server, and those records stay: *)
(* no server that failed its handshake or exited in order is ever named.     *)
THEOREM NoDeadRecord == Spec => []RecordIsLive
<1>1. Init => RecordIsLive
  BY DEF Init, RecordIsLive
<1>2. TypeOK /\ RecordIsLive /\ [Next]_vars => RecordIsLive'
  <2>. SUFFICES ASSUME TypeOK, RecordIsLive, [Next]_vars PROVE RecordIsLive'
    OBVIOUS
  <2>. USE DEF TypeOK, RecordIsLive
  <2>1. ASSUME NEW c \in Clients, Start(c) \/ ProbeFails(c) PROVE RecordIsLive'
    <3>1. CASE file' = NoServer
      BY <3>1
    <3>2. CASE file' # NoServer
      BY <2>1, <3>2 DEF Start, ProbeFails, Spawn, svrvars
    <3>. QED BY <3>1, <3>2
  <2>2. ASSUME NEW c \in Clients,
               \/ ProbeAnswers(c) \/ Ready(c) \/ StartFails(c) \/ Attach(c)
               \/ Ping(c) \/ Stop(c) \/ Crash(c)
        PROVE  UNCHANGED <<file, phase>>
    BY <2>2 DEF ProbeAnswers, Ready, StartFails, Attach, Ping, Stop, Crash, svrvars
  <2>3. ASSUME NEW s \in Server, HandshakeDone(s) \/ Listen(s) PROVE RecordIsLive'
    BY <2>3 DEF HandshakeDone, Listen
  <2>4. ASSUME NEW s \in Server, HandshakeTimeout(s) \/ HttpError(s) \/ Kill(s) PROVE RecordIsLive'
    BY <2>4 DEF HandshakeTimeout, HttpError, Kill, Exit, Alive
  <2>5. ASSUME NEW s \in Server, Fire(s) \/ SshCloses(s) PROVE RecordIsLive'
    BY <2>5 DEF Fire, SshCloses, Cleanup
  <2>6. ASSUME NEW s \in Server, SshStalls(s) PROVE UNCHANGED <<file, phase>>
    BY <2>6 DEF SshStalls
  <2>7. CASE Tick \/ UNCHANGED vars
    BY <2>7 DEF Tick, vars, svrvars
  <2>. QED
    BY <2>1, <2>2, <2>3, <2>4, <2>5, <2>6, <2>7
       DEF Next, ClientStep, ServerStep
<1>. QED
  BY <1>1, <1>2, TypeCorrect, PTL DEF Spec

-----------------------------------------------------------------------------
(* The refcount *)

On(s) == {c \in counted : conn[c] = s}

(* A counted client is attached, an attached one that is not counted found   *)
(* its server gone; and a server that has not ended counts no fewer          *)
Counted ==
  /\ IsFiniteSet(counted)
  /\ \A c \in counted : c \in Clients /\ pc[c] = "started"
  /\ \A c \in Clients : pc[c] = "started" /\ c \notin counted => Ended(conn[c])
  /\ \A s \in Server : ~Ended(s) => Cardinality(On(s)) <= refcount[s]

LEMMA OnFinite ==
  ASSUME IsFiniteSet(counted), NEW s
  PROVE  IsFiniteSet(On(s)) /\ Cardinality(On(s)) \in Nat
  BY FS_Subset, FS_CardinalityType DEF On

(* Clients that are not counted come and go without notice *)
LEMMA OnSame ==
  ASSUME counted' = counted, \A d \in counted : conn'[d] = conn[d], NEW s
  PROVE  Cardinality(On(s))' = Cardinality(On(s))
<1>1. On(s)' = On(s)
  BY DEF On
<1>. QED BY <1>1

(* A client that leaves: no server counts more, and its own one less if it   *)
(* was counted                                                               *)
LEMMA OnRemove ==
  ASSUME IsFiniteSet(counted), NEW c, NEW s,
         counted' = counted \ {c}, \A d \in counted' : conn'[d] = conn[d]
  PROVE  /\ IsFiniteSet(counted')
         /\ Cardinality(On(s))' \in Nat
         /\ Cardinality(On(s))' <= Cardinality(On(s))
         /\ c \in counted /\ s = conn[c] =>
              Cardinality(On(s))' = Cardinality(On(s)) - 1
<1>1. IsFiniteSet(counted')
  BY FS_RemoveElement
<1>2. On(s)' = On(s) \ {c}
  BY DEF On
<1>3. c \in counted /\ s = conn[c] => c \in On(s)
  BY DEF On
<1>4. Cardinality(On(s))' = Cardinality(On(s) \ {c})
  BY <1>2
<1>5. IsFiniteSet(On(s)) /\ Cardinality(On(s)) \in Nat
  BY OnFinite
<1>6. Cardinality(On(s) \ {c}) =
        IF c \in On(s) THEN Cardinality(On(s)) - 1 ELSE Cardinality(On(s))
  BY <1>5, FS_RemoveElement
<1>7. Cardinality(On(s) \ {c}) \in Nat
  BY <1>5, FS_RemoveElement, FS_CardinalityType
<1>. QED
  BY <1>1, <1>3, <1>4, <1>5, <1>6, <1>7

(* A client that comes is counted by its server alone *)
LEMMA OnAdd ==
  ASSUME IsFiniteSet(counted), NEW c, c \notin counted, NEW s,
         counted' = counted \cup {c}, conn' = conn
  PROVE  /\ IsFiniteSet(counted')
         /\ Cardinality(On(s))' =
              Cardinality(On(s)) + IF s = conn[c] THEN 1 ELSE 0
<1>1. IsFiniteSet(counted')
  BY FS_AddElement
<1>2. On(s)' = IF s = conn[c] THEN On(s) \cup {c} ELSE On(s)
  BY DEF On
<1>3. c \notin On(s)
  BY DEF On
<1>4. IsFiniteSet(On(s)) /\ Cardinality(On(s)) \in Nat
  BY OnFinite
<1>5. Cardinality(On(s) \cup {c}) = Cardinality(On(s)) + 1
  BY <1>3, <1>4, FS_AddElement
<1>6. Cardinality(On(s))' =
        IF s = conn[c] THEN Cardinality(On(s) \cup {c}) ELSE Cardinality(On(s))
  BY <1>2
<1>. QED
  BY <1>1, <1>4, <1>5, <1>6

(* One step per action; that a client detaches at most once from a server    *)
(* that counts it is the second and third conjunct of Counted                *)
LEMMA CountedStep == IInv /\ Counted /\ [Next]_vars => Counted'
<1>. SUFFICES ASSUME IInv, Counted, [Next]_vars PROVE Counted'
  OBVIOUS
<1>. USE DEF IInv, TypeOK, Counted
<1>1. ASSUME NEW c \in Clients, Start(c) \/ ProbeAnswers(c) \/ ProbeFails(c) \/ Ready(c)
      PROVE  Counted'
  <2>1. /\ UNCHANGED <<counted, refcount>>
        /\ pc[c] # "started" /\ pc'[c] # "started"
        /\ \A d \in Clients \ {c} : pc'[d] = pc[d] /\ conn'[d] = conn[d]
        /\ \A s \in Server : Ended(s)' <=> Ended(s)
    BY <1>1 DEF Start, ProbeAnswers, ProbeFails, Ready, Spawn, svrvars, Ended
  <2>2. \A s \in Server : Cardinality(On(s))' = Cardinality(On(s))
    BY <2>1, OnSame
  <2>3. \A d \in Clients : pc[d] = "started" => conn[d] \in Server
    BY DEF Attached
  <2>. QED BY <2>1, <2>2, <2>3
<1>2. ASSUME NEW c \in Clients, StartFails(c) \/ Crash(c) PROVE Counted'
  <2>1. /\ GoesIdle(c) /\ UNCHANGED svrvars
    BY <1>2 DEF StartFails, Crash
  <2>2. /\ counted' = counted \ {c} /\ \A d \in counted' : conn'[d] = conn[d]
        /\ refcount' = refcount /\ phase' = phase
    BY <2>1 DEF GoesIdle, svrvars
  <2>3. \A s \in Server : /\ IsFiniteSet(counted')
                          /\ Cardinality(On(s))' \in Nat
                          /\ Cardinality(On(s))' <= Cardinality(On(s))
    BY <2>2, OnRemove
  <2>4. \A s \in Server : ~Ended(s)' => Cardinality(On(s))' <= refcount'[s]
    BY <2>2, <2>3, OnFinite DEF Ended
  <2>5. IsFiniteSet(counted')
    BY <2>2, FS_RemoveElement
  <2>. QED BY <2>1, <2>2, <2>4, <2>5 DEF GoesIdle, Ended
<1>3. ASSUME NEW c \in Clients, Attach(c) PROVE Counted'
  <2>1. c \notin counted /\ conn[c] \in Server /\ phase' = phase /\ conn' = conn
        /\ pc' = [pc EXCEPT ![c] = "started"]
        /\ phase[conn[c]] \in {"listening", "gone", "failed", "killed"}
    BY <1>3 DEF Attach, Attached
  <2>2. CASE Up(conn[c])
    <3>1. /\ counted' = counted \cup {c}
          /\ refcount' = [refcount EXCEPT ![conn[c]] = @ + 1]
      BY <1>3, <2>2 DEF Attach
    <3>2. IsFiniteSet(counted')
      BY <3>1, FS_AddElement
    <3>3. ASSUME NEW s \in Server
          PROVE  Cardinality(On(s))' =
                   Cardinality(On(s)) + IF s = conn[c] THEN 1 ELSE 0
      BY <2>1, <3>1, OnAdd
    <3>4. ASSUME NEW s \in Server, ~Ended(s)' PROVE Cardinality(On(s))' <= refcount'[s]
      <4>1. Cardinality(On(s)) <= refcount[s]
        BY <2>1, <3>4 DEF Ended
      <4>2. Cardinality(On(s)) \in Nat
        BY OnFinite
      <4>. QED BY <3>1, <3>3, <4>1, <4>2
    <3>. QED BY <2>1, <3>1, <3>2, <3>4 DEF Ended
  <2>3. CASE ~Up(conn[c])
    <3>1. UNCHANGED <<counted, refcount>>
      BY <1>3, <2>3 DEF Attach
    <3>2. \A s \in Server : Cardinality(On(s))' = Cardinality(On(s))
      BY <2>1, <3>1, OnSame
    <3>. QED BY <2>1, <2>3, <3>1, <3>2 DEF Ended, Up
  <2>. QED BY <2>2, <2>3
<1>4. ASSUME NEW c \in Clients, Ping(c) PROVE Counted'
  <2>1. UNCHANGED <<phase, refcount, pc, conn, counted>>
    BY <1>4 DEF Ping
  <2>2. \A s \in Server : Cardinality(On(s))' = Cardinality(On(s))
    BY <2>1, OnSame
  <2>. QED BY <2>1, <2>2 DEF Ended
<1>5. ASSUME NEW c \in Clients, Stop(c) PROVE Counted'
  <2>1. /\ GoesIdle(c) /\ phase' = phase /\ pc[c] = "started"
        /\ counted' = counted \ {c} /\ \A d \in counted' : conn'[d] = conn[d]
        /\ conn[c] \in Server
    BY <1>5 DEF Stop, GoesIdle, Attached
  <2>2. IsFiniteSet(counted')
    BY <2>1, FS_RemoveElement
  <2>3. ASSUME NEW s \in Server, ~Ended(s)' PROVE Cardinality(On(s))' <= refcount'[s]
    <3>1. Cardinality(On(s)) <= refcount[s] /\ Cardinality(On(s)) \in Nat
      BY <2>1, <2>3, OnFinite DEF Ended
    <3>2. /\ Cardinality(On(s))' \in Nat
          /\ Cardinality(On(s))' <= Cardinality(On(s))
          /\ c \in counted /\ s = conn[c] =>
               Cardinality(On(s))' = Cardinality(On(s)) - 1
      BY <2>1, OnRemove
    <3>3. CASE s # conn[c] \/ ~Up(conn[c])
      <4>1. refcount'[s] = refcount[s]
        BY <1>5, <3>3 DEF Stop
      <4>. QED BY <3>1, <3>2, <4>1
    <3>4. CASE s = conn[c] /\ Up(conn[c])
      <4>1. c \in counted
        BY <2>1, <3>4 DEF Up, Ended
      <4>2. refcount'[s] = IF refcount[s] > 0 THEN refcount[s] - 1 ELSE 0
        BY <1>5, <3>4 DEF Stop
      <4>. QED BY <3>1, <3>2, <3>4, <4>1, <4>2
    <3>. QED BY <3>3, <3>4
  <2>. QED BY <2>1, <2>2, <2>3 DEF GoesIdle, Ended
<1>6. ASSUME NEW s \in Server, ServerStep(s) PROVE Counted'
  <2>1. UNCHANGED clvars
    BY <1>6 DEF ServerStep, HandshakeDone, HandshakeTimeout, Listen, HttpError, Fire,
       SshCloses, Kill, SshStalls, Cleanup
  <2>2. \A q \in Server : /\ Ended(q) => Ended(q)'
                          /\ ~Ended(q)' => refcount'[q] = refcount[q]
    BY <1>6 DEF ServerStep, HandshakeDone, HandshakeTimeout, Listen, HttpError, Fire,
       SshCloses, Kill, SshStalls, Cleanup, Exit, Ended, Alive, Up
  <2>3. \A q \in Server : Cardinality(On(q))' = Cardinality(On(q))
    BY <2>1, OnSame DEF clvars
  <2>4. \A d \in Clients : pc[d] = "started" => conn[d] \in Server
    BY DEF Attached
  <2>. QED BY <2>1, <2>2, <2>3, <2>4 DEF clvars
<1>7. CASE Tick \/ UNCHANGED vars
  <2>1. UNCHANGED <<phase, refcount, pc, conn, counted>>
    BY <1>7 DEF Tick, vars, svrvars, clvars
  <2>2. \A s \in Server : Cardinality(On(s))' = Cardinality(On(s))
    BY <2>1, OnSame
  <2>. QED BY <2>1, <2>2 DEF Ended
<1>. QED
  BY <1>1, <1>2, <1>3, <1>4, <1>5, <1>6, <1>7 DEF Next, ClientStep

(* Whatever the order in which windows attach, detach and die, and however   *)
(* many they are, a server's refcount is no lower than the number of clients *)
(* attached to it (handleAttach, handleDetach, state.refcount)               *)
THEOREM RefcountIsEnough == Spec => []RefcountCovers
<1>1. Init => Counted
  <2>. SUFFICES ASSUME Init PROVE Counted
    OBVIOUS
  <2>1. \A s \in Server : On(s) = {}
    BY DEF Init, On
  <2>. QED BY <2>1, FS_EmptySet DEF Init, Counted
<1>2. IInv /\ Counted => RefcountCovers
  BY DEF Counted, RefcountCovers, On, Up, Ended
<1>. QED
  BY <1>1, <1>2, CountedStep, KeepInv, PTL DEF Spec
=============================================================================
