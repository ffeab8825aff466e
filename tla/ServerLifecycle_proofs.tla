----------------------- MODULE ServerLifecycle_proofs -----------------------
(***************************************************************************)
(* Theorems about ServerLifecycle, for any number of windows and resolves:  *)
(* type correctness, and what the resolve lock guarantees as long as no     *)
(* lock is reclaimed by age and no owner is closed in the middle.           *)
(*                                                                          *)
(* The theorems about the record, the token and the sweep are those of      *)
(* timely turns and rest on TurnInv: the resolve under way has the last  *)
(* number and the lock (Turns), the one server alive is the one on record   *)
(* or the one being started (Recorded, Sole), a wrapper reads the line of   *)
(* its own server (Awaited), and the token file holds what that server was  *)
(* started with (Tokens).                                                   *)
(***************************************************************************)
EXTENDS ServerLifecycle, TLAPS

(* A window that is doing something has a resolve number; TypeOK needs it   *)
(* for the server a launch adds to the watched ones.                        *)
Numbered == \A w \in Windows : pc[w] # "idle" => current[w] # None

Typed == TypeOK /\ Numbered

(* The state is always well typed, whatever the faults *)
THEOREM TypeCorrect == Spec => []TypeOK
<1>1. Init => Typed
  <2> SUFFICES ASSUME Init PROVE Typed
    OBVIOUS
  <2> USE BoundAssumption DEF Init, Server, Token, Resolve, None, MayHappen, ends
  <2>1. lock \in Windows \cup {Nobody, Stranger} /\ aged \in BOOLEAN
    OBVIOUS
  <2>2. {pidFile, portFile, readyFile, logFile} = {None}
    OBVIOUS
  <2>3. pc \in [Windows -> Pc] /\ state \in [Server -> State]
    BY DEF Pc, State
  <2>4. begun \in 0..MaxResolves
    OBVIOUS
  <2> QED
    BY <2>1, <2>2, <2>3, <2>4 DEF Typed, Numbered, TypeOK
<1>2. Typed /\ [Next]_vars => Typed'
  <2> SUFFICES ASSUME Typed, [Next]_vars PROVE Typed'
    OBVIOUS
  <2>p. plan' = plan
    BY DEF Next, ResolveStep, ServerStep, Unforced, vars
  <2>b. plan.resolves <= MaxResolves /\ plan.resolves \in Nat
    BY PlansAssumption, BoundAssumption DEF Typed, TypeOK, Plan
  <2> USE BoundAssumption DEF Typed, Numbered, TypeOK, Server, Token, Resolve, None, Goto, ends
  <2> USE <2>p
  <2>1. ASSUME NEW w \in Windows, Begin(w) PROVE Typed'
    BY <2>1, <2>b DEF Begin, files, procs, Pc, Resolving, Locking
  <2>2. ASSUME NEW w \in Windows, Mkdir(w) PROVE Typed'
    BY <2>2 DEF Mkdir, TakeLock, procs, Pc, Resolving, Locking
  <2>3. ASSUME NEW w \in Windows, StatLock(w) PROVE Typed'
    BY <2>3 DEF StatLock, files, procs, Pc, Resolving, Locking, Starting
  <2>4. ASSUME NEW w \in Windows, RemoveLock(w) PROVE Typed'
    BY <2>4 DEF RemoveLock, procs, Pc, Resolving, Locking, Nobody
  <2>5. ASSUME NEW w \in Windows, RemakeLock(w) PROVE Typed'
    BY <2>5 DEF RemakeLock, TakeLock, procs, Pc, Resolving, Starting
  <2>6. ASSUME NEW w \in Windows, Probe(w) PROVE Typed'
    <3>1. PICK l \in {"retoken", "mint", "cleanup"} : pc' = [pc EXCEPT ![w] = l]
      BY <2>6 DEF Probe
    <3>2. /\ port' = port \/ (portFile \in Server /\ port' = [port EXCEPT ![w] = portFile])
          /\ pc[w] = "probe"
          /\ UNCHANGED <<files, procs, locked, begun, current, token, owners, ends>>
      BY <2>6 DEF Probe, PortAlive
    <3>3. l \in Pc
      BY DEF Pc, Resolving, Starting
    <3>4. TypeOK'
      BY <3>1, <3>2, <3>3 DEF files, procs
    <3>5. Numbered'
      BY <3>1, <3>2
    <3> QED BY <3>4, <3>5
  <2>7. ASSUME NEW w \in Windows, Cleanup(w) PROVE Typed'
    <3>1. state' \in [Server -> State] /\ watching' \subseteq Server
      BY <2>7 DEF Cleanup, State
    <3>2. pc' = [pc EXCEPT ![w] = "mint"] /\ pc[w] = "cleanup" /\ "mint" \in Pc
      BY <2>7 DEF Cleanup, Pc, Resolving, Starting
    <3>3. TypeOK'
      BY <2>7, <3>1, <3>2 DEF Cleanup
    <3>4. Numbered'
      BY <2>7, <3>2 DEF Cleanup
    <3> QED BY <3>3, <3>4
  <2>8. ASSUME NEW w \in Windows, ReadToken(w) PROVE Typed'
    BY <2>8 DEF ReadToken, Mint, procs, Pc, Resolving
  <2>9. ASSUME NEW w \in Windows, ReuseDone(w) PROVE Typed'
    BY <2>9 DEF ReuseDone, Unlock, procs, Pc, Nobody
  <2>10. ASSUME NEW w \in Windows, WriteToken(w) PROVE Typed'
    BY <2>10 DEF WriteToken, Mint, procs, Pc, Resolving, Starting
  <2>11. ASSUME NEW w \in Windows, RmReady(w) PROVE Typed'
    BY <2>11 DEF RmReady, procs, Pc, Resolving, Starting
  <2>12. ASSUME NEW w \in Windows, Launch(w) PROVE Typed'
    BY <2>12 DEF Launch, files, Pc, Resolving, Starting, State
  <2>13. ASSUME NEW w \in Windows, StartFails(w) PROVE Typed'
    BY <2>13 DEF StartFails, Unlock, procs, Pc, Nobody
  <2>14. ASSUME NEW w \in Windows, ReadyFileRead(w) PROVE Typed'
    <3>1. CASE StartFails(w)
      BY <3>1, <2>13
    <3>2. CASE ~StartFails(w)
      <4>1. /\ readyFile \in Server
            /\ pc' = [pc EXCEPT ![w] = "finalize"]
            /\ port' = [port EXCEPT ![w] = readyFile]
            /\ UNCHANGED <<files, procs, locked, begun, current, token, owners, ends>>
        BY <2>14, <3>2 DEF ReadyFileRead, PortAlive
      <4>2. TypeOK'
        BY <4>1 DEF files, procs, Pc, Resolving, Starting
      <4>3. Numbered'
        BY <4>1, <2>14 DEF ReadyFileRead
      <4> QED BY <4>2, <4>3
    <3> QED BY <3>1, <3>2
  <2>15. ASSUME NEW w \in Windows, WaitTimeout(w) PROVE Typed'
    BY <2>15, <2>13 DEF WaitTimeout
  <2>16. ASSUME NEW w \in Windows, Finalize(w) PROVE Typed'
    <3>1. pidFile' \in Server \cup {None} /\ portFile' \in Server \cup {None}
      BY <2>16 DEF Finalize, Matching
    <3>2. TypeOK'
      BY <2>16, <3>1 DEF Finalize, Unlock, procs, Pc, Nobody
    <3>3. Numbered'
      BY <2>16 DEF Finalize
    <3> QED BY <3>2, <3>3
  <2>17. ASSUME NEW w \in Windows, Close(w) PROVE Typed'
    BY <2>17 DEF Close, files, procs, Pc
  <2>27. ASSUME NEW w \in Windows, NEW what \in Removals, Remove(w, what) PROVE Typed'
    BY <2>27 DEF Remove, files, procs, Nobody
  <2>18. ASSUME NEW w \in Windows, Crash(w) \/ Throws(w) PROVE Typed'
    <3>1. CASE Leave(w)
      BY <3>1 DEF Leave, files, procs, Pc
    <3>. QED BY <2>13, <2>18, <3>1 DEF Crash, Throws
  <2>19. ASSUME NEW s \in Server, Boot(s) PROVE Typed'
    BY <2>19 DEF Boot, wins, State
  <2>20. ASSUME NEW s \in Server, Listen(s) PROVE Typed'
    BY <2>20 DEF Listen, wins, State
  <2>21. ASSUME NEW s \in Server, Watch(s) PROVE Typed'
    BY <2>21 DEF Watch, wins
  <2>22. ASSUME NEW s \in Server, GiveUp(s) PROVE Typed'
    BY <2>22 DEF GiveUp, files, wins
  <2>23. ASSUME NEW s \in Server, Wedge(s) PROVE Typed'
    BY <2>23 DEF Wedge, files, wins, State
  <2>24. ASSUME NEW s \in Server, Die(s) PROVE Typed'
    BY <2>24 DEF Die, files, wins, State
  <2>25. ASSUME Age PROVE Typed'
    BY <2>25 DEF Age, procs, wins
  <2>26. ASSUME UNCHANGED vars PROVE Typed'
    BY <2>26 DEF vars, files, procs, wins
  <2> QED
    BY <2>1, <2>2, <2>3, <2>4, <2>5, <2>6, <2>7, <2>8, <2>9, <2>10, <2>11, <2>12,
       <2>14, <2>15, <2>16, <2>17, <2>18, <2>19, <2>20, <2>21, <2>22, <2>23,
       <2>24, <2>25, <2>26, <2>27
       DEF Next, ResolveStep, ServerStep, Unforced
<1>3. Typed => TypeOK
  BY DEF Typed
<1> QED
  BY <1>1, <1>2, <1>3, PTL DEF Spec

-----------------------------------------------------------------------------
(* The lock.  Between the mkdir of its holder and the removal by its holder *)
(* the directory is never touched: no window ever sees an old lock, so none *)
(* is on its way to remove one.                                             *)
LockInv ==
  Undisturbed =>
    /\ aged = FALSE /\ leaving = {}
    /\ \A w \in Windows : pc[w] \notin {"remove", "remake"}
    /\ \A w \in locked : w \in Windows /\ lock = w

(* LockInv is an invariant while nothing reclaims or removes a lock in use *)
LEMMA LockInvariant == Spec => []LockInv
<1>1. Init => LockInv
  BY DEF Init, LockInv
<1>2. TypeOK /\ LockInv /\ [Next]_vars => LockInv'
  <2>p. ASSUME [Next]_vars PROVE plan' = plan
    BY <2>p DEF Next, ResolveStep, ServerStep, Unforced, vars
  <2> SUFFICES ASSUME TypeOK, LockInv, [Next]_vars, Undisturbed PROVE LockInv'
    BY <2>p DEF LockInv, Undisturbed
  <2>u. ~MayHappen("age") /\ ~MayHappen("close")
    BY DEF Undisturbed, MayHappen
  <2>0. /\ aged = FALSE /\ leaving = {}
        /\ \A w \in Windows : pc[w] \notin {"remove", "remake"}
        /\ \A w \in locked : w \in Windows /\ lock = w
        /\ pc \in [Windows -> Pc]
        /\ Nobody \notin Windows
    BY NoneAssumption DEF LockInv, TypeOK, Nobody
  (* a step that leaves the lock alone and goes anywhere but to a reclaim *)
  <2>1. ASSUME NEW w \in Windows, NEW l \in Pc \ {"remove", "remake"},
               Goto(w, l), UNCHANGED <<lock, aged, locked, leaving>>
        PROVE  LockInv'
    BY <2>0, <2>1 DEF Goto, LockInv
  <2>2. ASSUME NEW w \in Windows, TakeLock(w), UNCHANGED leaving PROVE LockInv'
    BY <2>0, <2>2 DEF TakeLock, Goto, LockInv
  <2>3. ASSUME NEW w \in Windows, NEW l \in Pc \ {"remove", "remake"},
               Goto(w, l), Unlock(w), UNCHANGED leaving
        PROVE  LockInv'
    BY <2>0, <2>3 DEF Goto, Unlock, LockInv
  <2> USE DEF Pc, Resolving, Locking, Starting, ends
  <2>4. ASSUME NEW w \in Windows, Begin(w) PROVE LockInv'
    BY <2>4, <2>1 DEF Begin, files
  <2>5. ASSUME NEW w \in Windows, ResolveStep(w) PROVE LockInv'
    <3>1. CASE Mkdir(w)
      BY <3>1, <2>1, <2>2 DEF Mkdir
    <3>2. CASE StatLock(w)
      BY <3>2, <2>0, <2>1 DEF StatLock, files
    <3>3. CASE RemoveLock(w) \/ RemakeLock(w)
      BY <3>3, <2>0 DEF RemoveLock, RemakeLock
    <3>4. CASE Probe(w)
      BY <3>4, <2>1 DEF Probe, files
    <3>5. CASE Cleanup(w)
      BY <3>5, <2>1 DEF Cleanup
    <3>6. CASE ReadToken(w) \/ WriteToken(w)
      BY <3>6, <2>1 DEF ReadToken, WriteToken
    <3>7. CASE ReuseDone(w)
      BY <3>7, <2>3 DEF ReuseDone
    <3>8. CASE RmReady(w) \/ Launch(w)
      BY <3>8, <2>1 DEF RmReady, Launch, files
    <3>9. CASE ReadyFileRead(w) \/ WaitTimeout(w)
      BY <3>9, <2>1, <2>3 DEF ReadyFileRead, WaitTimeout, StartFails, files
    <3>10. CASE Finalize(w)
      BY <3>10, <2>3 DEF Finalize
    <3> QED
      BY <2>5, <3>1, <3>2, <3>3, <3>4, <3>5, <3>6, <3>7, <3>8, <3>9, <3>10
         DEF ResolveStep
  <2>6. ASSUME NEW w \in Windows, Close(w) PROVE LockInv'
    BY <2>6, <2>1, <2>u DEF Close, files
  <2>10. ASSUME NEW w \in Windows, NEW what \in Removals, Remove(w, what) PROVE LockInv'
    BY <2>0, <2>10 DEF Remove
  <2>7. ASSUME NEW w \in Windows, Crash(w) \/ Throws(w) PROVE LockInv'
    <3>1. CASE Leave(w)
      BY <2>0, <3>1 DEF Leave, Goto, LockInv, files
    <3>2. CASE StartFails(w)
      BY <2>3, <3>2 DEF StartFails
    <3>. QED BY <2>7, <3>1, <3>2 DEF Crash, Throws
  <2>8. ASSUME NEW s \in Server, ServerStep(s) \/ Wedge(s) \/ Die(s) PROVE LockInv'
    BY <2>0, <2>8
       DEF ServerStep, Boot, Listen, Watch, GiveUp, Wedge, Die, LockInv, files, wins
  <2>9. ASSUME Age \/ UNCHANGED vars PROVE LockInv'
    BY <2>0, <2>9, <2>u DEF Age, LockInv, vars, files, wins
  <2> QED
    BY <2>4, <2>5, <2>6, <2>7, <2>8, <2>9, <2>10 DEF Next, Unforced
<1> QED
  BY <1>1, <1>2, TypeCorrect, PTL DEF Spec

(* Without stale reclaims and closed owners, whoever was told that it holds *)
(* the resolve lock does hold it, alone: mkdir in acquireLockAndProbeZombie *)
(* is mutual exclusion for any number of windows, crashes included.         *)
THEOREM LockExclusion == Spec => []LockExcludes
<1>1. LockInv => LockExcludes
  BY DEF LockInv, LockExcludes, LockIsExclusive
<1> QED
  BY <1>1, LockInvariant, PTL

(* The lock directory is that of a resolve under way, or was left behind *)
HeldInv ==
  Undisturbed =>
    /\ lock \in locked \cup abandoned \cup {Nobody, Stranger}
    /\ \A w \in locked : pc[w] \in Resolving
    /\ lock = Stranger => MayHappen("crash")
    /\ abandoned # {} => MayHappen("crash") \/ MayHappen("throw")

LEMMA HeldInvariant == Spec => []HeldInv
<1>1. Init => HeldInv
  <2> SUFFICES ASSUME Init PROVE HeldInv
    OBVIOUS
  <2>1. lock = Nobody \/ (lock = Stranger /\ MayHappen("crash"))
    BY DEF Init
  <2>2. locked = {} /\ abandoned = {} /\ Nobody # Stranger
    BY DEF Init, Nobody, Stranger
  <2>. QED BY <2>1, <2>2 DEF HeldInv
<1>2. TypeOK /\ LockInv /\ HeldInv /\ [Next]_vars => HeldInv'
  <2>p. ASSUME [Next]_vars PROVE plan' = plan
    BY <2>p DEF Next, ResolveStep, ServerStep, Unforced, vars
  <2> SUFFICES ASSUME TypeOK, LockInv, HeldInv, [Next]_vars,
                      Undisturbed, plan' = plan
               PROVE  HeldInv'
    BY <2>p DEF HeldInv, Undisturbed, MayHappen
  <2>u. ~MayHappen("age") /\ ~MayHappen("close")
    BY DEF Undisturbed, MayHappen
  <2>m. \A fault : MayHappen(fault)' <=> MayHappen(fault)
    BY DEF MayHappen
  <2>0. /\ \A w \in locked : w \in Windows /\ lock = w /\ pc[w] \in Resolving
        /\ lock \in locked \cup abandoned \cup {Nobody, Stranger}
        /\ lock = Stranger => MayHappen("crash")
        /\ abandoned # {} => MayHappen("crash") \/ MayHappen("throw")
        /\ pc \in [Windows -> Pc]
        /\ Nobody \notin Windows /\ Stranger \notin Windows /\ Nobody # Stranger
        /\ leaving = {}
    BY NoneAssumption DEF LockInv, HeldInv, TypeOK, Nobody, Stranger
  <2>1. ASSUME NEW w \in Windows, NEW l \in Resolving,
               Goto(w, l), UNCHANGED <<lock, locked, abandoned>>
        PROVE  HeldInv'
    BY <2>0, <2>1, <2>m DEF Goto, HeldInv
  <2>2. ASSUME NEW w \in Windows, TakeLock(w), UNCHANGED abandoned PROVE HeldInv'
    <3>1. lock' = w /\ locked' = locked \cup {w} /\ pc' = [pc EXCEPT ![w] = "probe"]
      BY <2>2 DEF TakeLock, Goto
    <3>2. \A v \in locked' : pc'[v] \in Resolving
      BY <2>0, <3>1 DEF Resolving
    <3>. QED BY <2>0, <2>2, <2>m, <3>1, <3>2 DEF HeldInv
  (* the end of a resolve that has let go of its lock *)
  <2>3. ASSUME NEW w \in Windows, NEW l \in Pc, Goto(w, l), Unlock(w), UNCHANGED abandoned
        PROVE  HeldInv'
    BY <2>0, <2>3, <2>m DEF Goto, Unlock, HeldInv
  <2> USE DEF Pc, Resolving, Locking, Starting, ends
  <2>4. ASSUME NEW w \in Windows, Begin(w) PROVE HeldInv'
    BY <2>4, <2>1 DEF Begin, files
  <2>5. ASSUME NEW w \in Windows, ResolveStep(w) PROVE HeldInv'
    <3>1. CASE Mkdir(w)
      BY <3>1, <2>1, <2>2 DEF Mkdir
    <3>2. CASE StatLock(w)
      BY <3>2, <2>1 DEF StatLock, files
    <3>3. CASE RemoveLock(w) \/ RemakeLock(w)
      BY <3>3 DEF RemoveLock, RemakeLock, LockInv
    <3>4. CASE Probe(w)
      BY <3>4, <2>1 DEF Probe, files
    <3>5. CASE Cleanup(w)
      BY <3>5, <2>1 DEF Cleanup
    <3>6. CASE ReadToken(w) \/ WriteToken(w)
      BY <3>6, <2>1 DEF ReadToken, WriteToken
    <3>7. CASE ReuseDone(w)
      BY <3>7, <2>3 DEF ReuseDone
    <3>8. CASE RmReady(w) \/ Launch(w)
      BY <3>8, <2>1 DEF RmReady, Launch, files
    <3>9. CASE ReadyFileRead(w) \/ WaitTimeout(w)
      BY <3>9, <2>1, <2>3 DEF ReadyFileRead, WaitTimeout, StartFails, files
    <3>10. CASE Finalize(w)
      BY <3>10, <2>3 DEF Finalize
    <3> QED
      BY <2>5, <3>1, <3>2, <3>3, <3>4, <3>5, <3>6, <3>7, <3>8, <3>9, <3>10
         DEF ResolveStep
  <2>6. ASSUME NEW w \in Windows, Close(w) PROVE HeldInv'
    <3>1. pc[w] = "connected" /\ pc' = [pc EXCEPT ![w] = "idle"]
          /\ UNCHANGED <<lock, locked, abandoned>>
      BY <2>6 DEF Close, Goto, files
    <3>2. w \notin locked
      BY <2>0, <3>1
    <3>. QED BY <2>0, <2>m, <3>1, <3>2 DEF HeldInv
  <2>9. ASSUME NEW w \in Windows, Crash(w) \/ Throws(w) PROVE HeldInv'
    <3>1. CASE StartFails(w)
      BY <2>3, <3>1 DEF StartFails
    <3>2. CASE Leave(w)
      <4>1. /\ pc' = [pc EXCEPT ![w] = "idle"] /\ locked' = locked \ {w}
            /\ abandoned' = abandoned \cup ({w} \cap locked) /\ lock' = lock
        BY <3>2 DEF Leave, Goto, files
      <4>2. MayHappen("crash") \/ MayHappen("throw")
        BY <2>9 DEF Crash, Throws
      <4>3. lock' \in locked' \cup abandoned' \cup {Nobody, Stranger}
        BY <2>0, <4>1
      <4>. QED BY <2>0, <2>m, <4>1, <4>2, <4>3 DEF HeldInv
    <3>. QED BY <2>9, <3>1, <3>2 DEF Crash, Throws
  <2>10. ~\E w \in Windows, what \in Removals : Remove(w, what)
    BY <2>0 DEF Remove
  <2>7. ASSUME NEW s \in Server, ServerStep(s) \/ Wedge(s) \/ Die(s) PROVE HeldInv'
    BY <2>0, <2>7, <2>m
       DEF ServerStep, Boot, Listen, Watch, GiveUp, Wedge, Die, HeldInv, files, wins
  <2>8. ASSUME UNCHANGED vars PROVE HeldInv'
    BY <2>0, <2>8, <2>m DEF HeldInv, vars, files, wins
  <2> QED
    BY <2>4, <2>5, <2>6, <2>7, <2>8, <2>9, <2>10, <2>u DEF Next, Unforced, Age
<1> QED
  BY <1>1, <1>2, TypeCorrect, LockInvariant, PTL DEF Spec

(* A resolve that ends in a reuse, a start or a failed start lets go of the *)
(* lock: what finalizeServerStart's releaseLock and the two                 *)
(* releaseResolveLock calls of resolveFlow are for.  It stays behind after  *)
(* a crash and after an error that none of these calls follows.             *)
THEOREM LockRelease == Spec => []LockIsReleased
<1>1. HeldInv => LockIsReleased
  BY DEF HeldInv, LockIsReleased
<1> QED
  BY <1>1, HeldInvariant, PTL

-----------------------------------------------------------------------------
(* While resolves come one after the other: one window at a time resolves,   *)
(* with the lock, and starts a server only when no other is alive            *)

InResolve(w) == pc[w] \in Resolving
Minted == {"rmready", "launch", "wait", "finalize"}

(* Whose turn it is, and that what was there before is older *)
Turns ==
  /\ \A v, w \in Windows : InResolve(v) /\ InResolve(w) => v = w
  /\ \A w \in Windows :
       /\ pc[w] \notin {"stat", "remove", "remake"}
       /\ pc[w] = "mkdir" => w \notin locked
       /\ pc[w] = "connected" => port[w] <= begun
       /\ InResolve(w) =>
            /\ current[w] = begun /\ begun # None
            /\ pidFile # begun
            /\ \A v \in Windows : pc[v] = "connected" => port[v] # begun

(* The record: it names the one server alive, and the window that reuses or  *)
(* starts a server connects to that one                                      *)
Recorded ==
  /\ pidFile = portFile /\ pidFile <= begun
  /\ \A w \in Windows : /\ pc[w] \in {"retoken", "release"} => port[w] = pidFile
                        /\ pc[w] = "cleanup" => ~PortAlive(portFile)
                        /\ pc[w] = "finalize" => port[w] = begun

Sole ==
  /\ \A w \in Windows : pc[w] \in {"mint", "rmready", "launch"} => \A s \in Server : ~Alive(s)
  /\ \A w \in Windows : pc[w] \in {"wait", "finalize"} => \A s \in Server : Alive(s) => s = begun
  /\ (\A w \in Windows : pc[w] \notin Starting) => \A s \in Server : Alive(s) => s = pidFile

(* A start in progress: its wrapper reads its own server's line *)
Awaited ==
  /\ \A s \in Server : state[s] \in {"spawned", "booting"} \/ s \in watching =>
       \E w \in Windows : pc[w] = "wait"
  /\ \A s \in Server : state[s] = "wedged" => \A w \in Windows : pc[w] \notin Starting
  /\ \A w \in Windows : pc[w] = "launch" => readyFile = None
  /\ \A w \in Windows : pc[w] = "wait" =>
       /\ watching \subseteq {begun}
       /\ watching # {} => readyFile = None
       /\ readyFile # None => readyFile = begun /\ state[begun] \in {"up", "gone"}
       /\ readyFile = None /\ watching = {} => \A s \in Server : ~Alive(s)
       /\ state[begun] # "spawned" =>
            /\ logFile \in {None, begun}
            /\ logFile = begun => state[begun] \in {"up", "gone"}
            /\ state[begun] = "up" => logFile = begun

Tokens ==
  /\ \A w \in Windows : pc[w] \in Minted => token[w] = tokenFile /\ tokenFile # None
  /\ \A s \in Server : state[s] \in {"booting", "up", "wedged"} =>
       accepts[s] = tokenFile /\ tokenFile # None
  /\ \A w \in Windows : pc[w] \in {"release", "connected"} /\ PortAlive(port[w]) =>
       token[w] = accepts[port[w]]

Turn == Turns /\ Recorded /\ Sole /\ Awaited /\ Tokens
TurnInv == TimelyTurns => Turn

(* What the types say of one window and of the servers *)
LEMMA TurnTypes ==
  ASSUME TypeOK, Turn
  PROVE  /\ pc \in [Windows -> Pc] /\ port \in [Windows -> Server \cup {None}]
         /\ token \in [Windows -> Token \cup {None}] /\ current \in [Windows -> Resolve \cup {None}]
         /\ state \in [Server -> State] /\ accepts \in [Server -> Token \cup {None}]
         /\ begun \in Nat /\ begun <= MaxResolves /\ Server = 1..MaxResolves /\ None = 0 /\ MaxResolves \in Nat
         /\ pidFile = portFile /\ pidFile \in Server \cup {None} /\ pidFile <= begun
         /\ readyFile \in Server \cup {None} /\ logFile \in Server \cup {None}
         /\ tokenFile \in Token \cup {None}
BY BoundAssumption DEF TypeOK, Turn, Recorded, Server, Resolve, None

LEMMA Others ==
  ASSUME TypeOK, Turn, NEW w \in Windows, InResolve(w)
  PROVE  /\ \A v \in Windows \ {w} : pc[v] \in {"idle", "connected"}
         /\ current[w] = begun /\ begun \in Server /\ pidFile < begun
<1>1. \A v \in Windows \ {w} : pc[v] \in Pc /\ pc[v] \notin Resolving
  BY TurnTypes DEF Turn, Turns, InResolve
<1>2. current[w] = begun /\ begun # None /\ pidFile # begun
  BY DEF Turn, Turns
<1>. QED BY <1>1, <1>2, TurnTypes DEF Pc

(* A server that listens is a process *)
LEMMA UpIsAlive == \A s : PortAlive(s) => Alive(s)
BY DEF PortAlive, Alive

Moves(w, l) == pc'[w] = l /\ \A v \in Windows \ {w} : pc'[v] = pc[v]

LEMMA GotoMoves ==
  ASSUME TypeOK, NEW w \in Windows, NEW l, Goto(w, l)
  PROVE  Moves(w, l)
BY DEF TypeOK, Goto, Moves

LEMMA BeginTurn ==
  ASSUME TypeOK, HeldInv, Undisturbed, ~MayHappen("overlap"), Turn,
         NEW w \in Windows, Begin(w)
  PROVE  Turn'
<1>1. /\ Moves(w, "mkdir") /\ \A v \in Windows : ~InResolve(v)
      /\ begun' = begun + 1 /\ current' = [current EXCEPT ![w] = begun + 1]
      /\ port' = [port EXCEPT ![w] = None] /\ token' = [token EXCEPT ![w] = None]
      /\ UNCHANGED <<lock, aged, pidFile, portFile, tokenFile, readyFile, logFile, state, accepts, watching, locked>>
  BY GotoMoves DEF Begin, InResolve, files, procs
<1>2. w \notin locked
  BY <1>1 DEF HeldInv, InResolve
<1>3. \A v \in Windows : pc[v] \in {"idle", "connected"}
  BY <1>1, TurnTypes DEF InResolve, Pc
<1>4. \A v \in Windows \ {w} : pc'[v] \in {"idle", "connected"} /\ pc'[v] = pc[v] /\ port'[v] = port[v]
                                 /\ token'[v] = token[v]
  BY <1>1, <1>3, TurnTypes DEF Moves
<1>5. /\ pc'[w] = "mkdir" /\ current'[w] = begun + 1 /\ begun \in Nat
  BY <1>1, TurnTypes DEF Moves
<1>6. Turns'
  <2>1. /\ pc'[w] \notin {"stat", "remove", "remake", "connected"} /\ w \notin locked'
        /\ \A v \in Windows \ {w} : ~InResolve(v)' /\ pc'[v] \notin {"stat", "remove", "remake", "mkdir"}
    BY <1>1, <1>2, <1>4, <1>5 DEF InResolve, Resolving, Locking, Starting
  <2>2. /\ begun' \in Nat /\ begun' # None /\ current'[w] = begun' /\ pidFile' # begun'
    BY <1>1, <1>5, TurnTypes
  <2>3. \A v \in Windows : pc'[v] = "connected" => port'[v] <= begun' /\ port'[v] # begun'
    <3> SUFFICES ASSUME NEW v \in Windows, pc'[v] = "connected"
                 PROVE  port'[v] <= begun' /\ port'[v] # begun'
      OBVIOUS
    <3>1. port'[v] = port[v] /\ port[v] <= begun /\ port[v] \in Nat
      BY <1>4, <1>5, TurnTypes DEF Turn, Turns
    <3>. QED BY <1>1, <1>5, <3>1
  <2>. QED BY <2>1, <2>2, <2>3 DEF Turns
<1>7. Recorded'
  <2>1. pidFile \in Int /\ pidFile <= begun + 1 /\ pidFile = portFile
    BY TurnTypes
  <2>2. pidFile' = portFile' /\ pidFile' <= begun'
    BY <1>1, <2>1
  <2>3. \A v \in Windows : pc'[v] \notin {"retoken", "release", "cleanup", "finalize"}
    BY <1>4, <1>5
  <2>. QED BY <2>2, <2>3 DEF Recorded
<1>8. Sole'
  BY <1>1, <1>3, <1>4, <1>5 DEF Turn, Sole, Alive, Starting
<1>9. Awaited'
  BY <1>1, <1>3, <1>4, <1>5 DEF Turn, Awaited, Starting
<1>10. Tokens'
  BY <1>1, <1>3, <1>4, <1>5 DEF Turn, Tokens, Minted, PortAlive
<1>. QED BY <1>6, <1>7, <1>8, <1>9, <1>10 DEF Turn

(* The lock is free when a resolve comes to it, so it probes *)
LEMMA MkdirTurn ==
  ASSUME TypeOK, LockInv, HeldInv, Undisturbed, ~MayHappen("crash"), ~MayHappen("throw"),
         Turn, NEW w \in Windows, Mkdir(w)
  PROVE  Turn'
<1>0. pc[w] = "mkdir" /\ InResolve(w)
  BY DEF Mkdir, InResolve, Resolving, Locking
<1>1. lock = Nobody
  <2>1. w \notin locked
    BY <1>0 DEF Turn, Turns
  <2>2. lock # Nobody => lock \in locked /\ lock \in Windows /\ InResolve(lock)
    BY DEF HeldInv, LockInv, InResolve
  <2>. QED BY <1>0, <2>1, <2>2 DEF Turn, Turns
<1>2. /\ Moves(w, "probe")
      /\ UNCHANGED <<pidFile, portFile, tokenFile, readyFile, logFile, state, accepts, watching>>
      /\ UNCHANGED <<begun, current, port, token>>
  BY <1>1, GotoMoves DEF Mkdir, TakeLock, procs
<1>3. /\ \A v \in Windows \ {w} : pc[v] \in {"idle", "connected"} /\ pc'[v] = pc[v]
      /\ pc'[w] = "probe"
  BY <1>0, <1>2, Others DEF Moves
<1>4. Turns'
  BY <1>0, <1>2, <1>3 DEF Turn, Turns, InResolve, Resolving, Locking, Starting
<1>5. Recorded'
  BY <1>2, <1>3 DEF Turn, Recorded
<1>6. Sole'
  BY <1>0, <1>2, <1>3 DEF Turn, Sole, Alive, Starting
<1>7. Awaited'
  BY <1>0, <1>2, <1>3 DEF Turn, Awaited, Starting
<1>8. Tokens'
  BY <1>0, <1>2, <1>3 DEF Turn, Tokens, Minted, PortAlive
<1>. QED BY <1>4, <1>5, <1>6, <1>7, <1>8 DEF Turn

LEMMA ReclaimTurn ==
  ASSUME LockInv, Undisturbed, Turn, NEW w \in Windows
  PROVE  ~StatLock(w) /\ ~RemoveLock(w) /\ ~RemakeLock(w)
BY DEF Turn, Turns, StatLock, RemoveLock, RemakeLock

LEMMA ProbeTurn ==
  ASSUME TypeOK, Turn, NEW w \in Windows, Probe(w)
  PROVE  Turn'
<1>0. pc[w] = "probe" /\ InResolve(w)
  BY DEF Probe, InResolve, Resolving
<1>1. /\ UNCHANGED <<pidFile, portFile, tokenFile, readyFile, logFile, state, accepts, watching>>
      /\ UNCHANGED <<begun, current, token, locked>>
  BY DEF Probe, files, procs
<1>2. PICK l \in {"retoken", "mint", "cleanup"} :
        /\ Moves(w, l)
        /\ l = "retoken" => port' = [port EXCEPT ![w] = portFile]
        /\ l # "retoken" => port' = port
        /\ l = "mint" => pidFile = None
        /\ l = "cleanup" => ~(Alive(pidFile) /\ PortAlive(portFile))
  BY GotoMoves DEF Probe
<1>3. /\ \A v \in Windows \ {w} : pc[v] \in {"idle", "connected"} /\ pc'[v] = pc[v] /\ port'[v] = port[v]
      /\ pc'[w] = l /\ (l = "retoken" => port'[w] = portFile)
  BY <1>0, <1>2, Others, TurnTypes DEF Moves
<1>4. Turns'
  BY <1>0, <1>1, <1>3 DEF Turn, Turns, InResolve, Resolving, Locking, Starting
<1>5. Recorded'
  <2>1. pidFile = portFile /\ (l = "cleanup" => ~PortAlive(portFile))
    BY <1>2, TurnTypes, UpIsAlive
  <2>. QED BY <1>0, <1>1, <1>3, <2>1 DEF Turn, Recorded, PortAlive
<1>6. Sole'
  <2>1. \A s \in Server : Alive(s) => s = pidFile
    BY <1>0, <1>3 DEF Turn, Sole, Starting
  <2>2. l = "mint" => \A s \in Server : ~Alive(s)
    BY <1>2, <2>1, TurnTypes
  <2>. QED BY <1>0, <1>1, <1>3, <2>1, <2>2 DEF Sole, Alive, Starting
<1>7. Awaited'
  BY <1>0, <1>1, <1>3, <1>6 DEF Turn, Awaited, Starting, Sole, Alive
<1>8. Tokens'
  BY <1>0, <1>1, <1>3 DEF Turn, Tokens, Minted, PortAlive
<1>. QED BY <1>4, <1>5, <1>6, <1>7, <1>8 DEF Turn

(* A zombie is the only server there may be, so nothing is alive after it *)
LEMMA CleanupTurn ==
  ASSUME TypeOK, Turn, NEW w \in Windows, Cleanup(w)
  PROVE  Turn'
<1>0. pc[w] = "cleanup" /\ InResolve(w)
  BY DEF Cleanup, InResolve, Resolving
<1>1. /\ UNCHANGED <<tokenFile, readyFile, logFile, accepts, begun, current, port, token, locked>>
      /\ pidFile' = None /\ portFile' = None /\ Moves(w, "mint")
  BY GotoMoves DEF Cleanup
<1>2. PICK sweep \in BOOLEAN :
        /\ Alive(pidFile) => sweep
        /\ state' = [s \in Server |-> IF sweep /\ Alive(s) THEN "gone" ELSE state[s]]
        /\ watching' \subseteq watching
  BY DEF Cleanup
<1>3. /\ \A v \in Windows \ {w} : pc[v] \in {"idle", "connected"} /\ pc'[v] = pc[v]
      /\ pc'[w] = "mint"
  BY <1>0, <1>1, Others DEF Moves
<1>4. \A s \in Server : ~Alive(s)'
  <2>1. \A s \in Server : Alive(s) => s = pidFile
    BY <1>0, <1>3 DEF Turn, Sole, Starting
  <2>2. CASE sweep
    BY <1>2, <2>2 DEF Alive
  <2>3. CASE ~sweep
    BY <1>2, <2>1, <2>3 DEF Alive
  <2>. QED BY <2>2, <2>3
<1>5. Turns'
  BY <1>0, <1>1, <1>3, TurnTypes DEF Turn, Turns, InResolve, Resolving, Locking, Starting
<1>6. Recorded'
  BY <1>1, <1>3, TurnTypes DEF Recorded
<1>7. Sole'
  BY <1>3, <1>4 DEF Sole, Starting
<1>8. Awaited'
  <2>1. \A s \in Server : s \notin watching
    BY <1>0, <1>3 DEF Turn, Awaited
  <2>. QED BY <1>2, <1>3, <1>4, <2>1 DEF Awaited, Alive
<1>9. Tokens'
  BY <1>0, <1>1, <1>3, <1>4 DEF Turn, Tokens, Minted, PortAlive, Alive
<1>. QED BY <1>5, <1>6, <1>7, <1>8, <1>9 DEF Turn

LEMMA ReadTokenTurn ==
  ASSUME TypeOK, Turn, NEW w \in Windows, ReadToken(w)
  PROVE  Turn'
<1>0. pc[w] = "retoken" /\ InResolve(w)
  BY DEF ReadToken, InResolve, Resolving
<1>1. /\ UNCHANGED <<pidFile, portFile, readyFile, logFile, state, accepts, watching, begun, current, port, locked>>
      /\ Moves(w, "release")
  BY GotoMoves DEF ReadToken, procs
<1>2. /\ \A v \in Windows \ {w} : pc[v] \in {"idle", "connected"} /\ pc'[v] = pc[v] /\ token'[v] = token[v]
      /\ pc'[w] = "release" /\ token'[w] = tokenFile' /\ (tokenFile # None => tokenFile' = tokenFile)
  BY <1>0, <1>1, Others, TurnTypes DEF Moves, ReadToken, Mint
<1>3. Turns'
  BY <1>0, <1>1, <1>2 DEF Turn, Turns, InResolve, Resolving, Locking, Starting
<1>4. Recorded'
  BY <1>0, <1>1, <1>2 DEF Turn, Recorded
<1>5. Sole'
  BY <1>0, <1>1, <1>2 DEF Turn, Sole, Alive, Starting
<1>6. Awaited'
  BY <1>0, <1>1, <1>2 DEF Turn, Awaited, Starting
<1>7. Tokens'
  <2>1. \A s \in Server : state[s] \in {"booting", "up", "wedged"} =>
          accepts[s] = tokenFile /\ tokenFile # None
    BY DEF Turn, Tokens
  <2>. QED BY <1>0, <1>1, <1>2, <2>1 DEF Turn, Tokens, Minted, PortAlive
<1>. QED BY <1>3, <1>4, <1>5, <1>6, <1>7 DEF Turn

LEMMA ReuseDoneTurn ==
  ASSUME TypeOK, Turn, NEW w \in Windows, ReuseDone(w)
  PROVE  Turn'
<1>0. pc[w] = "release" /\ InResolve(w)
  BY DEF ReuseDone, InResolve, Resolving
<1>1. /\ UNCHANGED <<pidFile, portFile, readyFile, tokenFile, logFile, state, accepts, watching, begun, current, port, token>>
      /\ Moves(w, "connected") /\ locked' \subseteq locked
  BY GotoMoves DEF ReuseDone, procs, Unlock
<1>2. /\ \A v \in Windows \ {w} : pc[v] \in {"idle", "connected"} /\ pc'[v] = pc[v]
      /\ pc'[w] = "connected"
  BY <1>0, <1>1, Others DEF Moves
<1>3. port[w] <= begun
  BY <1>0, TurnTypes DEF Turn, Recorded
<1>4. Turns'
  BY <1>0, <1>1, <1>2, <1>3 DEF Turn, Turns, InResolve, Resolving, Locking, Starting
<1>5. Recorded'
  BY <1>0, <1>1, <1>2 DEF Turn, Recorded
<1>6. Sole'
  BY <1>0, <1>1, <1>2 DEF Turn, Sole, Alive, Starting
<1>7. Awaited'
  BY <1>0, <1>1, <1>2 DEF Turn, Awaited, Starting
<1>8. Tokens'
  BY <1>0, <1>1, <1>2 DEF Turn, Tokens, Minted, PortAlive
<1>. QED BY <1>4, <1>5, <1>6, <1>7, <1>8 DEF Turn

LEMMA WriteTokenTurn ==
  ASSUME TypeOK, Turn, NEW w \in Windows, WriteToken(w)
  PROVE  Turn'
<1>0. pc[w] = "mint" /\ InResolve(w)
  BY DEF WriteToken, InResolve, Resolving, Starting
<1>1. /\ UNCHANGED <<pidFile, portFile, readyFile, logFile, state, accepts, watching, begun, current, port, locked>>
      /\ Moves(w, "rmready")
  BY GotoMoves DEF WriteToken, procs
<1>2. /\ \A v \in Windows \ {w} : pc[v] \in {"idle", "connected"} /\ pc'[v] = pc[v] /\ token'[v] = token[v]
      /\ pc'[w] = "rmready" /\ token'[w] = tokenFile' /\ tokenFile' # None
  BY <1>0, <1>1, Others, TurnTypes DEF Moves, WriteToken, Mint
<1>3. \A s \in Server : ~Alive(s)
  BY <1>0 DEF Turn, Sole
<1>4. Turns'
  BY <1>0, <1>1, <1>2 DEF Turn, Turns, InResolve, Resolving, Locking, Starting
<1>5. Recorded'
  BY <1>0, <1>1, <1>2 DEF Turn, Recorded
<1>6. Sole'
  BY <1>0, <1>1, <1>2 DEF Turn, Sole, Alive, Starting
<1>7. Awaited'
  BY <1>0, <1>1, <1>2 DEF Turn, Awaited, Starting
<1>8. Tokens'
  BY <1>0, <1>1, <1>2, <1>3 DEF Turn, Tokens, Minted, PortAlive, Alive
<1>. QED BY <1>4, <1>5, <1>6, <1>7, <1>8 DEF Turn

LEMMA RmReadyTurn ==
  ASSUME TypeOK, Turn, NEW w \in Windows, RmReady(w)
  PROVE  Turn'
<1>0. pc[w] = "rmready" /\ InResolve(w)
  BY DEF RmReady, InResolve, Resolving, Starting
<1>1. /\ UNCHANGED <<pidFile, portFile, tokenFile, logFile, state, accepts, watching, begun, current, port, token, locked>>
      /\ Moves(w, "launch") /\ readyFile' = None
  BY GotoMoves DEF RmReady, procs
<1>2. /\ \A v \in Windows \ {w} : pc[v] \in {"idle", "connected"} /\ pc'[v] = pc[v]
      /\ pc'[w] = "launch"
  BY <1>0, <1>1, Others DEF Moves
<1>3. Turns'
  BY <1>0, <1>1, <1>2 DEF Turn, Turns, InResolve, Resolving, Locking, Starting
<1>4. Recorded'
  BY <1>0, <1>1, <1>2 DEF Turn, Recorded
<1>5. Sole'
  BY <1>0, <1>1, <1>2 DEF Turn, Sole, Alive, Starting
<1>6. Awaited'
  BY <1>0, <1>1, <1>2 DEF Turn, Awaited, Starting
<1>7. Tokens'
  BY <1>0, <1>1, <1>2 DEF Turn, Tokens, Minted, PortAlive
<1>. QED BY <1>3, <1>4, <1>5, <1>6, <1>7 DEF Turn

(* The server a launch adds is the only one *)
LEMMA LaunchTurn ==
  ASSUME TypeOK, Turn, NEW w \in Windows, Launch(w)
  PROVE  Turn'
<1>0. pc[w] = "launch" /\ InResolve(w)
  BY DEF Launch, InResolve, Resolving, Starting
<1>1. /\ UNCHANGED <<pidFile, portFile, tokenFile, readyFile, logFile, accepts, begun, current, port, token, locked>>
      /\ Moves(w, "wait") /\ state' = [state EXCEPT ![begun] = "spawned"]
      /\ watching' = watching \cup {begun}
  BY <1>0, Others, GotoMoves DEF Launch, files
<1>2. /\ \A v \in Windows \ {w} : pc[v] \in {"idle", "connected"} /\ pc'[v] = pc[v]
      /\ pc'[w] = "wait" /\ begun \in Server
  BY <1>0, <1>1, Others DEF Moves
<1>3. /\ \A s \in Server : ~Alive(s)
      /\ state'[begun] = "spawned" /\ \A s \in Server \ {begun} : state'[s] = state[s]
  BY <1>0, <1>1, <1>2, TurnTypes DEF Turn, Sole
<1>4. watching' \cap Server \subseteq {begun} /\ readyFile = None
  BY <1>0, <1>1, <1>2 DEF Turn, Awaited
<1>5. watching \subseteq Server
  BY DEF TypeOK
<1>6. Turns'
  BY <1>0, <1>1, <1>2 DEF Turn, Turns, InResolve, Resolving, Locking, Starting
<1>7. Recorded'
  BY <1>0, <1>1, <1>2 DEF Turn, Recorded
<1>8. Sole'
  BY <1>0, <1>1, <1>2, <1>3 DEF Sole, Alive, Starting
<1>9. Awaited'
  <2>1. \A s \in Server : state'[s] # "wedged"
    BY <1>3 DEF Alive
  <2>2. watching' = {begun}
    BY <1>1, <1>2, <1>4, <1>5
  <2>. QED BY <1>1, <1>2, <1>3, <1>4, <2>1, <2>2 DEF Awaited
<1>10. Tokens'
  <2>1. \A s \in Server : state'[s] \notin {"booting", "up", "wedged"}
    BY <1>3 DEF Alive
  <2>2. token[w] = tokenFile /\ tokenFile # None
    BY <1>0 DEF Turn, Tokens, Minted
  <2>. QED BY <1>1, <1>2, <2>1, <2>2 DEF Tokens, Minted, PortAlive
<1>. QED BY <1>6, <1>7, <1>8, <1>9, <1>10 DEF Turn

(* A start fails only when its server is not, or no longer, there *)
LEMMA StartFailsTurn ==
  ASSUME TypeOK, Turn, NEW w \in Windows, pc[w] = "wait", StartFails(w),
         watching = {}, \A s \in Server : ~Alive(s)
  PROVE  Turn'
<1>0. pc[w] = "wait" /\ InResolve(w)
  BY DEF InResolve, Resolving, Starting
<1>1. /\ UNCHANGED <<pidFile, portFile, tokenFile, readyFile, logFile, state, accepts, watching, begun, current, port, token>>
      /\ Moves(w, "idle") /\ locked' \subseteq locked
  BY GotoMoves DEF StartFails, procs, Unlock
<1>2. /\ \A v \in Windows \ {w} : pc[v] \in {"idle", "connected"} /\ pc'[v] = pc[v]
      /\ pc'[w] = "idle"
  BY <1>0, <1>1, Others DEF Moves
<1>3. Turns'
  BY <1>0, <1>1, <1>2 DEF Turn, Turns, InResolve, Resolving, Locking, Starting
<1>4. Recorded'
  BY <1>0, <1>1, <1>2 DEF Turn, Recorded
<1>5. Sole'
  BY <1>0, <1>1, <1>2 DEF Sole, Alive, Starting
<1>6. Awaited'
  BY <1>0, <1>1, <1>2 DEF Awaited, Alive, Starting
<1>7. Tokens'
  BY <1>0, <1>1, <1>2 DEF Turn, Tokens, Minted, PortAlive
<1>. QED BY <1>3, <1>4, <1>5, <1>6, <1>7 DEF Turn

(* What the ready file holds is the port of the server being waited for *)
LEMMA ReadyFileReadTurn ==
  ASSUME TypeOK, Turn, NEW w \in Windows, ReadyFileRead(w)
  PROVE  Turn'
<1>0. pc[w] = "wait" /\ InResolve(w) /\ readyFile # None
  BY DEF ReadyFileRead, InResolve, Resolving, Starting
<1>1. readyFile = begun /\ state[begun] \in {"up", "gone"} /\ watching = {}
  BY <1>0 DEF Turn, Awaited
<1>2. begun \in Server /\ \A v \in Windows \ {w} : pc[v] \in {"idle", "connected"}
  BY <1>0, Others
<1>3. \A s \in Server : Alive(s) => s = begun
  BY <1>0 DEF Turn, Sole
<1>4. CASE PortAlive(readyFile)
  <2>1. /\ UNCHANGED <<pidFile, portFile, tokenFile, readyFile, logFile, state, accepts, watching, begun, current, token, locked>>
        /\ Moves(w, "finalize") /\ port' = [port EXCEPT ![w] = begun]
    BY <1>1, <1>4, GotoMoves DEF ReadyFileRead, files, procs
  <2>2. /\ \A v \in Windows \ {w} : /\ pc[v] \in {"idle", "connected"} /\ pc'[v] = pc[v]
                                    /\ port'[v] = port[v]
        /\ pc'[w] = "finalize" /\ port'[w] = begun
    BY <1>2, <2>1, TurnTypes DEF Moves
  <2>3. \A s \in Server : state[s] \notin {"spawned", "booting"}
    BY <1>1, <1>3 DEF Alive
  <2>4. Turns'
    BY <1>0, <2>1, <2>2 DEF Turn, Turns, InResolve, Resolving, Locking, Starting
  <2>5. Recorded'
    BY <1>0, <2>1, <2>2 DEF Turn, Recorded
  <2>6. Sole'
    BY <1>3, <2>1, <2>2 DEF Sole, Alive, Starting
  <2>7. Awaited'
    BY <1>0, <1>1, <2>1, <2>2, <2>3 DEF Turn, Awaited, Starting
  <2>8. Tokens'
    BY <1>0, <2>1, <2>2 DEF Turn, Tokens, Minted, PortAlive
  <2>. QED BY <2>4, <2>5, <2>6, <2>7, <2>8 DEF Turn
<1>5. CASE ~PortAlive(readyFile)
  <2>1. StartFails(w)
    BY <1>5 DEF ReadyFileRead
  <2>2. \A s \in Server : ~Alive(s)
    BY <1>1, <1>2, <1>3, <1>5 DEF Alive, PortAlive
  <2>. QED BY <1>0, <1>1, <2>1, <2>2, StartFailsTurn
<1>. QED BY <1>4, <1>5

LEMMA WaitTimeoutTurn ==
  ASSUME TypeOK, Turn, ~MayHappen("slow"), NEW w \in Windows, WaitTimeout(w)
  PROVE  Turn'
<1>0. pc[w] = "wait" /\ InResolve(w) /\ readyFile = None /\ StartFails(w) /\ current[w] \notin watching
  BY DEF WaitTimeout, InResolve, Resolving, Starting
<1>1. current[w] = begun
  BY <1>0, Others
<1>2. watching = {}
  BY <1>0, <1>1 DEF Turn, Awaited
<1>3. \A s \in Server : ~Alive(s)
  BY <1>0, <1>2 DEF Turn, Awaited
<1>. QED BY <1>0, <1>2, <1>3, StartFailsTurn

(* The process the pattern finds is the one that was started, if any *)
LEMMA FinalizeTurn ==
  ASSUME TypeOK, Turn, NEW w \in Windows, Finalize(w)
  PROVE  Turn'
<1>0. pc[w] = "finalize" /\ InResolve(w)
  BY DEF Finalize, InResolve, Resolving, Starting
<1>1. /\ UNCHANGED <<tokenFile, readyFile, logFile, state, accepts, watching, begun, current, port, token>>
      /\ Moves(w, "connected") /\ locked' \subseteq locked
  BY GotoMoves DEF Finalize, procs, Unlock
<1>2. /\ \A v \in Windows \ {w} : pc[v] \in {"idle", "connected"} /\ pc'[v] = pc[v]
      /\ pc'[w] = "connected" /\ begun \in Server
  BY <1>0, <1>1, Others DEF Moves
<1>3. /\ \A s \in Server : Alive(s) => s = begun
      /\ port[w] = begun
      /\ \A s \in Server : state[s] \notin {"spawned", "booting"} /\ s \notin watching
  BY <1>0, <1>2 DEF Turn, Sole, Recorded, Awaited
<1>4. \A s \in Matching : s = begun
  BY <1>3 DEF Matching, Alive
<1>5. /\ pidFile' = portFile' /\ pidFile' <= begun
      /\ \A s \in Server : Alive(s) => s = pidFile'
  <2>1. CASE Matching = {}
    <3>1. pidFile' = pidFile /\ portFile' = portFile
      BY <2>1 DEF Finalize
    <3>2. \A s \in Server : ~Alive(s)
      BY <1>3, <2>1 DEF Matching, Alive
    <3>. QED BY <3>1, <3>2, TurnTypes
  <2>2. CASE Matching # {}
    <3>1. pidFile' = begun /\ portFile' = begun
      BY <1>3, <1>4, <2>2 DEF Finalize
    <3>. QED BY <1>3, <3>1, TurnTypes
  <2>. QED BY <2>1, <2>2
<1>6. Turns'
  <2>1. port[w] <= begun
    BY <1>3, TurnTypes
  <2>. QED BY <1>0, <1>1, <1>2, <2>1 DEF Turn, Turns, InResolve, Resolving, Locking, Starting
<1>7. Recorded'
  BY <1>1, <1>2, <1>5 DEF Recorded
<1>8. Sole'
  <2>1. (\A s \in Server : Alive(s) => s = pidFile)'
    BY <1>1, <1>5 DEF Alive
  <2>. QED BY <1>2, <2>1 DEF Sole
<1>9. Awaited'
  BY <1>1, <1>2, <1>3 DEF Turn, Awaited, Starting
<1>10. Tokens'
  BY <1>0, <1>1, <1>2 DEF Turn, Tokens, Minted, PortAlive
<1>. QED BY <1>6, <1>7, <1>8, <1>9, <1>10 DEF Turn

(* A closed window that did not start the server leaves the files alone *)
LEMMA CloseTurn ==
  ASSUME TypeOK, Turn, ~MayHappen("close"), NEW w \in Windows, Close(w)
  PROVE  Turn'
<1>1. /\ UNCHANGED <<pidFile, portFile, tokenFile, readyFile, logFile, state, accepts, watching, begun, current, port, token, locked>>
      /\ Moves(w, "idle") /\ pc[w] = "connected"
  BY GotoMoves DEF Close, files, procs
<1>2. /\ \A v \in Windows \ {w} : pc'[v] = pc[v]
      /\ pc'[w] = "idle" /\ pc[w] = "connected"
  BY <1>1 DEF Moves
<1>3. Turns'
  BY <1>1, <1>2 DEF Turn, Turns, InResolve, Resolving, Locking, Starting
<1>4. Recorded'
  BY <1>1, <1>2 DEF Turn, Recorded, PortAlive
<1>5. Sole'
  BY <1>1, <1>2 DEF Turn, Sole, Alive, Starting
<1>6. Awaited'
  <2>1. \A v \in Windows : /\ pc'[v] = "wait" <=> pc[v] = "wait"
                           /\ pc'[v] = "launch" <=> pc[v] = "launch"
                           /\ pc'[v] \in Starting <=> pc[v] \in Starting
    BY <1>2 DEF Starting
  <2>2. /\ \A s \in Server : state'[s] \in {"spawned", "booting"} \/ s \in watching' =>
             \E v \in Windows : pc'[v] = "wait"
        /\ \A s \in Server : state'[s] = "wedged" => \A v \in Windows : pc'[v] \notin Starting
    BY <1>1, <2>1 DEF Turn, Awaited
  <2>3. \A v \in Windows : pc'[v] = "launch" => readyFile' = None
    BY <1>1, <2>1 DEF Turn, Awaited
  <2>4. ASSUME NEW v \in Windows, pc'[v] = "wait"
        PROVE  /\ watching \subseteq {begun}
               /\ watching # {} => readyFile = None
               /\ readyFile # None => readyFile = begun /\ state[begun] \in {"up", "gone"}
               /\ readyFile = None /\ watching = {} => \A s \in Server : ~Alive(s)
               /\ state[begun] # "spawned" =>
                    /\ logFile \in {None, begun}
                    /\ logFile = begun => state[begun] \in {"up", "gone"}
                    /\ state[begun] = "up" => logFile = begun
    BY <2>1, <2>4 DEF Turn, Awaited
  <2>. QED BY <1>1, <2>2, <2>3, <2>4 DEF Awaited, Alive
<1>7. Tokens'
  BY <1>1, <1>2 DEF Turn, Tokens, Minted, PortAlive
<1>. QED BY <1>3, <1>4, <1>5, <1>6, <1>7 DEF Turn

(* The server of a start in progress is the one that is waited for *)
LEMMA WaitedFor ==
  ASSUME TypeOK, Turn, NEW s \in Server, state[s] \in {"spawned", "booting"} \/ s \in watching
  PROVE  /\ s = begun
         /\ \E w \in Windows : /\ pc[w] = "wait"
                               /\ \A v \in Windows \ {w} : pc[v] \in {"idle", "connected"}
<1>1. PICK w \in Windows : pc[w] = "wait"
  BY DEF Turn, Awaited
<1>2. \A v \in Windows \ {w} : pc[v] \in {"idle", "connected"}
  BY <1>1, Others DEF InResolve, Resolving, Starting
<1>3. s = begun
  <2>1. watching \subseteq {begun}
    BY <1>1 DEF Turn, Awaited
  <2>2. Alive(s) => s = begun
    BY <1>1 DEF Turn, Sole
  <2>. QED BY <2>1, <2>2 DEF Alive
<1>. QED BY <1>1, <1>2, <1>3

LEMMA BootTurn ==
  ASSUME TypeOK, Turn, NEW s \in Server, Boot(s)
  PROVE  Turn'
<1>1. /\ UNCHANGED <<pidFile, portFile, tokenFile, readyFile, watching, pc, locked, begun, current, port, token>>
      /\ state[s] = "spawned" /\ logFile' = None
      /\ state' = [state EXCEPT ![s] = IF tokenFile = None THEN "gone" ELSE "booting"]
      /\ accepts' = [accepts EXCEPT ![s] = tokenFile]
  BY DEF Boot, wins
<1>2. PICK w \in Windows : pc[w] = "wait" /\ \A v \in Windows \ {w} : pc[v] \in {"idle", "connected"}
  BY <1>1, WaitedFor
<1>3. s = begun
  BY <1>1, WaitedFor
<1>4. tokenFile # None
  BY <1>2 DEF Turn, Tokens, Minted
<1>5. /\ state'[s] = "booting" /\ accepts'[s] = tokenFile
      /\ \A r \in Server \ {s} : state'[r] = state[r] /\ accepts'[r] = accepts[r]
  BY <1>1, <1>4, TurnTypes
<1>6. /\ \A r \in Server : Alive(r)' <=> Alive(r)
      /\ \A r : PortAlive(r)' <=> PortAlive(r)
  BY <1>1, <1>5 DEF Alive, PortAlive
<1>7. Turns'
  BY <1>1 DEF Turn, Turns, InResolve
<1>8. Recorded'
  BY <1>1, <1>6 DEF Turn, Recorded
<1>9. Sole'
  <2>1. Sole
    BY DEF Turn
  <2>. QED BY <1>1, <1>6, <2>1 DEF Sole
<1>10. Awaited'
  <2>1. readyFile = None /\ watching # {} /\ watching \subseteq {begun}
    BY <1>1, <1>2, <1>3 DEF Turn, Awaited, Alive
  <2>2. \A r \in Server : state'[r] = "wedged" => \A v \in Windows : pc[v] \notin Starting
    BY <1>5 DEF Turn, Awaited
  <2>3. \A v \in Windows : pc[v] # "launch"
    BY <1>2
  <2>. QED BY <1>1, <1>2, <1>3, <1>5, <2>1, <2>2, <2>3, TurnTypes DEF Awaited
<1>11. Tokens'
  <2>1. \A v \in Windows : pc[v] \in Minted => token[v] = tokenFile /\ tokenFile # None
    BY DEF Turn, Tokens
  <2>2. \A r \in Server : state'[r] \in {"booting", "up", "wedged"} => accepts'[r] = tokenFile
    BY <1>5 DEF Turn, Tokens
  <2>3. ASSUME NEW v \in Windows, pc[v] \in {"release", "connected"}, PortAlive(port[v])
        PROVE  token[v] = accepts'[port[v]]
    <3>1. port[v] \in Server /\ port[v] # s
      BY <1>1, <2>3 DEF PortAlive
    <3>. QED BY <1>5, <2>3, <3>1 DEF Turn, Tokens
  <2>. QED BY <1>1, <1>4, <1>6, <2>1, <2>2, <2>3 DEF Tokens
<1>. QED BY <1>7, <1>8, <1>9, <1>10, <1>11 DEF Turn

(* No connected window has the port of the server that is being started *)
LEMMA ListenTurn ==
  ASSUME TypeOK, Turn, NEW s \in Server, Listen(s)
  PROVE  Turn'
<1>1. /\ UNCHANGED <<pidFile, portFile, tokenFile, readyFile, accepts, watching, pc, locked, begun, current, port, token>>
      /\ state[s] = "booting" /\ logFile' = s /\ state' = [state EXCEPT ![s] = "up"]
  BY DEF Listen, wins
<1>2. PICK w \in Windows : pc[w] = "wait" /\ \A v \in Windows \ {w} : pc[v] \in {"idle", "connected"}
  BY <1>1, WaitedFor
<1>3. s = begun
  BY <1>1, WaitedFor
<1>4. state'[s] = "up" /\ \A r \in Server \ {s} : state'[r] = state[r]
  BY <1>1, TurnTypes
<1>5. \A r \in Server : Alive(r)' <=> Alive(r)
  BY <1>1, <1>4 DEF Alive
<1>6. Turns'
  BY <1>1 DEF Turn, Turns, InResolve
<1>7. Recorded'
  BY <1>1, <1>2 DEF Turn, Recorded
<1>8. Sole'
  <2>1. Sole
    BY DEF Turn
  <2>. QED BY <1>1, <1>5, <2>1 DEF Sole
<1>9. Awaited'
  <2>1. readyFile = None /\ watching # {} /\ watching \subseteq {begun}
    BY <1>1, <1>2, <1>3 DEF Turn, Awaited, Alive
  <2>2. \A r \in Server : state'[r] = "wedged" => \A v \in Windows : pc[v] \notin Starting
    BY <1>4 DEF Turn, Awaited
  <2>3. \A v \in Windows : pc[v] # "launch"
    BY <1>2
  <2>. QED BY <1>1, <1>2, <1>3, <1>4, <2>1, <2>2, <2>3, TurnTypes DEF Awaited
<1>10. Tokens'
  <2>1. \A v \in Windows : pc[v] \in Minted => token[v] = tokenFile /\ tokenFile # None
    BY DEF Turn, Tokens
  <2>2. \A r \in Server : state'[r] \in {"booting", "up", "wedged"} =>
          accepts[r] = tokenFile /\ tokenFile # None
    BY <1>1, <1>4 DEF Turn, Tokens
  <2>3. ASSUME NEW v \in Windows, pc[v] \in {"release", "connected"}, PortAlive(port[v])'
        PROVE  token[v] = accepts[port[v]]
    <3>1. port[v] # s
      BY <1>2, <1>3, <2>3 DEF Turn, Turns, InResolve, Resolving, Starting
    <3>2. PortAlive(port[v])
      BY <1>1, <1>4, <2>3, <3>1 DEF PortAlive
    <3>. QED BY <2>3, <3>2 DEF Turn, Tokens
  <2>. QED BY <1>1, <2>1, <2>2, <2>3 DEF Tokens
<1>. QED BY <1>6, <1>7, <1>8, <1>9, <1>10 DEF Turn

(* The line the wrapper reads is its own server's *)
LEMMA WatchTurn ==
  ASSUME TypeOK, Turn, ~MayHappen("late"), NEW s \in Server, Watch(s)
  PROVE  Turn'
<1>1. /\ UNCHANGED <<pidFile, portFile, tokenFile, logFile, state, accepts, pc, locked, begun, current, port, token>>
      /\ s \in watching /\ state[s] # "spawned" /\ logFile # None
      /\ readyFile' = logFile /\ watching' = watching \ {s}
  BY DEF Watch, wins
<1>2. PICK w \in Windows : pc[w] = "wait" /\ \A v \in Windows \ {w} : pc[v] \in {"idle", "connected"}
  BY <1>1, WaitedFor
<1>3. s = begun
  BY <1>1, WaitedFor
<1>4. logFile = begun /\ state[begun] \in {"up", "gone"} /\ watching' = {}
  BY <1>1, <1>2, <1>3 DEF Turn, Awaited
<1>5. Turns'
  BY <1>1 DEF Turn, Turns, InResolve
<1>6. Recorded'
  BY <1>1 DEF Turn, Recorded, PortAlive
<1>7. Sole'
  BY <1>1 DEF Turn, Sole, Alive
<1>8. Awaited'
  <2>1. \A r \in Server : state[r] = "wedged" => \A v \in Windows : pc[v] \notin Starting
    BY DEF Turn, Awaited
  <2>2. \A v \in Windows : pc[v] # "launch"
    BY <1>2
  <2>3. state[begun] = "up" => logFile = begun
    BY <1>4
  <2>. QED BY <1>1, <1>2, <1>4, <2>1, <2>2, <2>3 DEF Awaited
<1>9. Tokens'
  BY <1>1 DEF Turn, Tokens, PortAlive
<1>. QED BY <1>5, <1>6, <1>7, <1>8, <1>9 DEF Turn

(* A wrapper gives up on a server that has gone *)
LEMMA GiveUpTurn ==
  ASSUME TypeOK, Turn, ~MayHappen("slow"), NEW s \in Server, GiveUp(s)
  PROVE  Turn'
<1>1. /\ UNCHANGED <<pidFile, portFile, tokenFile, readyFile, logFile, state, accepts, pc, locked, begun, current, port, token>>
      /\ s \in watching /\ state[s] \notin {"spawned", "booting"} /\ logFile = None
      /\ watching' = watching \ {s}
  BY DEF GiveUp, wins, files
<1>2. PICK w \in Windows : pc[w] = "wait" /\ \A v \in Windows \ {w} : pc[v] \in {"idle", "connected"}
  BY <1>1, WaitedFor
<1>3. s = begun
  BY <1>1, WaitedFor
<1>4. watching' = {} /\ readyFile = None /\ \A r \in Server : Alive(r) => r = begun
  BY <1>1, <1>2, <1>3 DEF Turn, Awaited, Sole
<1>5. state[begun] \notin {"up", "wedged"}
  <2>1. state[begun] # "up"
    BY <1>1, <1>2, <1>3, TurnTypes DEF Turn, Awaited
  <2>2. state[begun] # "wedged"
    BY <1>2, <1>3 DEF Turn, Awaited, Starting
  <2>. QED BY <2>1, <2>2
<1>6. \A r \in Server : ~Alive(r)
  BY <1>1, <1>3, <1>4, <1>5 DEF Alive
<1>7. Turns'
  BY <1>1 DEF Turn, Turns, InResolve
<1>8. Recorded'
  BY <1>1 DEF Turn, Recorded, PortAlive
<1>9. Sole'
  BY <1>1 DEF Turn, Sole, Alive
<1>10. Awaited'
  <2>1. \A r \in Server : state[r] \notin {"spawned", "booting", "up", "wedged"}
    BY <1>6 DEF Alive
  <2>2. \A v \in Windows : pc[v] # "launch"
    BY <1>2
  <2>3. state[begun] # "up"
    BY <1>3, <2>1
  <2>4. begun # None
    BY <1>3, TurnTypes
  <2>. QED BY <1>1, <1>2, <1>4, <2>1, <2>2, <2>3, <2>4 DEF Awaited, Alive
<1>11. Tokens'
  BY <1>1 DEF Turn, Tokens, PortAlive
<1>. QED BY <1>7, <1>8, <1>9, <1>10, <1>11 DEF Turn

(* A server hangs after its start only *)
LEMMA WedgeTurn ==
  ASSUME TypeOK, Turn, ~MayHappen("hang"), NEW s \in Server, Wedge(s)
  PROVE  Turn'
<1>1. /\ UNCHANGED <<pidFile, portFile, tokenFile, readyFile, logFile, accepts, watching, pc, locked, begun, current, port, token>>
      /\ state[s] = "up" /\ state' = [state EXCEPT ![s] = "wedged"]
      /\ \A w \in Windows : current[w] = s => pc[w] \notin Starting
  BY DEF Wedge, wins, files
<1>2. \A w \in Windows : pc[w] \notin Starting
  <2> SUFFICES ASSUME NEW w \in Windows, pc[w] \in Starting PROVE FALSE
    OBVIOUS
  <2>1. Alive(s)
    BY <1>1 DEF Alive
  <2>2. s = begun
    BY <2>1 DEF Turn, Sole, Starting
  <2>3. current[w] = begun
    BY Others DEF InResolve, Resolving
  <2>. QED BY <1>1, <2>2, <2>3
<1>3. state'[s] = "wedged" /\ \A r \in Server \ {s} : state'[r] = state[r]
  BY <1>1, TurnTypes
<1>4. \A r \in Server : Alive(r)' <=> Alive(r)
  BY <1>1, <1>3 DEF Alive
<1>5. \A r : PortAlive(r)' => PortAlive(r)
  BY <1>3 DEF PortAlive
<1>6. Turns'
  BY <1>1 DEF Turn, Turns, InResolve
<1>7. Recorded'
  BY <1>1, <1>5 DEF Turn, Recorded
<1>8. Sole'
  <2>1. Sole
    BY DEF Turn
  <2>. QED BY <1>1, <1>4, <2>1 DEF Sole
<1>9. Awaited'
  <2>1. \A v \in Windows : pc[v] \notin {"launch", "wait"}
    BY <1>2 DEF Starting
  <2>2. \A r \in Server : state'[r] \notin {"spawned", "booting"} /\ r \notin watching
    BY <1>3, <2>1 DEF Turn, Awaited
  <2>. QED BY <1>1, <1>2, <2>1, <2>2 DEF Awaited
<1>10. Tokens'
  <2>1. \A v \in Windows : pc[v] \in Minted => token[v] = tokenFile /\ tokenFile # None
    BY DEF Turn, Tokens
  <2>2. \A r \in Server : state'[r] \in {"booting", "up", "wedged"} =>
          accepts[r] = tokenFile /\ tokenFile # None
    BY <1>1, <1>3 DEF Turn, Tokens
  <2>3. \A v \in Windows : pc[v] \in {"release", "connected"} /\ PortAlive(port[v]) =>
          token[v] = accepts[port[v]]
    BY DEF Turn, Tokens
  <2>. QED BY <1>1, <1>5, <2>1, <2>2, <2>3 DEF Tokens
<1>. QED BY <1>6, <1>7, <1>8, <1>9, <1>10 DEF Turn

LEMMA DieTurn ==
  ASSUME TypeOK, Turn, NEW s \in Server, Die(s)
  PROVE  Turn'
<1>1. /\ UNCHANGED <<pidFile, portFile, tokenFile, readyFile, logFile, accepts, watching, pc, locked, begun, current, port, token>>
      /\ state[s] \in {"booting", "up", "wedged"} /\ state' = [state EXCEPT ![s] = "gone"]
  BY DEF Die, wins, files
<1>2. state'[s] = "gone" /\ \A r \in Server \ {s} : state'[r] = state[r]
  BY <1>1, TurnTypes
<1>3. \A r \in Server : Alive(r)' => Alive(r)
  BY <1>1, <1>2 DEF Alive
<1>4. \A r : PortAlive(r)' => PortAlive(r)
  BY <1>2 DEF PortAlive
<1>5. Turns'
  BY <1>1 DEF Turn, Turns, InResolve
<1>6. Recorded'
  BY <1>1, <1>4 DEF Turn, Recorded
<1>7. Sole'
  <2>1. Sole
    BY DEF Turn
  <2>. QED BY <1>1, <1>3, <2>1 DEF Sole
<1>8. Awaited'
  <2>1. /\ \A r \in Server : state'[r] \in {"spawned", "booting"} \/ r \in watching =>
             \E v \in Windows : pc[v] = "wait"
        /\ \A r \in Server : state'[r] = "wedged" => \A v \in Windows : pc[v] \notin Starting
        /\ \A v \in Windows : pc[v] = "launch" => readyFile = None
    BY <1>2 DEF Turn, Awaited
  <2>2. ASSUME NEW v \in Windows, pc[v] = "wait"
        PROVE  /\ watching \subseteq {begun}
               /\ watching # {} => readyFile = None
               /\ readyFile # None => readyFile = begun /\ state'[begun] \in {"up", "gone"}
               /\ readyFile = None /\ watching = {} => \A r \in Server : ~Alive(r)
               /\ state'[begun] # "spawned" =>
                    /\ logFile \in {None, begun}
                    /\ logFile = begun => state'[begun] \in {"up", "gone"}
                    /\ state'[begun] = "up" => logFile = begun
    <3>1. begun \in Server
      BY <2>2, Others DEF InResolve, Resolving, Starting
    <3>2. state'[begun] = state[begun] \/ (state'[begun] = "gone" /\ state[begun] # "spawned")
      BY <1>1, <1>2, <3>1
    <3>. QED BY <2>2, <3>2 DEF Turn, Awaited
  <2>. QED BY <1>1, <1>3, <2>1, <2>2 DEF Awaited
<1>9. Tokens'
  <2>1. \A v \in Windows : pc[v] \in Minted => token[v] = tokenFile /\ tokenFile # None
    BY DEF Turn, Tokens
  <2>2. \A r \in Server : state'[r] \in {"booting", "up", "wedged"} =>
          accepts[r] = tokenFile /\ tokenFile # None
    BY <1>2 DEF Turn, Tokens
  <2>3. \A v \in Windows : pc[v] \in {"release", "connected"} /\ PortAlive(port[v]) =>
          token[v] = accepts[port[v]]
    BY DEF Turn, Tokens
  <2>. QED BY <1>1, <1>4, <2>1, <2>2, <2>3 DEF Tokens
<1>. QED BY <1>5, <1>6, <1>7, <1>8, <1>9 DEF Turn

LEMMA TurnNext ==
  ASSUME TypeOK, LockInv, HeldInv, TurnInv, [Next]_vars
  PROVE  TurnInv'
<1> SUFFICES ASSUME TimelyTurns' PROVE Turn'
  BY DEF TurnInv
<1>p. plan' = plan
  BY DEF Next, ResolveStep, ServerStep, Unforced, vars
<1>0. /\ Turn /\ Undisturbed /\ ~MayHappen("crash") /\ ~MayHappen("overlap")
      /\ ~MayHappen("close") /\ ~MayHappen("slow") /\ ~MayHappen("age")
      /\ ~MayHappen("throw") /\ ~MayHappen("late") /\ ~MayHappen("hang")
  <2>1. TimelyTurns
    BY <1>p DEF TimelyTurns
  <2>. QED BY <2>1 DEF TurnInv, TimelyTurns, Undisturbed, MayHappen
<1>1. CASE UNCHANGED vars
  BY <1>0, <1>1 DEF vars, files, procs, wins, Turn, Turns, Recorded, Sole, Awaited, Tokens,
     InResolve, Alive, PortAlive
<1>2. ASSUME NEW w \in Windows, ResolveStep(w) PROVE Turn'
  <2>1. CASE Mkdir(w) \/ StatLock(w) \/ RemoveLock(w) \/ RemakeLock(w)
    BY <1>0, <2>1, MkdirTurn, ReclaimTurn
  <2>2. CASE Probe(w) \/ Cleanup(w) \/ ReadToken(w) \/ ReuseDone(w)
    BY <1>0, <2>2, ProbeTurn, CleanupTurn, ReadTokenTurn, ReuseDoneTurn
  <2>3. CASE WriteToken(w) \/ RmReady(w) \/ Launch(w)
    BY <1>0, <2>3, WriteTokenTurn, RmReadyTurn, LaunchTurn
  <2>4. CASE ReadyFileRead(w) \/ WaitTimeout(w) \/ Finalize(w)
    BY <1>0, <2>4, ReadyFileReadTurn, WaitTimeoutTurn, FinalizeTurn
  <2>. QED BY <1>2, <2>1, <2>2, <2>3, <2>4 DEF ResolveStep
<1>3. ASSUME NEW s \in Server, ServerStep(s) PROVE Turn'
  BY <1>0, <1>3, BootTurn, ListenTurn, WatchTurn, GiveUpTurn DEF ServerStep
<1>4. ASSUME Unforced PROVE Turn'
  <2>1. ASSUME NEW w \in Windows, Begin(w) \/ Close(w) \/ Crash(w) \/ Throws(w) PROVE Turn'
    BY <1>0, <2>1, BeginTurn, CloseTurn DEF Crash, Throws
  <2>4. ~\E w \in Windows, what \in Removals : Remove(w, what)
    BY <1>0 DEF LockInv, Remove
  <2>2. ASSUME NEW s \in Server, Wedge(s) \/ Die(s) PROVE Turn'
    BY <1>0, <2>2, WedgeTurn, DieTurn
  <2>3. ~Age
    BY <1>0 DEF Age
  <2>. QED BY <1>4, <2>1, <2>2, <2>3, <2>4 DEF Unforced
<1>. QED BY <1>1, <1>2, <1>3, <1>4 DEF Next

LEMMA TurnInvariant == Spec => []TurnInv
<1>1. Init => TurnInv
  <2> SUFFICES ASSUME Init PROVE Turn
    BY DEF TurnInv
  <2>1. Turns
    BY BoundAssumption DEF Init, Turns, InResolve, Resolving, Locking, Starting, None
  <2>2. Recorded /\ Sole /\ Awaited /\ Tokens
    BY DEF Init, Recorded, Sole, Awaited, Tokens, Minted, Alive, PortAlive, None
  <2>. QED BY <2>1, <2>2 DEF Turn
<1>2. TypeOK /\ LockInv /\ HeldInv /\ TurnInv /\ [Next]_vars => TurnInv'
  BY TurnNext
<1>. QED BY <1>1, <1>2, TypeCorrect, LockInvariant, HeldInvariant, PTL DEF Spec

(* In timely turns the two metadata files describe one server: serverFinalize *)
(* writes them together and for the server that was started, serverCleanup   *)
(* removes both.  Servers may exit at any time and hang once recorded; a      *)
(* start that is late or hangs is what TimelyTurns leaves out.               *)
THEOREM RecordAgrees == Spec => []MetadataAgrees
<1>1. TurnInv => MetadataAgrees
  BY DEF TurnInv, Turn, Recorded, MetadataAgrees
<1>. QED BY <1>1, TurnInvariant, PTL

(* In timely turns a connected window's token is its server's: a reuse reads *)
(* the token file, and no start rewrites that file while another server runs *)
THEOREM TokenIsAccepted == Spec => []TokenAccepted
<1>1. TurnInv => TokenAccepted
  BY DEF TurnInv, Turn, Tokens, TokenAccepted
<1>. QED BY <1>1, TurnInvariant, PTL

(* In timely turns a healthy server that a window uses is the one the files *)
(* name, so the next resolve reuses it and does not start a second          *)
THEOREM UsedIsRecorded == Spec => []UsedServerOnRecord
<1>1. TypeOK /\ TurnInv => UsedServerOnRecord
  <2> SUFFICES ASSUME TypeOK, Turn, NEW v \in Windows, pc[v] = "connected", PortAlive(port[v])
               PROVE  portFile = port[v]
    BY DEF TurnInv, UsedServerOnRecord
  <2>1. Alive(port[v]) /\ port[v] \in Server
    BY UpIsAlive DEF PortAlive
  <2>2. \A w \in Windows : pc[w] \notin Starting
    <3> SUFFICES ASSUME NEW w \in Windows, pc[w] \in Starting PROVE FALSE
      OBVIOUS
    <3>1. port[v] = begun
      BY <2>1 DEF Turn, Sole, Starting
    <3>2. InResolve(w)
      BY DEF InResolve, Resolving
    <3>. QED BY <3>1, <3>2 DEF Turn, Turns
  <2>. QED BY <2>1, <2>2 DEF Turn, Sole, Recorded
<1>. QED BY <1>1, TypeCorrect, TurnInvariant, PTL

(* In timely turns the zombie sweep kills no healthy server that another     *)
(* window uses: when a resolve comes to serverCleanup the only server alive   *)
(* does not answer                                                            *)
THEOREM SweepIsSafe == Spec => SweepSparesUsed
<1>1. TypeOK /\ TurnInv /\ [Next]_vars =>
        [TimelyTurns =>
           \A w, v \in Windows :
             Cleanup(w) /\ pc[v] = "connected" /\ PortAlive(port[v])
               => PortAlive(port[v])']_vars
  <2> SUFFICES ASSUME TypeOK, Turn, NEW w \in Windows, NEW v \in Windows,
                      Cleanup(w), PortAlive(port[v])
               PROVE  FALSE
    BY DEF TurnInv
  <2>0. pc[w] = "cleanup" /\ InResolve(w)
    BY DEF Cleanup, InResolve, Resolving
  <2>1. \A u \in Windows : pc[u] \notin Starting
    BY <2>0, Others DEF Starting
  <2>2. Alive(port[v]) /\ port[v] \in Server
    BY UpIsAlive DEF PortAlive
  <2>3. port[v] = pidFile /\ pidFile = portFile
    BY <2>1, <2>2 DEF Turn, Sole, Recorded
  <2>4. ~PortAlive(portFile)
    BY <2>0 DEF Turn, Recorded
  <2>. QED BY <2>3, <2>4
<1>. QED BY <1>1, TypeCorrect, TurnInvariant, PTL DEF Spec, SweepSparesUsed

=============================================================================
