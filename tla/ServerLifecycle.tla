--------------------------- MODULE ServerLifecycle --------------------------
(***************************************************************************)
(* Who starts, records, reuses and kills the IDE server of one install path *)
(* on one remote host: the resolve of several windows (resolveFlow in       *)
(* src/src/resolver/index.ts, src/src/remote/lifecycle.ts), the Go          *)
(* transport's operations (src/go/tunnel/zygos.go) and the start wrapper    *)
(* (src/scripts/sshSession/start-server.sh).                                *)
(*                                                                          *)
(* Resolves are numbered as they begin.  A server stands for its pid and its *)
(* port, which are not reused, and has the number of the resolve that       *)
(* launched it; a generated token has the number of the resolve that        *)
(* generated it.  Windows share nothing but the remote files; every         *)
(* operation on them is one step of the remote side, and the steps of       *)
(* different windows interleave.                                            *)
(*                                                                          *)
(* Abstracted: the home directory, auth files, busybox, the text of files   *)
(* other than who wrote them.  A broken connection is a crash: nothing that *)
(* the window still wants to undo reaches the remote.                       *)
(***************************************************************************)
EXTENDS Integers, FiniteSets

CONSTANTS
  Windows,     \* windows, on one or several machines
  MaxResolves, \* bound: resolves ever begun
  Plans        \* the courses of events considered, see Plan

FaultKinds ==
  { "overlap",   \* a resolve begins while another one runs
    "crash",     \* a window is killed or loses its connection half-way
    "throw",     \* an operation on the remote fails
    "age",       \* an abandoned lock gets older than LOCK_STALE_AGE_SEC
    "close",     \* a window that owns its server is closed
    "exit",      \* a server exits by itself, or hangs once it is recorded
    "hang",      \* a server hangs while the resolve that started it runs
    "late",      \* a wrapper looks at the log before it has emptied it
    "slow" }     \* a start outlives the 60s that are waited for it

(* A course of events: how many resolves there are, and what happens beside  *)
(* them that the environment is not obliged to do                           *)
Plan == [resolves : 0..MaxResolves, faults : SUBSET FaultKinds]

ASSUME BoundAssumption == MaxResolves \in Nat \ {0}
ASSUME PlansAssumption == Plans \subseteq Plan
ASSUME NoneAssumption == {"none", "stranger"} \cap Windows = {}

Nobody == "none"     \* no lock directory
Stranger == "stranger"   \* a window that crashed before this history begins
None == 0            \* no such file, no server, no token
Resolve == 1..MaxResolves
Server == Resolve
Token == Resolve

VARIABLES
  \* the files, on the remote
  lock,       \* .resolve-lock: the window whose mkdir made it, or Nobody
  aged,       \* it is older than the stale age
  pidFile,    \* .server.pid
  portFile,   \* .server.port
  tokenFile,  \* conn-token-<install>
  readyFile,  \* server-ready, shared by every start
  logFile,    \* server-start.log: the server whose listening line is last
  \* the processes, on the remote
  state,      \* of each server: unborn, spawned, booting, up, wedged, gone
  accepts,    \* the token each server was started with
  watching,   \* servers whose start wrapper still polls the log
  \* the windows
  pc,         \* where each resolve is
  locked,     \* windows told that they hold the lock
  begun,      \* resolves begun so far
  current,    \* the number of each window's latest resolve
  port,       \* the server each window will connect to
  token,      \* the token it will connect with
  owners,     \* windows with ownsServer
  leaving,    \* the removals that closed owners have sent off
  abandoned,  \* history: the windows that left their lock on the remote
  plan        \* the course of events, fixed from the start

files == <<lock, aged, pidFile, portFile, tokenFile, readyFile, logFile>>
procs == <<state, accepts, watching>>
ends == <<leaving, abandoned>>
wins  == <<pc, locked, begun, current, port, token, owners, ends>>
vars  == <<files, procs, wins, plan>>

State == {"unborn", "spawned", "booting", "up", "wedged", "gone"}

Locking == {"mkdir", "stat", "remove", "remake"}
Starting == {"mint", "rmready", "launch", "wait", "finalize"}
Resolving == Locking \cup {"probe", "cleanup", "retoken", "release"} \cup Starting
Pc == Resolving \cup {"idle", "connected"}

(* What a closed owner removes: conn-token, the two metadata files, the lock *)
Removals == {"token", "metadata", "lock"}

TypeOK ==
  /\ lock \in Windows \cup {Nobody, Stranger}
  /\ aged \in BOOLEAN
  /\ pidFile \in Server \cup {None} /\ portFile \in Server \cup {None}
  /\ readyFile \in Server \cup {None} /\ logFile \in Server \cup {None}
  /\ tokenFile \in Token \cup {None}
  /\ state \in [Server -> State]
  /\ accepts \in [Server -> Token \cup {None}]
  /\ watching \subseteq Server
  /\ pc \in [Windows -> Pc]
  /\ locked \subseteq Windows
  /\ begun \in 0..MaxResolves
  /\ current \in [Windows -> Resolve \cup {None}]
  /\ port \in [Windows -> Server \cup {None}]
  /\ token \in [Windows -> Token \cup {None}]
  /\ owners \subseteq Windows
  /\ leaving \subseteq Windows \X Removals
  /\ abandoned \subseteq Windows
  /\ plan \in Plans

MayHappen(fault) == fault \in plan.faults

Init ==
  /\ plan \in Plans
  /\ lock \in IF MayHappen("crash") THEN {Nobody, Stranger} ELSE {Nobody}
  /\ aged = FALSE
  /\ pidFile = None /\ portFile = None
  /\ tokenFile = None
  /\ readyFile = None /\ logFile = None
  /\ state = [s \in Server |-> "unborn"]
  /\ accepts = [s \in Server |-> None]
  /\ watching = {}
  /\ pc = [w \in Windows |-> "idle"]
  /\ locked = {}
  /\ begun = 0
  /\ current = [w \in Windows |-> None]
  /\ port = [w \in Windows |-> None]
  /\ token = [w \in Windows |-> None]
  /\ owners = {} /\ leaving = {} /\ abandoned = {}

(* A process with the install path in its command line exists *)
Alive(s) == s \in Server /\ state[s] \in {"spawned", "booting", "up", "wedged"}

(* Something accepts connections on its port *)
PortAlive(s) == s \in Server /\ state[s] = "up"

Goto(w, label) == pc' = [pc EXCEPT ![w] = label]

-----------------------------------------------------------------------------
(* The resolve lock: opLock of the transport, or the first lines of the     *)
(* lock-and-probe script                                                    *)

Begin(w) ==
  /\ pc[w] = "idle"
  /\ MayHappen("overlap") \/ \A v \in Windows : pc[v] \notin Resolving
  /\ begun < plan.resolves
  /\ begun' = begun + 1
  /\ current' = [current EXCEPT ![w] = begun + 1]
  /\ Goto(w, "mkdir")
  /\ port' = [port EXCEPT ![w] = None]
  /\ token' = [token EXCEPT ![w] = None]
  /\ UNCHANGED <<files, procs, locked, owners, ends>>

(* mkdir made the directory: the window is told so and probes *)
TakeLock(w) ==
  /\ lock = Nobody
  /\ lock' = w
  /\ aged' = FALSE
  /\ locked' = locked \cup {w}
  /\ Goto(w, "probe")

Mkdir(w) ==
  /\ pc[w] = "mkdir"
  /\ \/ TakeLock(w)
     \/ /\ lock # Nobody
        /\ Goto(w, "stat")
        /\ UNCHANGED <<lock, aged, locked>>
  /\ UNCHANGED <<pidFile, portFile, tokenFile, readyFile, logFile, procs,
                 begun, current, port, token, owners, ends>>

(* mutant: a lock of any age is reclaimed *)
StatLock_NoAge(w) ==
  /\ pc[w] = "stat"
  /\ IF lock # Nobody THEN Goto(w, "remove") ELSE Goto(w, "mint")
  /\ UNCHANGED <<files, procs, locked, begun, current, port, token, owners, ends>>

(* A lock that is not stale, or has just gone, is not acquired; resolveFlow *)
(* then goes on without it, and without a probe it starts a server.         *)
StatLock(w) ==
  /\ pc[w] = "stat"
  /\ IF lock # Nobody /\ aged THEN Goto(w, "remove") ELSE Goto(w, "mint")
  /\ UNCHANGED <<files, procs, locked, begun, current, port, token, owners, ends>>

RemoveLock(w) ==
  /\ pc[w] = "remove"
  /\ lock' = Nobody
  /\ aged' = FALSE
  /\ Goto(w, "remake")
  /\ UNCHANGED <<pidFile, portFile, tokenFile, readyFile, logFile, procs,
                 locked, begun, current, port, token, owners, ends>>

RemakeLock(w) ==
  /\ pc[w] = "remake"
  /\ \/ TakeLock(w)
     \/ /\ lock # Nobody
        /\ Goto(w, "mint")
        /\ UNCHANGED <<lock, aged, locked>>
  /\ UNCHANGED <<pidFile, portFile, tokenFile, readyFile, logFile, procs,
                 begun, current, port, token, owners, ends>>

(* rm -rf of the lock directory, by a window that was told it holds it *)
Unlock(w) ==
  /\ lock' = IF w \in locked THEN Nobody ELSE lock
  /\ aged' = IF w \in locked THEN FALSE ELSE aged
  /\ locked' = locked \ {w}

-----------------------------------------------------------------------------
(* The probe, and the reuse of a running server *)

(* mutant: a server whose port answers is taken for a zombie *)
Probe_NoReuse(w) ==
  /\ pc[w] = "probe"
  /\ IF pidFile = None THEN Goto(w, "mint") ELSE Goto(w, "cleanup")
  /\ UNCHANGED <<files, procs, locked, begun, current, port, token, owners, ends>>

(* serverStatus: the pid in one file is alive, the port in the other answers *)
Probe(w) ==
  /\ pc[w] = "probe"
  /\ \/ /\ Alive(pidFile) /\ PortAlive(portFile)
        /\ port' = [port EXCEPT ![w] = portFile]
        /\ Goto(w, "retoken")
     \/ /\ pidFile = None
        /\ Goto(w, "mint")
        /\ UNCHANGED port
     \/ /\ pidFile # None /\ ~(Alive(pidFile) /\ PortAlive(portFile))
        /\ Goto(w, "cleanup")
        /\ UNCHANGED port
  /\ UNCHANGED <<files, procs, locked, begun, current, token, owners, ends>>

(* mutant: the files of a zombie go, the zombie stays *)
Cleanup_FilesOnly(w) ==
  /\ pc[w] = "cleanup"
  /\ pidFile' = None
  /\ portFile' = None
  /\ Goto(w, "mint")
  /\ UNCHANGED <<procs, lock, aged, tokenFile, readyFile, logFile,
                 locked, begun, current, port, token, owners, ends>>

(* serverCleanup: kill the recorded pid and every other process under the   *)
(* install path, then remove the files.  For a pid that is dead already the *)
(* script removes the files only, the transport sweeps all the same.        *)
Cleanup(w) ==
  /\ pc[w] = "cleanup"
  /\ \E sweep \in IF Alive(pidFile) THEN {TRUE} ELSE BOOLEAN :
       /\ state' = [s \in Server |-> IF sweep /\ Alive(s) THEN "gone" ELSE state[s]]
       /\ watching' = IF sweep THEN {} ELSE watching
  /\ pidFile' = None
  /\ portFile' = None
  /\ Goto(w, "mint")
  /\ UNCHANGED <<lock, aged, tokenFile, readyFile, logFile, accepts,
                 locked, begun, current, port, token, owners, ends>>

(* generateToken and writeConnectionTokenFile *)
Mint(w) ==
  /\ token' = [token EXCEPT ![w] = current[w]]
  /\ tokenFile' = current[w]

(* mutant: the reusing window goes by a token of its own *)
ReadToken_Mint(w) ==
  /\ pc[w] = "retoken"
  /\ Mint(w)
  /\ Goto(w, "release")
  /\ UNCHANGED <<lock, aged, pidFile, portFile, readyFile, logFile, procs,
                 locked, begun, current, port, owners, ends>>

(* Reuse: the token is the one in the file; without one, a new one is       *)
(* written for a server that has been started with another.                 *)
ReadToken(w) ==
  /\ pc[w] = "retoken"
  /\ \/ /\ tokenFile # None
        /\ token' = [token EXCEPT ![w] = tokenFile]
        /\ UNCHANGED tokenFile
     \/ /\ tokenFile = None
        /\ Mint(w)
  /\ Goto(w, "release")
  /\ UNCHANGED <<lock, aged, pidFile, portFile, readyFile, logFile, procs,
                 locked, begun, current, port, owners, ends>>

(* Reuse: release the lock; the flow does not own the server *)
ReuseDone(w) ==
  /\ pc[w] = "release"
  /\ Unlock(w)
  /\ owners' = owners \ {w}
  /\ Goto(w, "connected")
  /\ UNCHANGED <<pidFile, portFile, tokenFile, readyFile, logFile, procs,
                 begun, current, port, token, ends>>

-----------------------------------------------------------------------------
(* Starting a server: startServerSession, then finalizeServerStart *)

WriteToken(w) ==
  /\ pc[w] = "mint"
  /\ Mint(w)
  /\ Goto(w, "rmready")
  /\ UNCHANGED <<lock, aged, pidFile, portFile, readyFile, logFile, procs,
                 locked, begun, current, port, owners, ends>>

RmReady(w) ==
  /\ pc[w] = "rmready"
  /\ readyFile' = None
  /\ Goto(w, "launch")
  /\ UNCHANGED <<lock, aged, pidFile, portFile, tokenFile, logFile, procs,
                 locked, begun, current, port, token, owners, ends>>

(* The wrapper is started in the background, and the server by it *)
Launch(w) ==
  /\ pc[w] = "launch"
  /\ state' = [state EXCEPT ![current[w]] = "spawned"]
  /\ watching' = watching \cup {current[w]}
  /\ Goto(w, "wait")
  /\ UNCHANGED <<files, accepts, locked, begun, current, port, token, owners, ends>>

(* mutant: the error of a failed start leaves the lock behind *)
StartFails_KeepLock(w) ==
  /\ locked' = locked \ {w}
  /\ Goto(w, "idle")
  /\ UNCHANGED <<files, procs, begun, current, port, token, owners, ends>>

(* The start throws: resolveFlow's catch releases the lock *)
StartFails(w) ==
  /\ Unlock(w)
  /\ Goto(w, "idle")
  /\ UNCHANGED <<pidFile, portFile, tokenFile, readyFile, logFile, procs,
                 begun, current, port, token, owners, ends>>

(* waitForFile returned a port and verifyServerPort dialled it *)
ReadyFileRead(w) ==
  /\ pc[w] = "wait"
  /\ readyFile # None
  /\ \/ /\ PortAlive(readyFile)
        /\ port' = [port EXCEPT ![w] = readyFile]
        /\ Goto(w, "finalize")
        /\ UNCHANGED <<files, procs, locked, begun, current, token, owners, ends>>
     \/ /\ ~PortAlive(readyFile)
        /\ StartFails(w)

(* mutant: waitForFile has no deadline *)
WaitTimeout_Never(w) == FALSE

(* waitForFile gives up after 60s, which the wrapper has polled as well *)
WaitTimeout(w) ==
  /\ pc[w] = "wait"
  /\ readyFile = None
  /\ MayHappen("slow") \/ current[w] \notin watching
  /\ StartFails(w)

(* Processes the server pattern finds: it is pgrep -o or the first of the   *)
(* pids in directory order, neither of which is w's own server for sure.    *)
Matching == {s \in Server : state[s] \in {"booting", "up", "wedged"}}

(* mutant: the pid is recorded, the port is not *)
Finalize_NoPort(w) ==
  /\ pc[w] = "finalize"
  /\ IF Matching = {}
       THEN UNCHANGED pidFile
       ELSE pidFile' \in Matching
  /\ Unlock(w)
  /\ owners' = owners \cup {w}
  /\ Goto(w, "connected")
  /\ UNCHANGED <<portFile, tokenFile, readyFile, logFile, procs,
                 begun, current, port, token, ends>>

(* serverFinalize: probe the pid, write both files, release the lock if held *)
Finalize(w) ==
  /\ pc[w] = "finalize"
  /\ IF Matching = {}
       THEN UNCHANGED <<pidFile, portFile>>
       ELSE pidFile' \in Matching /\ portFile' = port[w]
  /\ Unlock(w)
  /\ owners' = owners \cup {w}
  /\ Goto(w, "connected")
  /\ UNCHANGED <<tokenFile, readyFile, logFile, procs, begun, current, port, token, ends>>

-----------------------------------------------------------------------------
(* The end of a window *)

(* A closed window lets go of its flow.  The owner of the server sends off   *)
(* the removal of the token, the record and the lock, awaits none of them,   *)
(* and leaves the server running.                                           *)
Close(w) ==
  /\ pc[w] = "connected"
  /\ Goto(w, "idle")
  /\ owners' = owners \ {w}
  /\ \/ /\ w \notin owners
        /\ UNCHANGED leaving
     \/ /\ w \in owners
        /\ MayHappen("close")
        /\ leaving' = leaving \cup ({w} \X Removals)
  /\ UNCHANGED <<files, procs, locked, begun, current, port, token, abandoned>>

(* One of them arrives, or is lost; another window's files are not told      *)
(* apart from its own                                                       *)
Remove(w, what) ==
  /\ <<w, what>> \in leaving
  /\ leaving' = leaving \ {<<w, what>>}
  /\ \/ UNCHANGED files
     \/ /\ what = "token"
        /\ tokenFile' = None
        /\ UNCHANGED <<lock, aged, pidFile, portFile, readyFile, logFile>>
     \/ /\ what = "metadata"
        /\ pidFile' = None
        /\ portFile' \in {portFile, None}
        /\ UNCHANGED <<lock, aged, tokenFile, readyFile, logFile>>
     \/ /\ what = "lock"
        /\ lock' = Nobody /\ aged' = FALSE
        /\ UNCHANGED <<pidFile, portFile, tokenFile, readyFile, logFile>>
  /\ UNCHANGED <<procs, pc, locked, begun, current, port, token, owners, abandoned>>

(* A resolve or a flow is over, and what it left on the remote stays there *)
Leave(w) ==
  /\ Goto(w, "idle")
  /\ locked' = locked \ {w}
  /\ owners' = owners \ {w}
  /\ abandoned' = abandoned \cup ({w} \cap locked)
  /\ UNCHANGED <<files, procs, begun, current, port, token, leaving>>

Crash(w) ==
  /\ MayHappen("crash")
  /\ pc[w] # "idle"
  /\ Leave(w)

(* An operation fails.  Inside the start's try the lock is released, unless  *)
(* that fails as well; outside of it, from the lock to the copied auth       *)
(* files, at the token of a server in use and at serverFinalize, the error   *)
(* ends the resolve and the lock stays.                                     *)
Throws(w) ==
  /\ MayHappen("throw")
  /\ \/ pc[w] \in Resolving /\ Leave(w)
     \/ pc[w] \in Starting \ {"finalize"} /\ StartFails(w)

(* Half an hour passes over a lock nobody holds any more *)
Age ==
  /\ MayHappen("age")
  /\ lock # Nobody
  /\ lock \notin locked
  /\ ~aged
  /\ aged' = TRUE
  /\ UNCHANGED <<lock, pidFile, portFile, tokenFile, readyFile, logFile, procs, wins>>

-----------------------------------------------------------------------------
(* The wrapper, and the server (external) *)

(* The wrapper's redirection empties the shared log, then the server starts *)
(* and reads the token file; without one it exits.                          *)
Boot(s) ==
  /\ state[s] = "spawned"
  /\ logFile' = None
  /\ state' = [state EXCEPT ![s] = IF tokenFile = None THEN "gone" ELSE "booting"]
  /\ accepts' = [accepts EXCEPT ![s] = tokenFile]
  /\ UNCHANGED <<lock, aged, pidFile, portFile, tokenFile, readyFile, watching, wins>>

(* The server listens and says so in its log *)
Listen(s) ==
  /\ state[s] = "booting"
  /\ state' = [state EXCEPT ![s] = "up"]
  /\ logFile' = s
  /\ UNCHANGED <<lock, aged, pidFile, portFile, tokenFile, readyFile,
                 accepts, watching, wins>>

(* The wrapper sees a listening line, whoever wrote it, and moves the port  *)
(* into the ready file.  It looks after the redirection in the background,   *)
(* or, when that is late, at what an earlier start left in the log.          *)
Watch(s) ==
  /\ s \in watching
  /\ state[s] # "spawned" \/ MayHappen("late")
  /\ logFile # None
  /\ readyFile' = logFile
  /\ watching' = watching \ {s}
  /\ UNCHANGED <<lock, aged, pidFile, portFile, tokenFile, logFile,
                 state, accepts, wins>>

(* The wrapper has polled 60 times and its server's line is not there, or no *)
(* longer there                                                             *)
GiveUp(s) ==
  /\ s \in watching
  /\ logFile = None
  /\ MayHappen("slow") \/ state[s] \notin {"spawned", "booting"}
  /\ watching' = watching \ {s}
  /\ UNCHANGED <<files, state, accepts, wins>>

(* A server may stop listening while its process stays, and may exit *)
Wedge(s) ==
  /\ state[s] = "up"
  /\ IF \E w \in Windows : current[w] = s /\ pc[w] \in Starting
       THEN MayHappen("hang") ELSE MayHappen("exit")
  /\ state' = [state EXCEPT ![s] = "wedged"]
  /\ UNCHANGED <<files, accepts, watching, wins>>

Die(s) ==
  /\ MayHappen("exit")
  /\ state[s] \in {"booting", "up", "wedged"}
  /\ state' = [state EXCEPT ![s] = "gone"]
  /\ UNCHANGED <<files, accepts, watching, wins>>

-----------------------------------------------------------------------------
ResolveStep(w) ==
  /\ UNCHANGED plan
  /\ \/ Mkdir(w) \/ StatLock(w) \/ RemoveLock(w) \/ RemakeLock(w)
     \/ Probe(w) \/ Cleanup(w) \/ ReadToken(w) \/ ReuseDone(w)
     \/ WriteToken(w) \/ RmReady(w) \/ Launch(w)
     \/ ReadyFileRead(w) \/ WaitTimeout(w) \/ Finalize(w)

ServerStep(s) ==
  /\ UNCHANGED plan
  /\ Boot(s) \/ Listen(s) \/ Watch(s) \/ GiveUp(s)

Unforced ==
  /\ UNCHANGED plan
  /\ \/ \E w \in Windows :
          \/ Begin(w) \/ Close(w) \/ Crash(w) \/ Throws(w)
          \/ \E what \in Removals : Remove(w, what)
     \/ \E s \in Server : Wedge(s) \/ Die(s)
     \/ Age

Next ==
  \/ \E w \in Windows : ResolveStep(w)
  \/ \E s \in Server : ServerStep(s)
  \/ Unforced

Spec == Init /\ [][Next]_vars

(* Remote operations are answered and remote processes run; nobody has to   *)
(* open, close or crash anything.                                           *)
Fairness ==
  /\ \A w \in Windows : WF_vars(ResolveStep(w))
  /\ \A s \in Server : WF_vars(ServerStep(s))

FairSpec == Spec /\ Fairness

-----------------------------------------------------------------------------
(* Properties *)

(* At most one window believes it holds the lock, and the directory there   *)
(* is its own: the reclaim is meant "to avoid the race where two clients    *)
(* both see stale, one removes the other's fresh lock, and both acquire"    *)
(* (lifecycle.ts:428-430).  False: the stale check, the removal and the     *)
(* mkdir are separate steps, so both windows may be told that they have it. *)
LockIsExclusive ==
  \A w \in locked : lock = w

(* What does hold of it: while no lock is reclaimed by age and no owner is  *)
(* closed in the middle nobody removes or takes over a lock in use, however *)
(* many resolves overlap or crash.                                          *)
Undisturbed == plan.faults \cap {"age", "close"} = {}
LockExcludes == Undisturbed => LockIsExclusive

(* A lock is that of a resolve under way, or was left behind in one of the   *)
(* two ways that leave it: a crash, and an error outside the start's try     *)
(* (copyAuthFiles, the token of a reused server, serverFinalize) or of the   *)
(* release itself.  A start that fails or times out, a reuse and a start     *)
(* that succeeds let go of it, so that the next window is not sent on        *)
(* without the lock for half an hour.                                       *)
LockIsReleased ==
  Undisturbed /\ lock \notin {Nobody, Stranger} =>
    \/ lock \in locked /\ pc[lock] \in Resolving
    \/ lock \in abandoned

(* The properties of the record and the token hold while resolves come one  *)
(* after the other and starts are timely: each ends, without an error of     *)
(* an operation, before the next begins; the wrapper's redirection has       *)
(* emptied the log when the wrapper first looks at it, a start takes less    *)
(* than the 60s waited for it, and its server does not hang before it is     *)
(* recorded.  Servers may exit at any time and hang later on.  (What follows *)
(* of each of the other faults is in the README.)                           *)
TimelyTurns == plan.faults \subseteq {"exit"}

(* In timely turns the token a connected window sends is the one its server *)
(* was started with, or every connection it makes would be refused.         *)
TokenAccepted ==
  TimelyTurns =>
    \A w \in Windows :
      pc[w] = "connected" /\ PortAlive(port[w]) => token[w] = accepts[port[w]]

(* In timely turns the two metadata files describe one server: what the next *)
(* window probes, reuses and kills is a single process.                     *)
MetadataAgrees ==
  TimelyTurns /\ pidFile # None /\ portFile # None => pidFile = portFile

(* In timely turns, while owners stay open, a server a window is connected   *)
(* to stays on record for the next window.                                  *)
UsedServerOnRecord ==
  TimelyTurns =>
    \A w \in Windows :
      pc[w] = "connected" /\ PortAlive(port[w]) => portFile = port[w]

(* In timely turns, while owners stay open, the zombie sweep of one window   *)
(* never kills a healthy server that another window is connected to.        *)
SweepSparesUsed ==
  [][TimelyTurns =>
       \A w, v \in Windows :
         Cleanup(w) /\ pc[v] = "connected" /\ PortAlive(port[v])
           => PortAlive(port[v])']_vars

(* Every resolve ends, connected or failed, whatever the other windows do   *)
(* and however servers die.                                                 *)
ResolveEnds ==
  \A w \in Windows : pc[w] \in Resolving ~> pc[w] \notin Resolving
=============================================================================
