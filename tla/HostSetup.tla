------------------------------- MODULE HostSetup -------------------------------
(***************************************************************************)
(* What the windows connected to one home directory of a remote host do to   *)
(* it before a server can be started, on the session path: the Go transport   *)
(* (startTransport() of src/src/resolver/index.ts, src/go/tunnel/main.go), the *)
(* busybox tools and the server install (src/src/remote/install.ts,           *)
(* busybox.ts, download.ts, checksum.ts), the transport client's heartbeat,   *)
(* the restart in place and the teardown.                                    *)
(*                                                                          *)
(* Transports are numbered as they are launched; a number stands for pid,    *)
(* port and token.  Windows share the files under ~/.ssh-remote and the       *)
(* install path.  Every command on the host goes through the window's client *)
(* once it has one (SshSession), so through the transport it talks to.       *)
(*                                                                          *)
(* Abstracted: ssh itself (SessionServer, SharedTransport), the IDE server   *)
(* (ServerLifecycle), retries of a download; three missed heartbeats are one *)
(* step; of the server's files only node, which the probe looks for, and the *)
(* rest are told apart, in the order of the tarball.                         *)
(***************************************************************************)
EXTENDS Integers, FiniteSets

CONSTANTS
  Windows,    \* editor windows connected to the host
  Setups,     \* bound: connections set up
  Slips,      \* bound: answers of a live transport that come too late
  Plans       \* the courses of events considered, see Plan

FaultKinds ==
  { "overlap",      \* a setup begins while another window's runs
    "die",          \* a transport exits: killed, or cut off past its idle time
    "crash",        \* a window is killed
    "close",        \* a window tears a connection down that is not dead
    "fail",         \* a download, or the upload of the transport, fails
    "corrupt",      \* a download yields a tarball that does not unpack
    "unverified" }  \* no checksum is to be had, and onNoChecksum lets it pass

(* A course of events: how many connections are set up, how many answers are *)
(* late, and what else may happen that nobody is obliged to do              *)
Plan == [setups : 1..Setups, slips : 0..Slips, faults : SUBSET FaultKinds]

ASSUME BoundsAssumption == Setups \in Nat \ {0} /\ Slips \in Nat
ASSUME PlansAssumption == Plans \subseteq Plan

(* A setup launches at most one transport, and a restart only when its       *)
(* cause was a late answer                                                   *)
Transports == 1..(Setups + Slips)
NoTransport == 0
Files == {"node", "rest"}

VARIABLES
  pc,         \* where the window's connection stands
  start,      \* where its startTransport() stands
  seen,       \* what its probe found on the host
  found,      \* the transport it read from tunnel-meta.json
  client,     \* the transport sharedRef.transportClient talks to
  beats,      \* the transports that get heartbeats from the window
  left,       \* history: those of them whose client nobody will dispose
  dead,       \* the windows with sharedRef.dead
  at, via,    \* the file an extraction of the window writes, and through what
  clean,      \* the commands of a remote cleanup under way, and through what
  cache,      \* the tarball in the download cache of the machine
  meta,       \* tunnel-meta.json
  shipped,    \* the binary is at its temporary path
  tools,      \* ~/.ssh-remote/bin/sh is there
  nodeThere,  \* installPath/node is there
  files,      \* the files of the install that were written to their end
  launched,   \* how many transports were launched
  live,       \* the transports whose process runs
  bound,      \* those that listen
  recorded,   \* those that wrote tunnel-meta.json
  begun,      \* how many setups were begun
  slips,      \* how many answers were late
  plan        \* the course of events, fixed from the start

setupVars == <<pc, seen, begun>>
startVars == <<start, found>>
clientVars == <<client, beats, left, dead>>
extractVars == <<at, via, nodeThere, files>>
hostVars == <<cache, shipped, tools>>
goVars == <<launched, live, bound, recorded>>
vars == <<setupVars, startVars, clientVars, extractVars, clean, hostVars,
          meta, goVars, slips, plan>>

Installing == {"busybox", "download", "extract", "verify", "agent"}
SettingUp == {"transport"} \cup Installing

TypeOK ==
  /\ pc \in [Windows -> SettingUp \cup {"idle", "up", "failed"}]
  /\ start \in [Windows -> {"none", "meta", "health", "reap", "ship", "move",
                            "launch", "poll"}]
  /\ seen \in [Windows -> SUBSET {"tools", "install"}]
  /\ found \in [Windows -> Transports \cup {NoTransport}]
  /\ client \in [Windows -> Transports \cup {NoTransport}]
  /\ beats \in [Windows -> SUBSET Transports]
  /\ left \in [Windows -> SUBSET Transports]
  /\ dead \subseteq Windows
  /\ at \in [Windows -> Files \cup {"none"}]
  /\ via \in [Windows -> Transports \cup {NoTransport}]
  /\ clean \in [Windows -> SUBSET ({"kill", "rm"} \X Transports)]
  /\ cache \in {"none", "good", "bad"}
  /\ meta \in Transports \cup {NoTransport}
  /\ shipped \in BOOLEAN /\ tools \in BOOLEAN /\ nodeThere \in BOOLEAN
  /\ files \subseteq Files
  /\ launched \in {NoTransport} \cup Transports
  /\ live \subseteq 1..launched /\ bound \subseteq live
  /\ recorded \subseteq 1..launched
  /\ begun \in 0..Setups /\ slips \in 0..Slips
  /\ plan \in Plans

Init ==
  /\ pc = [w \in Windows |-> "idle"] /\ start = [w \in Windows |-> "none"]
  /\ seen = [w \in Windows |-> {}]
  /\ found = [w \in Windows |-> NoTransport]
  /\ client = [w \in Windows |-> NoTransport]
  /\ beats = [w \in Windows |-> {}] /\ left = [w \in Windows |-> {}]
  /\ dead = {}
  /\ at = [w \in Windows |-> "none"] /\ via = [w \in Windows |-> NoTransport]
  /\ clean = [w \in Windows |-> {}]
  /\ cache = "none" /\ meta = NoTransport /\ shipped = FALSE
  /\ tools = FALSE /\ nodeThere = FALSE /\ files = {}
  /\ launched = 0 /\ live = {} /\ bound = {} /\ recorded = {}
  /\ begun = 0 /\ slips = 0
  /\ plan \in Plans

MayHappen(fault) == fault \in plan.faults

(* A command of the window reaches the host: through the control shell while *)
(* there is no client, through its transport from then on                    *)
Route(w) == client[w] = NoTransport \/ client[w] \in bound

Kill(ts) == live' = live \ ts /\ bound' = bound \ ts

(* A live transport answers too late *)
Slip == slips < plan.slips /\ slips' = slips + 1

-----------------------------------------------------------------------------
(* startTransport() *)

(* createTransport() with its probe of the host.  The client of an earlier   *)
(* setup that failed is not disposed.                                        *)
Begin(w) ==
  /\ pc[w] \in {"idle", "failed"} /\ start[w] = "none"
  /\ begun < plan.setups
  /\ MayHappen("overlap") \/ \A v \in Windows \ {w} : pc[v] \notin SettingUp
  /\ begun' = begun + 1
  /\ seen' = [seen EXCEPT ![w] = {f \in {"tools"} : tools}
                                   \cup {f \in {"install"} : nodeThere}]
  /\ pc' = [pc EXCEPT ![w] = "transport"]
  /\ start' = [start EXCEPT ![w] = "meta"]
  /\ client' = [client EXCEPT ![w] = NoTransport]
  /\ left' = [left EXCEPT ![w] = @ \cup ({client[w]} \ {NoTransport})]
  /\ dead' = dead \ {w}
  /\ UNCHANGED <<found, beats, extractVars, clean, hostVars, meta, goVars,
                 slips>>

(* The setup goes on past what the probe found in place *)
AfterTransport(w) ==
  IF "tools" \notin seen[w] THEN "busybox"
  ELSE IF "install" \notin seen[w] THEN "download" ELSE "agent"

(* A restart whose connection was torn down meanwhile *)
Overtaken(w) == pc[w] = "idle" /\ start[w] # "none"

(* startTransportClient() with transport t: the new client beats at once, the *)
(* old one is disposed.  The client of an overtaken restart nobody disposes.  *)
Adopt(w, t) ==
  /\ start' = [start EXCEPT ![w] = "none"]
  /\ beats' = [beats EXCEPT ![w] = (@ \ ({client[w]} \ left[w])) \cup {t}]
  /\ IF Overtaken(w)
     THEN /\ client' = [client EXCEPT ![w] = NoTransport]
          /\ left' = [left EXCEPT ![w] = @ \cup {t}]
     ELSE client' = [client EXCEPT ![w] = t] /\ UNCHANGED left
  /\ pc' = IF pc[w] # "transport" THEN pc
           ELSE [pc EXCEPT ![w] = AfterTransport(w)]
  /\ found' = [found EXCEPT ![w] = NoTransport]
  /\ UNCHANGED <<dead, seen, begun, extractVars, clean, hostVars, meta, goVars>>

Goto(w, label) ==
  /\ start' = [start EXCEPT ![w] = label]
  /\ UNCHANGED <<setupVars, clientVars, extractVars, clean>>

(* probeExistingTransport(): cat tunnel-meta.json *)
ReadMeta(w) ==
  /\ start[w] = "meta" /\ Route(w)
  /\ found' = [found EXCEPT ![w] = meta]
  /\ Goto(w, IF meta = NoTransport THEN "ship" ELSE "health")
  /\ UNCHANGED <<hostVars, meta, goVars, slips>>

(* HEALTH, through the SOCKS forward, answers in time *)
Healthy(w) ==
  /\ start[w] = "health" /\ found[w] \in bound
  /\ Adopt(w, found[w])
  /\ UNCHANGED slips

Unhealthy(w) ==
  /\ start[w] = "health" /\ found[w] \notin bound
  /\ Goto(w, "reap")
  /\ UNCHANGED <<found, hostVars, meta, goVars, slips>>

HealthSlips(w) ==
  /\ start[w] = "health" /\ found[w] \in bound
  /\ Slip
  /\ Goto(w, "reap")
  /\ UNCHANGED <<found, hostVars, meta, goVars>>

(* killStaleTransportPid() *)
Reap(w) ==
  /\ start[w] = "reap" /\ Route(w)
  /\ Kill({found[w]})
  /\ found' = [found EXCEPT ![w] = NoTransport]
  /\ Goto(w, "ship")
  /\ UNCHANGED <<hostVars, meta, launched, recorded, slips>>

(* putFile() to the temporary path all windows use *)
Ship(w) ==
  /\ start[w] = "ship" /\ Route(w)
  /\ shipped' = TRUE
  /\ Goto(w, "move")
  /\ UNCHANGED <<found, cache, tools, meta, goVars, slips>>

Move(w) ==
  /\ start[w] = "move" /\ Route(w) /\ shipped
  /\ shipped' = FALSE
  /\ Goto(w, "launch")
  /\ UNCHANGED <<found, cache, tools, meta, goVars, slips>>

(* --detach: the child is on its own when the command returns.  The bound is  *)
(* never met.                                                                *)
Launch(w) ==
  /\ start[w] = "launch" /\ Route(w)
  /\ launched < Setups + Slips
  /\ launched' = launched + 1
  /\ live' = live \cup {launched'}
  /\ Goto(w, "poll")
  /\ UNCHANGED <<found, hostVars, meta, bound, recorded, slips>>

(* cat tunnel-meta.json, whoever wrote it *)
Poll(w) ==
  /\ start[w] = "poll" /\ Route(w) /\ meta # NoTransport
  /\ Adopt(w, meta)
  /\ UNCHANGED slips

(* startTransport() throws: a command does not get through, the upload fails, *)
(* another window moved the binary away, or no meta file appears in 30 s      *)
StartThrows(w) ==
  /\ ~Overtaken(w)
  /\ \/ start[w] \in {"meta", "reap", "ship", "move", "launch", "poll"} /\ ~Route(w)
     \/ start[w] = "ship" /\ MayHappen("fail")
     \/ start[w] = "move" /\ Route(w) /\ ~shipped
     \/ start[w] = "poll" /\ meta = NoTransport /\ live \subseteq recorded
  /\ start' = [start EXCEPT ![w] = "none"]
  /\ found' = [found EXCEPT ![w] = NoTransport]

(* mutant: a failed restart in place is only logged *)
StartFails_OnlyLogged(w) ==
  /\ StartThrows(w)
  /\ pc' = IF pc[w] = "transport" THEN [pc EXCEPT ![w] = "failed"] ELSE pc
  /\ UNCHANGED <<seen, begun, clientVars, extractVars, clean,
                 hostVars, meta, goVars, slips>>

(* The setup fails; a restart marks the connection dead *)
StartFails(w) ==
  /\ StartThrows(w)
  /\ IF pc[w] = "transport"
     THEN pc' = [pc EXCEPT ![w] = "failed"] /\ UNCHANGED dead
     ELSE dead' = dead \cup {w} /\ UNCHANGED pc
  /\ UNCHANGED <<seen, begun, client, beats, left, extractVars,
                 clean, hostVars, meta, goVars, slips>>

(* An overtaken restart throws at its next command: the connection is closed  *)
(* by now.  In its probe it needs none.                                      *)
StartEnds(w) ==
  /\ Overtaken(w) /\ start[w] # "health"
  /\ start' = [start EXCEPT ![w] = "none"]
  /\ found' = [found EXCEPT ![w] = NoTransport]
  /\ client' = [client EXCEPT ![w] = NoTransport]
  /\ UNCHANGED <<setupVars, beats, left, dead, extractVars, clean, hostVars,
                 meta, goVars, slips>>

(* onUnreachable: the transport is gone, or three answers came late in a row. *)
(* A restart under way and a dead connection ignore it.                      *)
Unreachable(w) ==
  /\ pc[w] \in Installing \cup {"up", "failed"} /\ start[w] = "none"
  /\ client[w] # NoTransport /\ w \notin dead
  /\ \/ client[w] \notin bound /\ UNCHANGED slips
     \/ client[w] \in bound /\ pc[w] = "up" /\ Slip
  /\ Goto(w, "meta")
  /\ UNCHANGED <<found, hostVars, meta, goVars>>

-----------------------------------------------------------------------------
(* ensureServerInstalled(), past the probe *)

Continue(w, label) ==
  /\ pc' = [pc EXCEPT ![w] = label]
  /\ UNCHANGED <<seen, begun, startVars, clientVars, clean, meta, goVars,
                 slips>>

(* bootstrapBusybox() *)
Bootstrap(w) ==
  /\ pc[w] = "busybox" /\ Route(w)
  /\ tools' = TRUE
  /\ Continue(w, IF "install" \in seen[w] THEN "agent" ELSE "download")
  /\ UNCHANGED <<extractVars, cache, shipped>>

(* The tarball the download cache has, or a fresh one, which is put there    *)
(* before anybody looks at it                                                *)
Fetched ==
  IF cache # "none" THEN {cache}
  ELSE {"good"} \cup {b \in {"bad"} : MayHappen("corrupt")}

(* mutant: a mismatch is not an error *)
Download_MismatchPasses(w) ==
  /\ pc[w] = "download"
  /\ cache' \in Fetched
  /\ Continue(w, "extract")
  /\ UNCHANGED <<extractVars, shipped, tools>>

(* downloadToBuffer() and the verification of the checksum *)
Download(w) ==
  /\ pc[w] = "download"
  /\ cache' \in Fetched
  /\ Continue(w, IF cache' = "good" \/ MayHappen("unverified")
                 THEN "extract" ELSE "failed")
  /\ UNCHANGED <<extractVars, shipped, tools>>

DownloadFails(w) ==
  /\ pc[w] = "download" /\ cache = "none" /\ MayHappen("fail")
  /\ Continue(w, "failed")
  /\ UNCHANGED <<extractVars, hostVars>>

(* conn.extract() streams the tarball, doExtract() opens node *)
BeginExtract(w) ==
  /\ pc[w] = "extract" /\ at[w] = "none" /\ Route(w)
  /\ at' = [at EXCEPT ![w] = "node"]
  /\ via' = [via EXCEPT ![w] = client[w]]
  /\ nodeThere' = TRUE /\ files' = files \ {"node"}
  /\ Continue(w, "extract")
  /\ UNCHANGED hostVars

(* node is written, the rest is opened *)
Extract(w) ==
  /\ at[w] = "node" /\ via[w] \in bound
  /\ at' = [at EXCEPT ![w] = "rest"]
  /\ files' = (files \cup {"node"}) \ {"rest"}
  /\ Continue(w, "extract")
  /\ UNCHANGED <<via, nodeThere, hostVars>>

Extracted(w) ==
  /\ at[w] = "rest" /\ via[w] \in bound /\ cache = "good"
  /\ at' = [at EXCEPT ![w] = "none"]
  /\ via' = [via EXCEPT ![w] = NoTransport]
  /\ files' = files \cup {"rest"}
  /\ Continue(w, "verify")
  /\ UNCHANGED <<nodeThere, hostVars>>

(* The transport ends under the extraction, or the tarball does; what is     *)
(* there stays there                                                         *)
ExtractFails(w) ==
  /\ at[w] # "none" /\ (via[w] \notin bound \/ cache = "bad")
  /\ at' = [at EXCEPT ![w] = "none"]
  /\ via' = [via EXCEPT ![w] = NoTransport]
  /\ files' = files \ {at[w]}
  /\ Continue(w, "failed")
  /\ UNCHANGED <<nodeThere, hostVars>>

(* Opening node fails while a server of another window runs from it *)
NodeBusy(w) ==
  /\ pc[w] = "extract" /\ at[w] = "none" /\ Route(w)
  /\ \E v \in Windows \ {w} : pc[v] = "up"
  /\ Continue(w, "failed")
  /\ UNCHANGED <<extractVars, hostVars>>

(* The patch of product.json and `test -f node` *)
Verify(w) ==
  /\ pc[w] = "verify" /\ Route(w)
  /\ Continue(w, IF nodeThere THEN "agent" ELSE "failed")
  /\ UNCHANGED <<extractVars, hostVars>>

(* The report of the forwarded agent; the connection is made *)
ReportAgent(w) ==
  /\ pc[w] = "agent" /\ Route(w)
  /\ Continue(w, "up")
  /\ UNCHANGED <<extractVars, hostVars>>

SetupFails(w) ==
  /\ pc[w] \in {"busybox", "extract", "verify", "agent"} /\ at[w] = "none" /\ ~Route(w)
  /\ Continue(w, "failed")
  /\ UNCHANGED <<extractVars, hostVars>>

-----------------------------------------------------------------------------
(* The end of a connection *)

(* mutant: the client is not disposed *)
TearDown_StillBeats(w) ==
  /\ pc[w] = "up"
  /\ w \in dead \/ MayHappen("close")
  /\ pc' = [pc EXCEPT ![w] = "idle"]
  /\ client' = IF start[w] # "none" THEN client
               ELSE [client EXCEPT ![w] = NoTransport]
  /\ clean' = [clean EXCEPT ![w] = @ \cup ({"kill", "rm"} \X {client[w]})]
  /\ UNCHANGED <<seen, begun, startVars, beats, left, dead, extractVars,
                 hostVars, meta, goVars, slips>>

(* killSharedTransport(): the last flow goes, or a resolve finds it dead.  A *)
(* restart under way is not told: it keeps the client its commands go        *)
(* through, which beats no more, and is overtaken.                           *)
TearDown(w) ==
  /\ pc[w] = "up"
  /\ w \in dead \/ MayHappen("close")
  /\ pc' = [pc EXCEPT ![w] = "idle"]
  /\ client' = IF start[w] # "none" THEN client
               ELSE [client EXCEPT ![w] = NoTransport]
  /\ beats' = [beats EXCEPT ![w] = @ \ ({client[w]} \ left[w])]
  /\ clean' = [clean EXCEPT ![w] = @ \cup ({"kill", "rm"} \X {client[w]})]
  /\ UNCHANGED <<seen, begun, startVars, left, dead, extractVars, hostVars,
                 meta, goVars, slips>>

(* Its remote cleanup, through the transport that is to be killed: of the    *)
(* transport the file names, *)
CleanKill(w) ==
  \E t \in bound :
    /\ <<"kill", t>> \in clean[w]
    /\ clean' = [clean EXCEPT ![w] = @ \ {<<"kill", t>>}]
    /\ Kill({meta})
    /\ UNCHANGED <<setupVars, startVars, clientVars, extractVars, hostVars,
                   meta, launched, recorded, slips>>

(* and of the file *)
CleanRemove(w) ==
  \E t \in bound :
    /\ <<"rm", t>> \in clean[w]
    /\ clean' = [clean EXCEPT ![w] = @ \ {<<"rm", t>>}]
    /\ meta' = NoTransport
    /\ UNCHANGED <<setupVars, startVars, clientVars, extractVars, hostVars,
                   goVars, slips>>

(* What is left comes to nothing: the transport is gone, or the connection   *)
(* is closed before                                                          *)
CleanLost(w) ==
  /\ clean[w] # {}
  /\ clean' = [clean EXCEPT ![w] = {}]
  /\ UNCHANGED <<setupVars, startVars, clientVars, extractVars, hostVars,
                 meta, goVars, slips>>

(* The window is killed; an extraction ends where it stands *)
Crash(w) ==
  /\ MayHappen("crash") /\ pc[w] # "idle"
  /\ pc' = [pc EXCEPT ![w] = "idle"]
  /\ start' = [start EXCEPT ![w] = "none"]
  /\ found' = [found EXCEPT ![w] = NoTransport]
  /\ client' = [client EXCEPT ![w] = NoTransport]
  /\ beats' = [beats EXCEPT ![w] = {}] /\ left' = [left EXCEPT ![w] = {}]
  /\ dead' = dead \ {w}
  /\ via' = [via EXCEPT ![w] = NoTransport]
  /\ at' = [at EXCEPT ![w] = "none"] /\ files' = files \ {at[w]}
  /\ clean' = [clean EXCEPT ![w] = {}]
  /\ UNCHANGED <<seen, begun, nodeThere, hostVars, meta,
                 goVars, slips>>

-----------------------------------------------------------------------------
(* The Go transport (main.go) *)

windowVars == <<setupVars, startVars, clientVars, extractVars, clean,
                hostVars, slips>>

Bind(t) ==
  /\ t \in live \ bound
  /\ bound' = bound \cup {t}
  /\ UNCHANGED <<windowVars, meta, launched, live, recorded>>

(* mutant: the file is written before the port is open *)
WriteMeta_Early(t) ==
  /\ t \in live \ recorded
  /\ recorded' = recorded \cup {t} /\ meta' = t
  /\ UNCHANGED <<windowVars, launched, live, bound>>

(* writeMetaFile() *)
WriteMeta(t) ==
  /\ t \in bound \ recorded
  /\ recorded' = recorded \cup {t} /\ meta' = t
  /\ UNCHANGED <<windowVars, launched, live, bound>>

(* idleWatch(): four heartbeats were missing.  The wait for the meta file and *)
(* the probe are shorter than that.                                          *)
IdleOut(t) ==
  /\ t \in bound \cap recorded
  /\ \A w \in Windows : t \notin beats[w] /\ start[w] \notin {"health", "poll"}
  /\ Kill({t})
  /\ UNCHANGED <<windowVars, meta, launched, recorded>>

Die(t) ==
  /\ MayHappen("die") /\ t \in live
  /\ Kill({t})
  /\ UNCHANGED <<windowVars, meta, launched, recorded>>

-----------------------------------------------------------------------------
(* What the windows and the transports do by themselves *)
WindowStep(w) ==
  \/ ReadMeta(w) \/ Healthy(w) \/ Unhealthy(w) \/ Reap(w)
  \/ Ship(w) \/ Move(w) \/ Launch(w) \/ Poll(w) \/ StartFails(w)
  \/ StartEnds(w) \/ Bootstrap(w) \/ Download(w) \/ DownloadFails(w)
  \/ BeginExtract(w) \/ Extract(w) \/ Extracted(w) \/ ExtractFails(w)
  \/ NodeBusy(w) \/ Verify(w) \/ ReportAgent(w) \/ SetupFails(w)

CleanStep(w) == CleanKill(w) \/ CleanRemove(w) \/ CleanLost(w)

GoStep(t) == Bind(t) \/ WriteMeta(t) \/ IdleOut(t)

Step ==
  \/ \E w \in Windows : \/ WindowStep(w) \/ CleanStep(w) \/ Unreachable(w)
                        \/ Begin(w) \/ HealthSlips(w) \/ TearDown(w) \/ Crash(w)
  \/ \E t \in Transports : GoStep(t) \/ Die(t)

Next == Step /\ UNCHANGED plan

Spec == Init /\ [][Next]_vars

(* Commands are answered or cut off, heartbeats go on, and a process that is *)
(* launched gets to its next step                                            *)
Fairness ==
  /\ \A w \in Windows :
       /\ WF_vars(WindowStep(w) /\ UNCHANGED plan)
       /\ WF_vars(Unreachable(w) /\ client[w] \notin bound /\ UNCHANGED plan)
       /\ WF_vars(CleanStep(w) /\ UNCHANGED plan)
  /\ \A t \in Transports : WF_vars(GoStep(t) /\ UNCHANGED plan)

FairSpec == Spec /\ Fairness

-----------------------------------------------------------------------------

(* Setups of other windows leave a transport alone that a window uses: as    *)
(* long as no transport dies, no connection is closed and no answer is late, *)
(* the transport a window's commands go through does not end, however many   *)
(* windows probe, reap, launch and adopt transports at once (index.ts:1161-  *)
(* 1207), and its heartbeats keep it from idling out (index.ts:79-82)        *)
Peaceful == plan.slips = 0 /\ plan.faults \cap {"die", "close"} = {}
UsedStaysUp ==
  [][\A w \in Windows :
       Peaceful /\ client[w] \in bound /\ client'[w] = client[w]
         => client[w] \in bound']_vars

(* A transport no window uses ends (index.ts:81-82, "an orphan dies in       *)
(* ~2min"), unless a window comes to use it, or its client was left behind, by *)
(* a setup that failed or by a restart that its connection's teardown overtook: *)
(* also when its launcher took another one, was torn down while the cleanup   *)
(* failed, or crashed                                                        *)
Orphan(t) == \A w \in Windows : client[w] # t /\ t \notin left[w]
OrphanEnds ==
  \A t \in Transports : (t \in live /\ Orphan(t)) ~> (t \notin live \/ ~Orphan(t))

(* A window whose setup ended well has a whole install under it once no      *)
(* extraction is under way, whether it extracted it, overlapped with another *)
(* window that did, or trusted the `-f node` of its probe: when no extraction *)
(* was cut off and checksums are verified (install.ts:97-127, 136-181)       *)
Uncut ==
  plan.slips = 0 /\ plan.faults \cap {"die", "close", "crash", "unverified"} = {}
UpMeansWhole ==
  Uncut /\ (\A w \in Windows : at[w] = "none")
    => \A w \in Windows : pc[w] = "up" => files = Files

(* A setup ends, a restart in place ends, and a connection whose transport   *)
(* is gone gets another one, is marked dead or is torn down: three missed    *)
(* heartbeats are reported once only (client.ts:124-150, index.ts:1731-1754) *)
Pending(w) ==
  \/ pc[w] \in SettingUp \/ start[w] # "none"
  \/ pc[w] = "up" /\ w \notin dead /\ client[w] \notin bound
Settles == \A w \in Windows : Pending(w) ~> ~Pending(w)
=============================================================================
