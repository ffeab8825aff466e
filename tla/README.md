# Zygos: specifications and proofs

Zygos is a VS Code extension that opens remote folders over ssh. This directory
holds TLA+ models of the parts of it whose correctness depends on the order of
events: several windows, detached local processes, one remote host, timeouts,
crashes and files that all of them share. TLC checks the models on small
instances; TLAPS checks theorems about them for every value of their constants.

Paths below are those of the repository; `R` stands for
`src/resolver/index.ts`.

## 1. The system and its parts

A window of the editor asks the extension to `resolve` an authority
(`ssh-remote+host`) and, beside that, to give it an exec server. Both go through
one **shared transport**: an ssh session kept by a detached **local server**
process, and a Go program on the remote (the **Go transport**) that multiplexes
streams. Over it the **remote server lifecycle** finds, starts, records or kills
the IDE server of one install path. All windows of a user, on one machine or
several, meet in files on the remote host and in one persistence file per
destination on the local one.

| part | source | state it keeps | operations | modelled |
|---|---|---|---|---|
| Control shell of the local server | `src/ssh/localServer.ts` | `execQueue`, the shell's stdout buffer, one listener, one timer | exec, put-file, timeout, ssh exit | `ControlShell`, `SerialExec` |
| Lifetime of the local server | `src/ssh/localServer.ts`, `src/ssh/sshSession/protocol.ts` | `refcount`, shutdown timer, the persistence file | handshake, attach, detach, delay-shutdown, timer, cleanup | `SessionServer` |
| SshSessionClient | `src/ssh/sshSession/client.ts` | handle path, keepalive interval, `started` | start, reconnect probe, keepalive, stop | `SessionServer` |
| Remote server lifecycle | `src/remote/lifecycle.ts`, `go/tunnel/zygos.go`, `scripts/sshSession/start-server.sh`, `R` `resolveFlow` | on the remote: lock directory, pid, port, token, ready and log files; the server processes | lock, probe, sweep, reuse, start, finalize, close | `ServerLifecycle` |
| Shared transport and flows | `R` `resolve`, `resolveExecServer`, `acquireTransport`, `releaseTransport`, `killConnection`, `dispose` | `transports`, `transportPromises`, `connections`, refcounts, `dead` flags | join, probe, create, release, teardown, deactivate | `SharedTransport` |
| Host setup | `R` `startTransport`, `createTransport`, `killSharedTransport`, `src/remote/install.ts`, `busybox.ts`, `download.ts`, `checksum.ts`, `go/tunnel/main.go` | on the remote: `tunnel-meta.json`, the binary and its temporary copy, busybox, the install; the Go transports; locally the download cache | start, reuse, restart in place, install, teardown, idle exit | `HostSetup` |
| SshSession | `src/ssh/sshSession/connection.ts` | `transportClient`, `connected` | exec, putFile, extract, by the control shell or the transport | `HostSetup` |
| Transport client, Go transport's operations | `src/transport/client.ts`, `src/transport/zygos.ts`, `go/tunnel/main.go` | heartbeat failures, one socket per operation | request, exec, spawn, put, get, extract, connect | `TunnelStream`, `HostSetup` |
| SOCKS5 client, managed connection, exec server | `src/net/*.ts`, `src/remote/execServer.ts` | handshake state, buffered bytes | connect, read, end | `TunnelStream`, `ByteChannel` |
| Connection monitor, sleep detector | `src/health/*.ts` | debounce, the probe under way, the forward process | tick, wake, repair, stop | `DirectConnection` (in `SharedTransport` the probe of a session) |
| Connection and server start without a session | `src/ssh/connection.ts`, `R` `startServer`, `startSocksForward`, the exit listeners | child processes, exit listeners | start, exit, repair | `DirectConnection` |
| Askpass server, askpass cache | `src/ssh/askpassServer.ts`, `src/ssh/askpassCache.ts` | pending prompts; an encrypted store, its master key | prompt, answer, stop; get, set, evict, sweep, rotate | `AskpassCache` |
| node-dirty | `vendor/node-dirty/dirty.js` | in-memory map, rows in flight, an append-only file | set, remove, flush, load, close | `AskpassCache` |
| SshSessionProcess, log tailer, session secret, folder history, VSCodium feed | | | see PROJECT.json for the reason of each | no |
| ssh config, destinations, argv patch, tree views, panels, platform adapters, logger, build scripts | | none across steps | pure functions, presentation, I/O | no: nothing a state machine would add |

How the parts interact: calls with an `await` (resolver to client, client to
local server over a socket, transport client to Go transport), events (data,
close, timers, the monitor's callbacks), and shared state: the resolver's maps
within one window, the persistence file among the windows of one machine, the
metadata files and the lock directory among the windows of all machines.

What is hard, by part, and what makes each correct:

- **Control shell.** One `sh` serves every request of every window. A request
  can be given up by its timer while its command goes on printing; data events
  cut the stream anywhere; bytes may come when nobody listens. *Correct:* an
  answer is complete, holds foreign text only after a timeout, is final, and
  comes.
- **Session layer.** The shutdown timer races keepalives; windows die without
  detaching; a persistence file is read before a probe and used after it; two
  servers may share it. *Correct:* no server ends under a client that pings it,
  the refcount covers the attached clients, the file names only servers that
  got through their handshake and did not clean up, abandoned servers end.
- **Server lifecycle.** A lock made of `mkdir`, `stat`, `rm` and `mkdir` as
  separate steps; windows that crash with it; servers that exit, hang or start
  late; metadata written by one window and believed by the next. *Correct:* the
  lock excludes and is released where the code provides for it, the metadata
  describes one server, the token is the server's, nobody kills a server in
  use, every resolve ends.
- **Shared transport.** Every `await` lets other calls, the monitor and the
  teardown in between; a refcount is raised and lowered at different ends of
  those awaits. *Correct:* one creation at a time, nothing torn down is on
  offer or under a flow, one transport per authority, nothing orphaned.
- **Host setup.** Windows probe, reap, ship, launch and adopt Go transports at
  once, over one metadata file; every command goes through the transport that is
  being restarted or torn down; an install looks complete before it is.
  *Correct:* setups spare the transports in use, orphans go away, a window that
  is up stands on a whole install, setups and restarts end.
- **Streams.** Messages are cut and joined by the network, nobody may be
  listening when they come, a close can mean an end or a loss. *Correct:* the
  consumer gets what was sent, in order, once; a success was done completely;
  every operation ends.
- **Connection without a session.** Sleeps, focus, a timer and dying children
  ask for probes at once; a repair replaces a process whose late close is still
  to come. *Correct:* one forward, none left over, no connection given up
  without a cause, every loss noticed, every resolve ends.
- **Passwords.** They are cached before ssh has tried them; windows share one
  append-only file, whose key is rotated, whose rows may be cut, which may be
  removed under a window. *Correct:* what was evicted stays gone, a restart
  finds what was there, activation ends also when the disk is full, attempts and
  closing end while the store's writes go through.

PROJECT.json lists each hazard at its line with the properties that cover it.

## 2. The modules

### ControlShell, SerialExec (`localServer.ts:484-604`)

Requests are numbered in the order they chain themselves on `state.execQueue`;
`written` counts those whose command was written to stdin, so the queue is
`written+1..arrived`. Everything the shell has printed is one append-only
sequence `emitted`; a data event moves `read` forward over one or more lines. A
listener collects from the position it was attached at (`lo`) to its marker
(`hi`); the answer is that interval.

| action | code |
|---|---|
| `Arrive` | `runShellCommand` chaining on `execQueue` |
| `Start` | `doRunShellCommand` up to `stdin.write` |
| `Deliver`, `Collect` | `onData`, with the marker search over the whole buffer |
| `Timeout(r)` | the timer: reject, detach; the shell is not told |
| `Exit` | the ssh child's `close`, the end of the process |
| `ShellLine`, `ShellMark` | the remote `sh` (external) |

`SerialExec` is what the callers are promised: requests are settled one at a
time in the order they came, each with its own output or a rejection, and
foreign text is possible only from the first rejection on. `ControlShell`
implements it under the mapping of each request to what its caller sees
(`AnswerOf`) and of the queue to the number of settled requests (`Settled`).

### SessionServer (`localServer.ts`, `sshSession/client.ts`)

Local servers (numbered as spawned) and the clients of several windows, which
meet in one persistence file. Time is counted in keepalive intervals (6s), so
the default shutdown timeout of 18s is 3. `Tick` lets an interval pass when
every interval timer has fired in it and no expired timer is pending.
`cleanup()` is one action with the unlink of the persistence file whoever's
record it holds; a kill runs no cleanup. Clients act by `Start`, `ProbeAnswers`
/ `ProbeFails` (`tryReconnect`), `Ready` / `StartFails` (`waitForReady`),
`Attach`, `Ping`, `Stop`, `Crash`; servers by `HandshakeDone`,
`HandshakeTimeout`, `Listen`, `HttpError` (a listen that fails: the process exits
and its record stays), `Fire`, `SshCloses`, `Kill`, `SshStalls`.

### ServerLifecycle (`lifecycle.ts`, `zygos.go`, `resolveFlow`, `start-server.sh`)

One install path on one host. The state is the remote files, the remote
processes and, per window, where its resolve is (`pc`) and what it believes
(`locked`, `port`, `token`, `owners`). Each remote operation is one step; the
Go implementation and the shell script of an operation are modelled together,
with a choice where they differ (`Cleanup` for a pid that is dead already).
The lock is its four steps `Mkdir`, `StatLock`, `RemoveLock`, `RemakeLock`. A
resolve without the lock goes straight to the start (`Goto(w, "mint")`), as
`resolveFlow` does. The recorded pid is any process that matches the install
path (`Matching`), as `pgrep -o` and the scan of `/proc` give no order that
favours the new one. `Throws` is an error of an operation: within the start's try
it fails the start, elsewhere it ends the resolve and the lock stays (`abandoned`). An owner that is
closed (`Close`) fires its removals without awaiting them, and each (`Remove`)
may come at any later moment. The wrapper of a start (`Watch`) reads
`server-start.log`; with the fault `late` it may do so before the redirection has
emptied it, with `hang` a server may hang before it is recorded, with `slow` a
start may take longer than the window waits.

### SharedTransport (`resolver/index.ts`)

One authority in one window. Everything runs on one event loop, so a call is cut
exactly where it awaits: `reuse`, `probe`, `create`, `await`, `recheck`,
`start`. A promise that has settled runs its continuations before any other
event: `Event` is false while one is due. What a call read before an await
(`held`, `prev`) stays what it read. A transport is named by the call that
created it, a flow by the call that registered it.

### HostSetup (`startTransport`, `install.ts`, `go/tunnel/main.go`)

The windows connected to one home directory, on the session path. Per window:
`pc` is where its setup or connection stands, `start` where its
`startTransport` does; they are apart because a restart in place runs beside the
install or the connection. `Route(w)` is the heart of it: once
`setTransportClient` was called every command of the window goes through the
transport it talks to, the commands of a restart and of a teardown included.
Go transports are numbered; `live`, `bound` and `recorded` are the three points
of their start (`Launch`, `Bind`, `WriteMeta`), `meta` is the file all windows
read. `beats` holds the transports a window's clients send heartbeats to, `left`
those whose client a failed setup or an overtaken restart left running. A restart
is overtaken when its connection is torn down meanwhile (`Overtaken`): it goes on
in the probe that needs no command, and fails at its next command otherwise.

| action | code |
|---|---|
| `Begin` | `createTransport` to the end of `probeRemote` |
| `ReadMeta`, `Healthy`, `Unhealthy`, `HealthSlips`, `Reap` | `probeExistingTransport`, `killStaleTransportPid` |
| `Ship`, `Move`, `Launch`, `Poll`, `StartFails`, `StartEnds` | the rest of `startTransport`, its errors, its end after a teardown |
| `Unreachable` | the third missed heartbeat, `handleTransportUnreachable` |
| `Bootstrap` ... `Verify`, `ReportAgent`, `SetupFails` | `ensureServerInstalled`, the end of `createTransport` |
| `TearDown`, `CleanKill`, `CleanRemove`, `CleanLost` | `killSharedTransport` and its commands on the host |
| `Bind`, `WriteMeta`, `IdleOut`, `Die` | the Go transport |

An extraction opens `node`, writes it, and writes the rest; `nodeThere` is what
the probe of another window sees, `files` what is complete.

### TunnelStream, ByteChannel (`client.ts`, `socks5.ts`, `managedConnection.ts`, `execServer.ts`, `main.go`)

One operation of the transport client (or one plain tcp connection), from the
SOCKS5 handshake to its end. `down` is what the network carries to the client; `Deliver`
hands over any number of elements of it as one data event, so every cut and join
is met. `at` is the state of the reader that listens (`processGreeting`,
`processConnect`, `readResponse`, `readFrames`, `readToEnd`, `wrapSocket`), and
what comes while nobody listens is lost or kept as in node. The far end may hang,
deny, drop the connection, or fail to read, write or close a file: an error of
the write is reported (`StoreFails`), one of the read ends the data (`EndOfData`),
one of the close is ignored (`Stored`). `ByteChannel` is the
promise: per stream, the bytes sent arrive in order, once, none left out.
`TunnelStream` implements it under the mapping of the two ends.

### DirectConnection (`connectionMonitor.ts`, `sleepDetector.ts`, `R` without a session)

Resolves one after the other and what they leave running: `proc` is the state of
each `ssh -D` of each, `probes` the probe or restart a transport's monitor
awaits, `recent` and `tick` its debounce and its periodic timer. Exit and close of
a child are separate events. `lost`: the host is unreachable. A resolve checks
that the flow it found is not dead (`Recheck`) before it awaits the flow's probe,
and not again after it (`Reuse`), so the flow may die in between.

### AskpassCache (`askpassCache.ts`, `askpassServer.ts`, `dirty.js`)

Windows of one user over one file: `mem` is a window's map, `out` the rows it
has handed to its write stream, `disk` what the rows at the path add up to,
`attached` the windows whose stream is on that file (a window whose file was
removed goes on writing to one nobody reads). `stream` is what became of the write
stream: the first write that fails destroys it with the rows in it (`WriteFails`),
the next row gets an error (`Refuse`), and from then on no callback comes
("stuck"). A password is named by the window and the attempt it was typed in.
`phase` is where `initCache` or `disposeCache`
awaits, `req` where the window's connection attempt stands.

### Courses of events

The modules from `ServerLifecycle` on take a set `Plans`: a plan says how many resolves,
calls or attempts there are and which faults may happen, and is fixed in the
initial state. One run so covers several environments, and a property that the
code only keeps in some of them says which (`Undisturbed`, `TimelyTurns`, `Orderly`,
`Peaceful`, `Uncut`).
Each such condition stands for a divergence listed in section 6.

## 3. Model checking

| run | instance | properties |
|---|---|---|
| `ControlShell` | 3 requests, up to 2 lines each, any of them timed, any command hanging | `OneUnlessAbandoned`, `ForeignOnlyFromTimedOut`, `OwnOutputComplete`, `OutcomeIsFinal`, `EverySettles`, `ImplementsSerialExec` |
| `SessionServer` | 2 windows, 2 servers, shutdown after 3 intervals, handshake 3, client deadline 2 | `KeptAlive`, `RefcountCovers`, `RecordIsLive`, `AbandonedExits` |
| `SessionServer_found` | the same | violates `SessionsCanBeFound` |
| `ServerLifecycle` | 2 windows; 5 resolves in timely turns over dying servers, 3 overlapping, 2 overlapping with crashes, failing operations, old locks, late, slow and hanging starts, or closed owners | `LockExcludes`, `LockIsReleased`, `TokenAccepted`, `MetadataAgrees`, `UsedServerOnRecord`, `SweepSparesUsed`, `ResolveEnds` |
| `ServerLifecycle_stale` | 2 windows, 2 resolves, crashes and old locks | violates `LockIsExclusive` |
| `SharedTransport` | 2+2 overlapping calls with every fault, 3+2 in turn, 2+2 overlapping over sound connections | `OneCreation`, `RegisteredIsOpen`, `LiveFlowOpen`, `OneHealthyTransport`, `NoneOrphaned`, `DisposeClosesAll`, `RefsAreFlows` |
| `SharedTransport_settle` | 2+1 calls, every fault | `CallsSettle` |
| `SharedTransport_one` | 2+1 calls, a connection that dies | violates `OneTransport` |
| `HostSetup` | 2 windows, 2 or 3 setups: overlapping with failing uploads, failing and corrupt downloads, with kills, with dying transports, without checksums, with teardowns and a late answer | `UpMeansWhole`, `UsedStaysUp`, `OrphanEnds`, `Settles` |
| `TunnelStream` | every operation on bodies of 0 and 4 bytes (and 2 of stderr), with no fault, each fault (failing reads, writes and closes of the file among them) alone, and all that leave the order alone | `SuccessIsWhole`, `ImplementsByteChannel`, `Settles` |
| `DirectConnection` | 1 connection with all faults but late answers, 2 resolves with groups of faults | `OneForward`, `StrayOnlyKnown`, `DeadForCause`, `LossNoticed`, `ResolveSettles` |
| `AskpassCache` | 2 windows that start, rotate and close; die; 1 with retries and failing writes | `EvictedGone`, `RestartChangesNothing`, `Settles` |

Every run has `CHECK_DEADLOCK FALSE`: the histories are finite (a bounded number
of requests, servers, resolves or calls), and the system is at rest after them.

Why the bounds are enough to be of use. Three requests are one that times out,
one whose answer it can spoil and one behind it; two lines and a marker make
every cut of a data event (before, within and after an answer). Two servers are
the least at which one can take over the file of the other; a shutdown timer of
three intervals is the code's own ratio of 18s to 6s, and the client's deadline is
shorter than the server's handshake, so that a server also comes up after its
client gave up. A resolve in
`ServerLifecycle` can be disturbed by what an earlier one left, what the one
before that left, and one that runs at the same time; five in turn go through
start, death, sweep, restart and reuse. For `SharedTransport` three calls of one
kind are an old flow, its replacement and a third that meets both. Two windows
suffice for a setup that probes what another is starting, and three setups for
one that finds what two before it left. Four bytes behind a header make every
cut before, within and after it. Two resolves without a session are an old
forward and its successor. Two TTL periods, three starts and two attempts of a
window are a sweep, a rotation and a retry that meets what the first attempt
stored.

**Fairness.** `ControlShell`: the event loop runs the queue, delivers data and
fires timers, and the shell ends a command that does not hang; nothing makes
requests arrive or the process exit. `EverySettles` excludes just the case the
code does not handle: a request without a timeout behind, or being, a command
that hangs (`Patient`). `SessionServer`: time passes, expired timers fire,
requests on the local socket are answered or refused; users, crashes and the
network owe nothing, so `AbandonedExits` cannot lean on a detach or on ssh.
`ServerLifecycle`: remote operations are answered (each has a timeout, or ends
with the connection, which is a `Crash` or a `Throws`) and remote processes run.
`SharedTransport`: a probe ends after 5s, what a creation or a start awaits ends
with an answer, a timeout or the end of ssh, and settled promises run.
`HostSetup`: commands are answered or end with the transport they go through,
heartbeats go on, a launched transport gets to its next step, and one without
heartbeats idles out (120s; the waits for a new transport are shorter, which
`IdleOut` takes for granted). `TunnelStream`: the event loop runs, the far end
answers unless the plan lets it hang. `DirectConnection`: probes end after 5s,
commands without a timeout end with their ssh process or its tcp connection,
timers fire, the close of a child follows its exit. `AskpassCache`: the secret
storage answers and so does the disk, if need be with an error, after which the
write stream is what `stream` says; persons and ssh are not
obliged to anything but an end of the attempt. All are weak fairness, one per
process.

**Symmetry** is used only in `SharedTransport` (calls of one kind), whose run
checks invariants alone.

Each property was also checked to fail on a mutated definition (PROJECT.json,
"mutants"): an unserialized queue, a scan of each chunk by itself, a timer that
ignores the settled flag, a keepalive that does not reset, a reuse that is not
counted, a promise that is not deleted, metadata written before the port is
open, an eviction that is not awaited, and so on. The mutated forms stand
beside the definitions, each marked `mutant`.

## 4. Proofs

Each `X_proofs` module extends `X`. The theorems hold for every value of the
constants that satisfies the named assumptions of the modules: any number of
requests, lines, clients, servers, windows, resolves, calls, and any plans.

| theorem | says |
|---|---|
| `ControlShell_proofs!TypeCorrect` | type correctness |
| `ControlShell_proofs!ForeignLines` | `ForeignOnlyFromTimedOut` |
| `ControlShell_proofs!CompleteAnswers` | `OwnOutputComplete` |
| `ControlShell_proofs!SerialUnlessAbandoned` | `OneUnlessAbandoned` |
| `ControlShell_proofs!OutcomesAreFinal` | `OutcomeIsFinal` |
| `ControlShell_proofs!Implements` | `ControlShell` implements `SerialExec` |
| `SessionServer_proofs!TypeCorrect` | type correctness, timers and refcounts within bounds |
| `SessionServer_proofs!KeepaliveSuffices` | `KeptAlive`, for any shutdown timeout of two intervals or more |
| `SessionServer_proofs!NoDeadRecord` | `RecordIsLive`: a record is that of a server that runs, was killed or whose http server failed |
| `SessionServer_proofs!RefcountIsEnough` | `RefcountCovers` |
| `ServerLifecycle_proofs!TypeCorrect` | type correctness |
| `ServerLifecycle_proofs!LockExclusion` | `LockExcludes`, crashes included |
| `ServerLifecycle_proofs!LockRelease` | `LockIsReleased`, crashes and failing operations included: they are the only ones to leave a lock |
| `ServerLifecycle_proofs!RecordAgrees` | `MetadataAgrees` |
| `ServerLifecycle_proofs!TokenIsAccepted` | `TokenAccepted` |
| `ServerLifecycle_proofs!UsedIsRecorded` | `UsedServerOnRecord` |
| `ServerLifecycle_proofs!SweepIsSafe` | `SweepSparesUsed` |
| `SharedTransport_proofs!TypeCorrect` | type correctness |
| `SharedTransport_proofs!SingleFlight` | `OneCreation`, for any overlap and any faults |
| `SharedTransport_proofs!RegistryOpen` | `RegisteredIsOpen`, for any overlap and any faults |
| `SharedTransport_proofs!FlowsStayOpen` | `LiveFlowOpen`, failing starts and creations included |
| `SharedTransport_proofs!NothingOrphaned` | `NoneOrphaned` |
| `SharedTransport_proofs!DisposeIsComplete` | `DisposeClosesAll` |
| `SharedTransport_proofs!RefcountIsFlows` | `RefsAreFlows` |
| `SharedTransport_proofs!OneTransportWhileHealthy` | `OneHealthyTransport`, for any overlap |
| `HostSetup_proofs!TypeCorrect` | type correctness |
| `HostSetup_proofs!UsedIsKept` | `UsedStaysUp`, for any windows and setups, overlapping, crashing or failing |
| `HostSetup_proofs!UpIsWhole` | `UpMeansWhole`, for any windows and setups, overlapping or failing |
| `DirectConnection_proofs!TypeCorrect` | type correctness |
| `DirectConnection_proofs!OneForwardAtATime` | `OneForward` |
| `DirectConnection_proofs!StraysAreKnown` | `StrayOnlyKnown` |
| `DirectConnection_proofs!GivenUpForCause` | `DeadForCause` |
| `AskpassCache_proofs!TypeCorrect` | type correctness: no more keys than starts |
| `AskpassCache_proofs!EvictionIsComplete` | `EvictedGone` |
| `AskpassCache_proofs!FileIsMemory` | `RestartChangesNothing` |
| `TunnelStream_proofs!TypeCorrect` | type correctness |
| `TunnelStream_proofs!SuccessIsComplete` | `SuccessIsWhole`, for bodies of any length, any cut and failing files |
| `TunnelStream_proofs!Implements` | `TunnelStream` implements `ByteChannel` |

Each safety invariant, action property and refinement that a passing run checks
is so a theorem as well. Where a property has a condition (`TimelyTurns`, `Orderly`,
`Uncut` ...) the theorem has the same one and no other; runs cover plans in
which it is met and plans in which it is not.

**ControlShell.** The invariant is about the order of positions in `emitted`:
where each request stands follows from `written` and `arrived` (`Queue`); lines
come in the order of the requests and a marker is the last line of its request
(`Printed`); a listener starts at or before the first line its command prints
(`Listeners`); an answer ends with its own marker, before any later listener
starts (`Answered`). None of the three properties is inductive without the rest:
that an answer holds no line of a *later* request needs `Printed`, that it holds
none of an *answered* one needs `Answered`. The refinement then follows step by
step: `Start` and the shell's own steps are stutters, `Deliver` is `Respond` or a
stutter, `Timeout` is `Reject` and `Exit` is `Fail`; that a foreign line implies
an earlier rejection is `ForeignOnlyFromTimedOut` again. `OutcomeIsFinal` needs
the invariant for one thing only: that what the queue starts next has no outcome.

**SessionServer.** `KeptAlive` is proved with its strengthening for the two
halves of an interval (`Supplied`): the server of a client that has pinged in
this interval has all of its ticks, that of one that has not yet, all but one;
`Tick` takes one and waits for every pinging client. `RecordIsLive` is inductive by
itself, since every cleanup removes the file whoever's record it holds: what makes
`SessionsCanBeFound` fail makes this one true. It allows for the two ways in which
a server ends without a cleanup, a kill and an error of its http server. `RefcountCovers` compares a number
with a set: a server that has not ended counts no fewer than its counted clients,
and an attached client that is not counted found its server gone (`Counted`). So
the branch of `handleDetach` that would take the count below zero is not reached.

**ServerLifecycle.** Under `Undisturbed` no window ever sees an old lock, so none
reaches the removal, and only the holder's own `Unlock` removes the directory
(`LockInv`). A lock is that of a resolve under way or one that a crash, an error
outside the start's try or a failing release left behind (`abandoned`, `HeldInv`):
every other way out of a resolve passes an `Unlock`. The other four theorems are
about timely turns (`TimelyTurns`), over servers that exit at any moment and hang
once they are recorded (`TurnInv`). The resolve under way has the lock, the
last number, and a number no other window uses (`Turns`); the two files of the
record agree, and a window that reuses or sweeps does so with the server on record
(`Recorded`); the only process alive is that one, or the one being started, and
none from the sweep to the launch (`Sole`). The last point is what the code leans
on: the pid it records is any process of the install path. What a wrapper reads in
the log is its own server's line, as the others are gone and the ready file was
removed (`Awaited`), and the token file is rewritten only when no server is alive
(`Tokens`). `SweepSparesUsed` follows: a sweep is due when the server on record does
not listen, and one that is used is on record.

**SharedTransport.** Whoever creates is the one in flight (`Creating`). That a
registered transport is open needs to know what the locals of suspended calls
can refer to: everything a call probes, was handed, or finds through a flow was
ready once (`HeldReady`, `FlowsReady`), so only ready transports are ever torn
down (`ClosedWereReady`), a transport under creation is not among them, and
every teardown empties the registry.

The properties of the refcount rest on `UseInv`. Its core is `Counted`: while calls
of a kind come one after the other, the count of a transport is that of the flows
on it and the calls that were handed it, and more only after a failure. A transport
torn down and not dead has none left (`Unused`). To keep that, a probe under way
must not find alive, and count up, what another call has closed meanwhile. It does
not, because what is probed is still registered or used by the kind of call that
probes it (`Probing`), and what is registered is used by the kind that made it
(`Registered`), so a call of the other kind never gives back the last reference.
`OneHealthyTransport` holds for overlapping calls, where a count may exceed the
users for ever; it needs only that it is never below (`Alone`).

**HostSetup.** A window knows a transport from its meta file (`KnownRecorded`),
which is written when the port is open (`RecordedListen`), so a known transport
that does not listen is gone, and gone for good, as numbers are not used again.
When nothing dies and no answer is late (`Peaceful`), everything a window is
about to reap, gave up, or cleans up through is gone in that sense (`GivenUp`):
so `Reap` kills nothing that runs and the kill of a cleanup never gets through.
That leaves `IdleOut`, which a client's heartbeats rule out (`ClientBeats`; an
overtaken restart has a client without them until it ends, but only where a
connection is closed).
For `UpMeansWhole`, a window that trusts an install has seen `node` on the host
(`Trusted`), and whoever made `node` is at work or has finished: a file that is
missing is one that an extraction under way has still to write (`ToBeWritten`),
and that extraction goes through a transport that runs (`Streaming`). So when none
is under way, nothing is missing.

**DirectConnection.** A transport's monitor has one probe at a time (`OneProbe`),
and one that is on its way to a restart began when the forward was gone, and
nothing brings a forward back (`RepairsTheDead`). So a restart never starts a
second forward beside a running one, and a forward that is neither in use nor
coming up was left by a restart that failed (`LeftBehind`) or by a resolve that
failed or was torn down under a probe (`TornDown`).

**AskpassCache.** An eviction counts once its row is written. By then nothing of the
attempt is in the memory (`InMemory`), nothing waits in the write stream behind the
eviction (`InQueue`), and what is on disk of the attempt is under the one key the
eviction was for, in the file the window is attached to (`OnDisk`); the rows of an
attempt cannot spread over two keys or files since a window keeps both from start to
end (`StandsAt`). `RestartChangesNothing` is `InStep`: the file and the rows to
come add up to the memory. Type correctness already needs a count: a start makes at
most one key (`KeysCounted`), across all windows.

**TunnelStream.** What is under way is one sequence (`Pipe`): the parser's buffer,
what waits for `setImmediate`, the socket. A data event moves units within it, a cut
shortens it, a reader takes its front, so the invariant speaks of positions in
`Pipe` and not of events: its bytes carry on from those received (`Bytes`), its
frames do so stream by stream with the exit last (`Frames`), and before them stands
at most the answer the client waits for (`Ahead`). A status that grants says what
the far end has done (`Done`, `Status`), hence `SuccessIsWhole`: what it excepts is
what an end of the connection and two ignored errors of the far end (the read of a
`get`, the close of a `put`) do not let the client see. The refinement maps
every step to a `ByteChannel` step or a stutter, with the same invariant for the
order. The attempt at this proof found two guards of a `CASE` in `TakeStatus` that
overlapped, where TLC took the first and the semantics leaves open which; they are
disjoint now.

**Only model-checked.** The liveness properties, as the prover has no rule for
fairness and `ENABLED`: `EverySettles`, `AbandonedExits`, `ResolveEnds`,
`CallsSettle`, `OrphanEnds`, `LossNoticed`, `ResolveSettles` and the three
`Settles`; and the counterexamples of the violation runs, which are behaviours of
small instances. No recursive definition is used; there is nothing about data that
would need an induction.

## 5. What is left out of the modelled parts

`/shutdown` (no client sends it), logs, bearer tokens and framing of the local
server; a failing write of its persistence file (`localServer.ts:270-276`), which
leaves a listening server without a record, as the cleanup of another server does;
a `serverFinalize` that fails between its two files; two concurrent `start()` calls
of one client (its callers share one pending transport); bytes within a line (a multi-byte character cut by
`chunk.toString`); what a creation of a transport does inside, in
`SharedTransport` (`HostSetup` has it); standalone transports of the exec server
without a session; a second install path, which would share `server-ready` and
`server-start.log` with the first.

In `HostSetup`: three missed heartbeats are one step, so heartbeats that overlap
are not told apart; a setup of a window whose restart was overtaken begins once
that restart has ended; a transport client left by a failed setup makes no restart
of its own; two concurrent copies of busybox. In `TunnelStream`: one operation at a time, path
checks as a refusal. In `AskpassCache`: cryptography, passphrases of key files,
`clearAll` (nothing calls it), a dispose amid the initialization (the editor
deactivates what it has activated), node-dirty's coalescing behind a full stream.

Not modelled at all, with the reason, are the components marked so in
PROJECT.json: what is reached by no path of the program with a session
(`SshSessionProcess`), presentation, text parsing and build scripts.

## 6. Where code and documentation diverge

Three are shown by runs (PROJECT.json, "findings"): the persistence file
unlinked by another server's cleanup, the stale lock acquired twice, and the
registry entry of a replacement deleted by the last release of the transport it
replaced. The others met while modelling, and where they enter the models:

- *A timed-out command keeps the shell* (`localServer.ts:592` against the
  "Serialized: one command at a time" of line 487): the next command is written
  behind it and its late output lands in the next answer. Hence the "unless
  abandoned" of `OneUnlessAbandoned` and the "mixed" answers of `SerialExec`.
- *The shutdown timer starts with the handshake*, whatever the refcount
  (`localServer.ts:168`; "Starts when refcount hits 0", `protocol.ts:28`).
- *The client waits 60s* for a handshake that may be configured to take longer
  (`client.ts:277`; "so password entry isn't rushed", `connection.ts:77-82`): a
  server that then comes up has no client, see `AbandonedExits`.
- *The destination label holds no port* (`client.ts:39`, `client.ts:79`): two
  ports of one host share a persistence file and so a local server.
- *A resolve without the lock starts a server all the same* (`R:487`; the lock is
  there because "Two parallel resolves … would race", `R:476`). Hence `TimelyTurns`.
- *The recorded pid need not be the new server's* (`zygos.go:199`), so pid and
  port files may describe two servers after an owner was closed. Hence `TimelyTurns`.
- *A reuse without a token file mints a token* the server has never seen
  (`R:514`, against `R:505-506`). Hence `TimelyTurns`.
- *The sweep kills every process of the install path* (`zygos.go:178`), also the
  healthy server of another window once the record was removed by a closing
  owner. Hence `TimelyTurns`.
- *The lock stays after an error outside the start's try*: of `copyAuthFiles`
  (`R:493`), of the token of a reused server (`R:510-527`) and of
  `finalizeServerStart` (`R:586-608`), or of the release itself. Then nobody
  holds it and nobody gets it for half an hour. Hence `abandoned`.
- *A start that is late, slow or hangs before it is recorded* leaves a server
  nobody recorded, or the pid of one server beside the port of another: the next
  finalize may record the pid of the former (`zygos.go:199`), the wrapper may find
  the line of an earlier start before its redirection empties the log
  (`start-server.sh:11-15`), and a window then connects with the token it minted to
  a server that has another. With any of the faults `hang`, `slow`, `late` and
  `throw` beside `exit`, `MetadataAgrees`, `UsedServerOnRecord` and
  `SweepSparesUsed` are violated, and with `slow`, `late` or `throw` also
  `TokenAccepted`. Hence `TimelyTurns`.
- *A server whose listen fails leaves its record* (`localServer.ts:165-174`): it
  exits without its cleanup. Hence "failed" in `RecordIsLive`.
- *A failed start keeps its reference* (`R:364`; "number of flows holding this",
  `R:108`), and so does a resolve that returns another's flow from the recheck.
  Hence `Orderly`.
- *A creation that throws leaves its ssh connection open* (`R:1904`). Hence
  `Orderly` in `NoneOrphaned`.
- *A transport may die while it is probed and be handed out* (`R:1605`; "don't
  get pinned to a dead SOCKS port", `R:1595`).

Of the host setup:

- *An orphan does not always die in 2 minutes* (`R:81-82`): a setup that fails
  after its transport started leaves the client and its heartbeats running
  (`R:1904-1916`), so the transport, and the ssh session under it, live as long
  as the window. Hence `left` in `OrphanEnds`.
- *A restart in place goes through the transport it is to replace* (`R:1740`):
  with that process gone it fails at its first command, and the connection is
  marked dead. It only succeeds over a transport that answers again.
- *A restart goes on past its connection's teardown*: suspended in the probe of
  the old transport (`R:1196`) it needs no command, and then makes a transport
  client (`R:1718-1728`) that nobody disposes. Hence `Overtaken` and its part in
  `left`.
- *Stale metadata is not removed* before a launch (`R:1128`), so the poll may
  hand out the dead transport's port; the heartbeat finds out.
- *A teardown kills the transport the metadata names* (`R:1955-1966`), which may
  be in use by another window of the same home directory.
- *A probe slower than 2s kills a live transport* (`R:1196`). Hence `Peaceful`.
- *`-f node` is no proof of an install* (`busybox.ts:211`): it is true from the
  first moment of an extraction, and stays true after one that was cut off.
  Hence `Uncut`.
- *A tarball is cached before its checksum is verified* (`download.ts:118`), so
  after a mismatch every retry takes the bad one from the cache again.

Of the streams:

- `fs.read` and `connectUnix` lose bytes that come together with the response
  header (`execServer.ts:113-132`, `client.ts:513-514`).
- A data event before `setImmediate` overtakes the bytes that came with the
  proxy's reply (`socks5.ts:128-138`).
- Where an operation is delimited by the end of the connection, a cut is taken
  for the end (`client.ts:549-557`).
- A file that cannot be read to its end is reported as a success: `doGet` ignores
  the error of the copy (`main.go:478`) and the connection ends in order. `doPut`
  ignores the error of the close (`main.go:441`). Hence two of the exceptions of
  `SuccessIsWhole`.
- `readResponse` has no timer, and `putFile` may wait for the drain of a
  connection that is gone, also when the far end failed to write and closed; an
  end within the handshake is seen by the timer only.

Of the connection without a session:

- The first forward's close marks the connection dead at once, so the repair in
  place (`connectionMonitor.ts:13-18`) only happens when a probe falls between a
  child's exit and its close, or the forward dies before the listener is there.
- A close that comes while the restart is still awaiting ends the connection,
  though the new forward comes up (`R:1331-1340`).
- The flow's server process is never set, so the monitor does not watch it; one
  that exits between its port line and the registration is noticed by nobody.
- A failed restart, a failed creation and a stop amid a probe may each leave an
  `ssh -D` (`StrayOnlyKnown` names the four ways).
- A flow that dies while it is probed is handed out: `dead` is read before the
  probe only (`R:426-446`).
- `startServer` settles neither way when its child ends with code 0 before the
  port (`R:800`). Hence the condition of `ResolveSettles`.

Of the passwords:

- A cache hit never counts as a password the attempt used, so one that was
  changed on the host sticks for the TTL, against the comment at `R:364-369`;
  and a wrong password is a hit for ssh's next two asks.
- A password typed into a prompt whose attempt was given up is cached and not
  evicted (`late`).
- A row that is cut makes the load fail, and with it the activation of every
  window until the TTL wipes the file.
- Other windows keep an evicted password in memory.
- Two windows that start for the first time both make a key, and the sweep of
  one may remove the file the other writes to: its passwords do not survive it.
- The first write that fails destroys node-dirty's stream (`dirty.js:149-183`; it
  has no listener for 'error'): who waits for a row in it gets an error, and so does
  who waits for the next one; callbacks of later rows never come, so an eviction and
  its connection attempt hang, and `dispose` waits for a 'close' that was lost. Hence
  the exceptions of `Settles`.
- An eviction that fails (disk full) replaces the attempt's error and leaves the
  askpass server running.

## 7. Plan

The modules of the first plan are written, under other names where one of them
took in two: host setup (transport bootstrap, health, install), direct
connection (monitor, server start), askpass cache (store, server), tunnel stream
(SOCKS5, managed connection). What is left:

1. A composition of `SharedTransport` and `HostSetup`, in which the creation and
   the restart of a transport are the steps of the latter, with the safety of
   both over it.
2. Theorems without the conditions of section 6 where a weaker statement holds
   with overlap: what `RefsAreFlows` and `MetadataAgrees` become when a start fails
   or a resolve runs without the lock.
3. An abstract lock for `ServerLifecycle`, implemented by its four steps in every
   plan that reclaims no lock.
