----------------------------- MODULE AskpassCache -----------------------------
(***************************************************************************)
(* The password cache of src/src/ssh/askpassCache.ts, kept in an append-only *)
(* log (src/vendor/node-dirty/dirty.js) that all windows share, under a      *)
(* master key in the editor's secret storage, and the askpass servers that   *)
(* fill it and empty it (src/src/ssh/askpassServer.ts, the failure paths of   *)
(* src/src/resolver/index.ts).                                              *)
(*                                                                          *)
(* There is one prompt, for the password of a host; a password is named by   *)
(* the window and the connection attempt it was typed in.  A row is keyed by *)
(* a HMAC of the prompt, so the log holds one key per master key.  Only the  *)
(* file at the path is kept: a window whose file was removed goes on writing *)
(* to a file nobody reads.  Of the file only what its rows add up to is kept. *)
(*                                                                          *)
(* Abstracted: cryptography (a row reads under the master key it was written *)
(* with), passphrases of key files (checked before they are cached), the     *)
(* write stream's high-water mark; opening and loading the log, sweeping it  *)
(* and replacing an empty one are one step.  The editor deactivates only what *)
(* it has activated, so a window is not disposed of amid its init().         *)
(***************************************************************************)
EXTENDS Integers, Sequences, SequencesExt

CONSTANTS
  Windows,    \* editor windows of one user
  Attempts,   \* bound: connection attempts of a window
  Asks,       \* NumberOfPasswordPrompts: how often ssh asks in an attempt
  Periods,    \* bound: how many times the TTL passes
  Starts,     \* bound: how many times windows start
  Plans       \* the courses of events considered, see Plan

(* How much of each happens: the attempts of a window, and what may go wrong: *)
(* windows die, writes fail                                                  *)
Plan == [attempts : [Windows -> 0..Attempts], asks : 1..Asks,
         periods : 0..Periods, starts : 1..Starts,
         faults : SUBSET {"crash", "full"}]

ASSUME PlansAssumption == Plans \subseteq Plan
ASSUME BoundsAssumption ==
  /\ Attempts \in Nat \ {0} /\ Asks \in Nat \ {0}
  /\ Periods \in Nat /\ Starts \in Nat \ {0}

Keys == 1..Starts       \* a start makes one master key at most

(* late: typed into a prompt whose attempt had been given up; at: the TTL    *)
(* period it was stored in                                                   *)
Entry == [from : Windows, attempt : 1..Attempts, late : BOOLEAN, at : 0..Periods]
None == [attempt |-> 0]
Content == [Keys -> Entry \cup {None}]
Empty == [k \in Keys |-> None]

VARIABLES
  secret,     \* the master key in SecretStorage, 0 for none
  keyOld,     \* it is older than the rotation period
  keys,       \* how many master keys were made
  period,     \* the present TTL period
  disk,       \* what the rows of the file at dbPath add up to
  written,    \* the period of its mtime, -1 when there is no file
  torn,       \* one of its rows is cut
  diverged,   \* history: two windows had it open at once, or a write failed
  attached,   \* the windows whose write stream is on that file
  phase,      \* where a window's initCache or disposeCache awaits
  rotates,    \* the windows that read a key to be rotated
  key,        \* the master key behind hmacKey and aesKey
  mem,        \* db._data
  out,        \* the rows in the write stream, and what waits for each
  stream,     \* the write stream, and what a row given to it meets
  req,        \* where the window's connection attempt stands
  attempt,    \* the number of that attempt
  asks,       \* how often ssh has asked in it
  typed,      \* the windows whose askpass.usedHostPassword
  stray,      \* the attempt whose prompt is open though it is over, or 0
  ended,      \* history: the attempts that failed and evicted
  starts,     \* how many times a window was started
  plan        \* the course of events, fixed from the start

secretVars == <<secret, keyOld, keys>>
fileVars == <<disk, written, torn, diverged, attached>>
dbVars == <<mem, out, stream>>
winVars == <<phase, rotates, key, starts>>
reqVars == <<req, attempt, asks, typed, stray, ended>>
vars == <<secretVars, period, fileVars, dbVars, winVars, reqVars, plan>>

TypeOK ==
  /\ secret \in {0} \cup Keys /\ keys \in {0} \cup Keys /\ keyOld \in BOOLEAN
  /\ period \in 0..Periods /\ written \in -1..Periods
  /\ disk \in Content
  /\ torn \in BOOLEAN /\ diverged \in BOOLEAN
  /\ attached \subseteq Windows /\ rotates \subseteq Windows
  /\ phase \in [Windows -> {"down", "get", "generate", "open", "rotate",
                            "reopen", "ready", "closing", "broken"}]
  /\ key \in [Windows -> {0} \cup Keys]
  /\ mem \in [Windows -> Content]
  /\ out \in [Windows -> Seq([key : Keys, val : Entry \cup {None},
                                cb : {"none", "store", "evict"}])]
  /\ stream \in [Windows -> {"sound", "failed", "stuck"}]
  /\ req \in [Windows -> {"none", "ask", "prompt", "store", "given", "refused", "evict"}]
  /\ attempt \in [Windows -> 0..Attempts] /\ asks \in [Windows -> 0..Asks]
  /\ typed \subseteq Windows
  /\ stray \in [Windows -> 0..Attempts]
  /\ ended \subseteq Windows \X (1..Attempts)
  /\ starts \in 0..Starts
  /\ plan \in Plans

Init ==
  /\ secret = 0 /\ keyOld = FALSE /\ keys = 0 /\ period = 0
  /\ disk = Empty /\ written = -1
  /\ torn = FALSE /\ diverged = FALSE /\ attached = {}
  /\ phase = [w \in Windows |-> "down"] /\ rotates = {} /\ starts = 0
  /\ key = [w \in Windows |-> 0]
  /\ mem = [w \in Windows |-> Empty] /\ out = [w \in Windows |-> <<>>]
  /\ stream = [w \in Windows |-> "sound"]
  /\ req = [w \in Windows |-> "none"]
  /\ attempt = [w \in Windows |-> 0] /\ asks = [w \in Windows |-> 0]
  /\ typed = {} /\ ended = {}
  /\ stray = [w \in Windows |-> 0]
  /\ plan \in Plans

Stale(e) == e # None /\ e.at < period
Cached(w) == mem[w][key[w]]

-----------------------------------------------------------------------------
(* The log *)

(* mutant: removing a stale entry only changes the memory *)
Put_MemoryOnly(w, val, cb) ==
  /\ mem' = [mem EXCEPT ![w][key[w]] = val]
  /\ out' = IF val = None /\ cb = "none" THEN out
            ELSE [out EXCEPT ![w] =
                    Append(@, [key |-> key[w], val |-> val, cb |-> cb])]
  /\ UNCHANGED stream

(* set() and rm() of the prompt, under the window's key *)
Put(w, val, cb) ==
  /\ mem' = [mem EXCEPT ![w][key[w]] = val]
  /\ out' = [out EXCEPT ![w] =
               Append(@, [key |-> key[w], val |-> val, cb |-> cb])]
  /\ UNCHANGED stream

(* unlinkSync() and a new Dirty: the file is made anew *)
Renew(w) ==
  /\ disk' = Empty /\ written' = period
  /\ torn' = FALSE /\ diverged' = FALSE
  /\ attached' = {w}
  /\ mem' = [mem EXCEPT ![w] = Empty]
  /\ UNCHANGED <<out, stream>>

(* A new Dirty on the file that is there, and sweep(): the rows of other     *)
(* keys and the stale ones are removed                                       *)
Join(w) ==
  LET Good(k) == k = key[w] /\ ~Stale(disk[k])
      swept == {k \in Keys : disk[k] # None /\ ~Good(k)}
  IN /\ attached' = attached \cup {w}
     /\ diverged' = (attached # {})
     /\ mem' = [mem EXCEPT ![w] = [k \in Keys |-> IF Good(k) THEN disk[k] ELSE None]]
     /\ out' = [out EXCEPT ![w] =
                  [i \in DOMAIN SetToSeq(swept) |->
                     [key |-> SetToSeq(swept)[i], val |-> None, cb |-> "none"]]]
     /\ UNCHANGED <<disk, written, torn, stream>>

(* What becomes of the attempt that waited for a row: ssh gets the password  *)
(* or an error, or the eviction is over                                      *)
Settle(w, cb, ok) ==
  /\ \/ /\ cb = "store" /\ req[w] = "store"
        /\ req' = [req EXCEPT ![w] = IF ok THEN "given" ELSE "refused"]
     \/ /\ cb = "evict" /\ req[w] = "evict"
        /\ req' = [req EXCEPT ![w] = "none"]
     \/ /\ cb = "none" \/ req[w] # cb
        /\ UNCHANGED req
  /\ ended' = IF cb = "evict" /\ req[w] = cb /\ ok
              THEN ended \cup {<<w, attempt[w]>>} ELSE ended
  /\ UNCHANGED <<attempt, asks, typed, stray>>

(* The write stream's first row reaches the file; behind a cut row it is lost *)
WriteRow(w) ==
  /\ stream[w] = "sound" /\ out[w] # <<>>
  /\ out' = [out EXCEPT ![w] = Tail(@)]
  /\ LET row == Head(out[w])
     IN /\ disk' = IF w \in attached /\ ~torn
                   THEN [disk EXCEPT ![row.key] = row.val] ELSE disk
        /\ Settle(w, row.cb, TRUE)
  /\ written' = IF w \in attached THEN period ELSE written
  /\ UNCHANGED <<secretVars, period, torn, diverged, attached, mem, stream, winVars>>

(* Rows are lost, and who waits for one of them gets an error; the memory    *)
(* keeps what the file lacks                                                 *)
Lose(w, lost, rest, state) ==
  /\ out' = [out EXCEPT ![w] = rest]
  /\ stream' = [stream EXCEPT ![w] = state]
  /\ diverged' = (diverged \/ w \in attached)
  /\ Settle(w, IF req[w] \in {row.cb : row \in lost} THEN req[w] ELSE "none", FALSE)
  /\ UNCHANGED <<secretVars, period, disk, written, attached, mem, winVars>>

(* mutant: the callbacks of the rows that fail are not called *)
WriteFails_Silent(w) ==
  /\ "full" \in plan.faults
  /\ stream[w] = "sound" /\ out[w] # <<>>
  /\ Lose(w, {}, <<>>, "failed")
  /\ UNCHANGED torn

(* A write fails, perhaps in the middle of its row.  The stream is destroyed *)
(* with all the rows in it; as nothing listens for its 'error', which the    *)
(* editor only logs, its 'close' is not emitted either.                      *)
WriteFails(w) ==
  /\ "full" \in plan.faults
  /\ stream[w] = "sound" /\ out[w] # <<>>
  /\ Lose(w, ToSet(out[w]), <<>>, "failed")
  /\ torn' \in {torn, torn \/ w \in attached}

(* The next row is refused with an error.  That write() returned FALSE, and  *)
(* the 'drain' that _waitForDrain waits for never comes: _flush() writes no  *)
(* more and the callbacks of later rows are never called.                    *)
Refuse(w) ==
  /\ stream[w] = "failed" /\ out[w] # <<>>
  /\ Lose(w, {Head(out[w])}, Tail(out[w]), "stuck")
  /\ UNCHANGED torn

-----------------------------------------------------------------------------
(* initCache and disposeCache *)

Start(w) ==
  /\ phase[w] = "down" /\ starts < plan.starts
  /\ starts' = starts + 1
  /\ phase' = [phase EXCEPT ![w] = "get"]
  /\ UNCHANGED <<secretVars, period, fileVars, dbVars, rotates, key, reqVars>>

(* secrets.get() answers with a key, or the first key is to be made *)
ReadSecret(w) ==
  /\ phase[w] = "get"
  /\ phase' = [phase EXCEPT ![w] = IF secret = 0 THEN "generate" ELSE "open"]
  /\ key' = [key EXCEPT ![w] = secret]
  /\ rotates' = IF keyOld THEN rotates \cup {w} ELSE rotates \ {w}
  /\ UNCHANGED <<secretVars, period, fileVars, dbVars, starts, reqVars>>

(* secrets.store() of a new key, whatever another window has stored by now *)
StoreKey(w, next) ==
  /\ keys' = keys + 1
  /\ secret' = keys' /\ keyOld' = FALSE
  /\ key' = [key EXCEPT ![w] = keys']
  /\ rotates' = rotates \ {w}
  /\ phase' = [phase EXCEPT ![w] = next]
  /\ UNCHANGED <<period, fileVars, dbVars, starts, reqVars>>

StoreFirstKey(w) == phase[w] = "generate" /\ StoreKey(w, "open")

StoreRotatedKey(w) == phase[w] = "rotate" /\ StoreKey(w, "reopen")

(* There is a file, and init() does not wipe it for its mtime *)
Present(w) == written # -1 /\ (phase[w] = "open" => written = period)

(* openDb() has loaded the log; sweep() replaces an empty one.  A cut row    *)
(* makes it, and so activate(), fail.                                        *)
LoadDb(w) ==
  /\ phase[w] = "reopen" \/ (phase[w] = "open" /\ w \notin rotates)
  /\ \/ /\ Present(w) /\ torn
        /\ phase' = [phase EXCEPT ![w] = "broken"]
        /\ UNCHANGED <<fileVars, dbVars>>
     \/ /\ ~Present(w) \/ (~torn /\ (disk[key[w]] = None \/ Stale(disk[key[w]])))
        /\ phase' = [phase EXCEPT ![w] = "ready"]
        /\ Renew(w)
     \/ /\ Present(w) /\ ~torn /\ disk[key[w]] # None /\ ~Stale(disk[key[w]])
        /\ phase' = [phase EXCEPT ![w] = "ready"]
        /\ Join(w)
  /\ UNCHANGED <<secretVars, period, rotates, key, starts, reqVars>>

(* It has, and the key is too old: rotateMasterKey() removes the file *)
RotateMasterKey(w) ==
  /\ phase[w] = "open" /\ w \in rotates
  /\ \/ /\ Present(w) /\ torn
        /\ phase' = [phase EXCEPT ![w] = "broken"]
        /\ UNCHANGED fileVars
     \/ /\ ~(Present(w) /\ torn)
        /\ phase' = [phase EXCEPT ![w] = "rotate"]
        /\ disk' = Empty /\ written' = -1
        /\ torn' = FALSE /\ diverged' = FALSE /\ attached' = {}
  /\ UNCHANGED <<secretVars, period, dbVars, rotates, key, starts, reqVars>>

(* The window's attempt and its prompts go with it *)
Abandon(w) ==
  /\ req' = [req EXCEPT ![w] = "none"]
  /\ asks' = [asks EXCEPT ![w] = 0]
  /\ typed' = typed \ {w}
  /\ stray' = [stray EXCEPT ![w] = 0]
  /\ UNCHANGED <<attempt, ended>>

(* deactivate(): dispose() closes the log, once what is queued is written *)
Deactivate(w) ==
  /\ phase[w] \in {"ready", "broken"}
  /\ phase' = [phase EXCEPT ![w] = "closing"]
  /\ Abandon(w)
  /\ UNCHANGED <<secretVars, period, fileVars, dbVars, rotates, key, starts>>

Gone(w) ==
  /\ phase' = [phase EXCEPT ![w] = "down"]
  /\ key' = [key EXCEPT ![w] = 0]
  /\ mem' = [mem EXCEPT ![w] = Empty]
  /\ out' = [out EXCEPT ![w] = <<>>]
  /\ stream' = [stream EXCEPT ![w] = "sound"]
  /\ attached' = attached \ {w}
  /\ rotates' = rotates \ {w}
  /\ UNCHANGED <<secretVars, period, disk, written, diverged, starts>>

(* The write_close of a stream that was destroyed does not come *)
Closed(w) ==
  /\ phase[w] = "closing" /\ stream[w] = "sound" /\ out[w] = <<>>
  /\ Gone(w)
  /\ UNCHANGED <<torn, reqVars>>

(* The window dies; a row on its way to the file may be cut *)
Kill(w) ==
  /\ "crash" \in plan.faults
  /\ phase[w] # "down"
  /\ \/ UNCHANGED torn
     \/ w \in attached /\ stream[w] = "sound" /\ out[w] # <<>> /\ torn' = TRUE
  /\ Gone(w)
  /\ Abandon(w)

(* The TTL passes for all that is stored, and perhaps the rotation period *)
TtlPasses ==
  /\ period < plan.periods
  /\ period' = period + 1
  /\ keyOld' \in {keyOld, secret # 0}
  /\ UNCHANGED <<secret, keys, fileVars, dbVars, winVars, reqVars>>

-----------------------------------------------------------------------------
(* A connection attempt and its askpass server *)

attemptFrame == <<secretVars, period, fileVars, winVars>>

(* createTransport() starts an askpass server and ssh asks for the password *)
Begin(w) ==
  /\ phase[w] = "ready" /\ req[w] = "none" /\ attempt[w] < plan.attempts[w]
  /\ attempt' = [attempt EXCEPT ![w] = @ + 1]
  /\ asks' = [asks EXCEPT ![w] = 1]
  /\ typed' = typed \ {w}
  /\ req' = [req EXCEPT ![w] = "ask"]
  /\ UNCHANGED <<attemptFrame, dbVars, stray, ended>>

(* handleRequest() with what getCached() finds *)
Hit(w) ==
  /\ req[w] = "ask"
  /\ Cached(w) # None /\ ~Stale(Cached(w))
  /\ req' = [req EXCEPT ![w] = "given"]
  /\ UNCHANGED <<attemptFrame, dbVars, attempt, asks, typed, stray, ended>>

Miss(w) ==
  /\ req[w] = "ask"
  /\ \/ /\ Cached(w) = None
        /\ UNCHANGED dbVars
     \/ /\ Stale(Cached(w))
        /\ Put(w, None, "none")
  /\ req' = [req EXCEPT ![w] = "prompt"]
  /\ UNCHANGED <<attemptFrame, attempt, asks, typed, stray, ended>>

Password(w, n, late) == [from |-> w, attempt |-> n, late |-> late, at |-> period]

(* The user answers: the password is cached before ssh gets it *)
Type(w) ==
  /\ req[w] = "prompt"
  /\ Put(w, Password(w, attempt[w], FALSE), "store")
  /\ typed' = typed \cup {w}
  /\ req' = [req EXCEPT ![w] = "store"]
  /\ UNCHANGED <<attemptFrame, attempt, asks, stray, ended>>

Cancel(w) ==
  /\ req[w] = "prompt"
  /\ req' = [req EXCEPT ![w] = "refused"]
  /\ UNCHANGED <<attemptFrame, dbVars, attempt, asks, typed, stray, ended>>

(* The host rejects what ssh got, and ssh asks again *)
AskAgain(w) ==
  /\ req[w] \in {"given", "refused"} /\ asks[w] < plan.asks
  /\ asks' = [asks EXCEPT ![w] = @ + 1]
  /\ req' = [req EXCEPT ![w] = "ask"]
  /\ UNCHANGED <<attemptFrame, dbVars, attempt, typed, stray, ended>>

Connected(w) ==
  /\ req[w] = "given"
  /\ req' = [req EXCEPT ![w] = "none"]
  /\ UNCHANGED <<attemptFrame, dbVars, attempt, asks, typed, stray, ended>>

(* mutant: the eviction is not awaited *)
Fails_NoAwait(w) ==
  /\ req[w] \in {"prompt", "store", "given", "refused"}
  /\ stray' = [stray EXCEPT ![w] = IF req[w] = "prompt" THEN attempt[w] ELSE @]
  /\ req' = [req EXCEPT ![w] = "none"]
  /\ \/ /\ w \in typed
        /\ Put(w, None, "none")
        /\ ended' = ended \cup {<<w, attempt[w]>>}
     \/ /\ w \notin typed
        /\ UNCHANGED <<dbVars, ended>>
  /\ UNCHANGED <<attemptFrame, attempt, asks, typed>>

(* The attempt fails: the host said no for the last time, the handshake took *)
(* too long, or a later step threw.  evictHostPasswords() removes the prompt *)
(* if a password was typed, then the server stops; an open prompt stays.     *)
Fails(w) ==
  /\ req[w] \in {"prompt", "store", "given", "refused"}
  /\ stray' = [stray EXCEPT ![w] = IF req[w] = "prompt" THEN attempt[w] ELSE @]
  /\ \/ /\ w \in typed
        /\ Put(w, None, "evict")
        /\ req' = [req EXCEPT ![w] = "evict"]
     \/ /\ w \notin typed
        /\ req' = [req EXCEPT ![w] = "none"]
        /\ UNCHANGED dbVars
  /\ UNCHANGED <<attemptFrame, attempt, asks, typed, ended>>

(* The user answers a prompt nobody waits for: the answer is cached *)
TypeLate(w) ==
  /\ stray[w] # 0
  /\ \/ Put(w, Password(w, stray[w], TRUE), "none")
     \/ UNCHANGED dbVars
  /\ stray' = [stray EXCEPT ![w] = 0]
  /\ UNCHANGED <<attemptFrame, req, attempt, asks, typed, ended>>

-----------------------------------------------------------------------------
InitStep(w) ==
  \/ ReadSecret(w) \/ StoreFirstKey(w) \/ LoadDb(w)
  \/ RotateMasterKey(w) \/ StoreRotatedKey(w)

Handle(w) == Hit(w) \/ Miss(w)
Flush(w) == WriteRow(w) \/ WriteFails(w) \/ Refuse(w)
Verdict(w) == AskAgain(w) \/ Connected(w) \/ Fails(w)

Next ==
  /\ UNCHANGED plan
  /\ \/ \E w \in Windows :
          \/ Start(w) \/ InitStep(w) \/ Deactivate(w) \/ Closed(w) \/ Kill(w)
          \/ Begin(w) \/ Handle(w) \/ Type(w) \/ Cancel(w) \/ Verdict(w)
          \/ TypeLate(w) \/ Flush(w)
     \/ TtlPasses

Spec == Init /\ [][Next]_vars

(* The event loop turns, secrets and files answer, and an attempt has a      *)
(* handshake timeout.  The user need not answer.                             *)
FairSpec ==
  /\ Spec
  /\ \A w \in Windows :
       /\ WF_vars(InitStep(w) /\ UNCHANGED plan)
       /\ WF_vars(Closed(w) /\ UNCHANGED plan)
       /\ WF_vars(Handle(w) /\ UNCHANGED plan)
       /\ WF_vars(Flush(w) /\ UNCHANGED plan)
       /\ WF_vars(Verdict(w) /\ UNCHANGED plan)

-----------------------------------------------------------------------------
(* Properties *)

Remembered(w) == {mem[w][k] : k \in Keys}
Stored == {disk[k] : k \in Keys}

(* Once a failed attempt has evicted (evictHostPasswords, evict), the        *)
(* passwords typed in it are neither in its window's memory nor in the file, *)
(* whatever files were removed, keys rotated and rows written by others in   *)
(* between, so no retry and no window that starts later gets one.  A         *)
(* password typed into a prompt left open comes after the eviction, and the  *)
(* memory of windows already running is another matter.                      *)
EvictedGone ==
  \A w \in Windows :
    \A e \in {p \in Remembered(w) : p # None /\ p.from = w}
               \cup (IF torn THEN {} ELSE Stored \ {None}) :
      ~e.late => <<e.from, e.attempt>> \notin ended

(* Nothing is lost or brought back by a restart: a window that was alone     *)
(* with the file, had no write fail and has nothing left to write remembers  *)
(* what a window loading the file under its key would find (set, rm, sweep,  *)
(* openDb).                                                                  *)
RestartChangesNothing ==
  \A w \in attached :
    phase[w] = "ready" /\ ~diverged /\ out[w] = <<>> => Cached(w) = disk[key[w]]

(* Activation ends, in success or not; a connection attempt ends with its    *)
(* eviction, unless its window has lost two writes: the first error reaches  *)
(* who waits, the second leaves the stream stuck; and a window that has lost *)
(* none closes (init, handleRequest, evictHostPasswords, dispose, _flush).   *)
Settles ==
  \A w \in Windows :
    /\ phase[w] = "get" ~> phase[w] \in {"ready", "broken", "down"}
    /\ req[w] = "ask" ~> req[w] = "none" \/ stream[w] = "stuck"
    /\ phase[w] = "closing" ~> phase[w] = "down" \/ stream[w] # "sound"
=============================================================================
