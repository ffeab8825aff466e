------------------------- MODULE AskpassCache_proofs -------------------------
(***************************************************************************)
(* Theorems about AskpassCache, for any number of windows, attempts,         *)
(* periods and starts and any courses of events.                            *)
(*                                                                          *)
(* A start makes one master key at most, so the keys made and those still    *)
(* to be made are no more than the starts (KeysCounted).  An eviction counts *)
(* once its row is written: by then nothing behind it in the write stream,   *)
(* nothing in the memory and, as the rows of an attempt go to one key of one *)
(* file, nothing on disk is of the attempt (InQueue, InMemory, OnDisk).  The *)
(* rows still to be written of the only window with the file add up, on top  *)
(* of the file, to what the window remembers (InStep).                       *)
(***************************************************************************)
EXTENDS AskpassCache, FiniteSetTheorems, TLAPS

(* The windows whose start may still make a key *)
MayStore(w) ==
  phase[w] \in {"get", "generate", "rotate"} \/ (phase[w] = "open" /\ w \in rotates)
Storing == {w \in Windows : MayStore(w)}

KeysCounted ==
  /\ IsFiniteSet(Storing)
  /\ keys + Cardinality(Storing) <= starts
  /\ starts <= plan.starts
  /\ keyOld => secret # 0

(* What a window has, by how far its start or its end has come *)
StandsAt(w) ==
  /\ phase[w] \notin {"down", "get", "generate"} => key[w] # 0
  /\ phase[w] = "generate" => w \notin rotates
  /\ w \in attached => phase[w] \in {"ready", "closing"}
  /\ req[w] # "none" \/ stray[w] # 0 => phase[w] = "ready"
  /\ req[w] # "none" => attempt[w] # 0
  /\ phase[w] \notin {"ready", "closing"} => out[w] = <<>> /\ mem[w] = Empty
  /\ \A k \in Keys \ {key[w]} : mem[w][k] = None
  /\ \A n \in 1..Attempts : <<w, n>> \in ended => n <= attempt[w] /\ (req[w] # "none" => n # attempt[w])

(* A password typed in time in an attempt of w that did not evict *)
Timely(e, w) == e # None /\ e.from = w /\ ~e.late
Allowed(e, w) == e.attempt <= attempt[w] /\ <<w, e.attempt>> \notin ended

InMemory(w) ==
  \A k \in Keys :
    Timely(mem[w][k], w) =>
      Allowed(mem[w][k], w) /\ (req[w] = "evict" => mem[w][k].attempt # attempt[w])

InQueue(w) ==
  \A i \in DOMAIN out[w] :
    /\ out[w][i].val # None =>
         out[w][i].key = key[w] /\ out[w][i].val.from = w
           /\ (~out[w][i].val.late => Allowed(out[w][i].val, w))
    /\ out[w][i].cb = "evict" =>
         /\ out[w][i].key = key[w] /\ out[w][i].val = None
         /\ phase[w] = "ready" => req[w] = "evict"
         /\ \A j \in DOMAIN out[w] : j > i =>
              out[w][j].cb # "evict" /\ (out[w][j].val # None => out[w][j].val.late)

OnDisk(w) ==
  ~torn =>
    \A k \in Keys :
      Timely(disk[k], w) =>
        /\ Allowed(disk[k], w)
        /\ req[w] # "none" /\ disk[k].attempt = attempt[w] =>
             k = key[w] /\ w \in attached

(* The last of the rows that wait, under the window's key *)
LastIs(w, i) ==
  /\ out[w][i].key = key[w] /\ out[w][i].val = mem[w][key[w]]
  /\ \A j \in DOMAIN out[w] : j > i => out[w][j].key # key[w]

InStep(w) ==
  w \in attached /\ ~diverged =>
    /\ attached = {w} /\ ~torn
    /\ \/ \E i \in DOMAIN out[w] : LastIs(w, i)
       \/ /\ \A i \in DOMAIN out[w] : out[w][i].key # key[w]
          /\ disk[key[w]] = mem[w][key[w]]

Stands == \A w \in Windows : StandsAt(w)
At(w) == StandsAt(w) /\ InMemory(w) /\ InQueue(w) /\ OnDisk(w) /\ InStep(w)

IInv == TypeOK /\ KeysCounted /\ \A w \in Windows : At(w)

-----------------------------------------------------------------------------
(* Rows, contents and streams *)

Row == [key : Keys, val : Entry \cup {None}, cb : {"none", "store", "evict"}]

LEMMA ContentFacts ==
  /\ Empty \in Content /\ \A k \in Keys : Empty[k] = None
  /\ \A f \in Content, k, j \in Keys, v \in Entry \cup {None} :
       /\ [f EXCEPT ![k] = v] \in Content
       /\ [f EXCEPT ![k] = v][j] = IF j = k THEN v ELSE f[j]
  BY DEF Empty, Content

LEMMA TailFacts ==
  ASSUME NEW S, NEW q \in Seq(S), q # <<>>
  PROVE  /\ Tail(q) \in Seq(S) /\ 1 \in DOMAIN q /\ Head(q) = q[1] /\ q[1] \in S
         /\ \A i \in DOMAIN Tail(q) :
              i + 1 \in DOMAIN q /\ i + 1 > 1 /\ Tail(q)[i] = q[i + 1]
         /\ \A i \in DOMAIN q : i # 1 => i - 1 \in DOMAIN Tail(q)
         /\ \A i, j \in DOMAIN Tail(q) : j > i => j + 1 > i + 1
<1>1. Len(q) \in Nat /\ Len(q) # 0 /\ DOMAIN q = 1..Len(q)
  OBVIOUS
<1>2. Tail(q) \in Seq(S) /\ Len(Tail(q)) = Len(q) - 1
  OBVIOUS
<1>. QED BY <1>1, <1>2

LEMMA AppendFacts ==
  ASSUME NEW S, NEW q \in Seq(S), NEW e \in S
  PROVE  /\ Append(q, e) \in Seq(S)
         /\ DOMAIN Append(q, e) = DOMAIN q \cup {Len(q) + 1}
         /\ Append(q, e)[Len(q) + 1] = e
         /\ \A i \in DOMAIN q : Append(q, e)[i] = q[i] /\ i < Len(q) + 1
<1>1. Len(q) \in Nat /\ DOMAIN q = 1..Len(q)
  OBVIOUS
<1>2. Append(q, e) \in Seq(S) /\ Len(Append(q, e)) = Len(q) + 1
  OBVIOUS
<1>. QED BY <1>1, <1>2

(* The rows by which a window removes what it has swept *)
LEMMA SweepFacts ==
  ASSUME NEW S \in SUBSET Keys
  PROVE  SetToSeq(S) \in Seq(S)
<1>1. IsFiniteSet(S)
  <2>1. 1 \in Int /\ Starts \in Int
    BY BoundsAssumption
  <2>2. IsFiniteSet(Keys)
    BY <2>1, FS_Interval DEF Keys
  <2>. QED BY <2>2, FS_Subset
<1>2. \E f : f \in [1..Cardinality(S) -> S] /\ IsInjective(f)
  <2>1. PICK n \in Nat : ExistsBijection(1..n, S)
    BY <1>1, FS_NatBijection
  <2>2. Cardinality(1..n) = n /\ IsFiniteSet(1..n)
    BY FS_Interval
  <2>3. Cardinality(S) = n
    BY <2>1, <2>2, FS_Bijection
  <2>. QED BY <2>1, <2>3 DEF ExistsBijection, Bijection, Injection
<1>3. SetToSeq(S) \in [1..Cardinality(S) -> S]
  BY <1>2 DEF SetToSeq
<1>4. Cardinality(S) \in Nat
  BY <1>1, FS_CardinalityType
<1>. QED BY <1>3, <1>4

LEMMA SweptRows ==
  ASSUME NEW S \in SUBSET Keys, NEW q,
         q = [i \in DOMAIN SetToSeq(S) |-> [key |-> SetToSeq(S)[i], val |-> None, cb |-> "none"]]
  PROVE  /\ q \in Seq(Row)
         /\ \A i \in DOMAIN q : q[i].key \in S /\ q[i].val = None /\ q[i].cb = "none"
<1>1. /\ DOMAIN SetToSeq(S) = 1..Len(SetToSeq(S)) /\ Len(SetToSeq(S)) \in Nat
      /\ \A i \in DOMAIN SetToSeq(S) : SetToSeq(S)[i] \in S
  BY SweepFacts
<1>2. /\ DOMAIN q = 1..Len(SetToSeq(S))
      /\ \A i \in DOMAIN q :
           q[i] = [key |-> SetToSeq(S)[i], val |-> None, cb |-> "none"] /\ SetToSeq(S)[i] \in S
  BY <1>1
<1>3. \A i \in DOMAIN q : q[i] \in Row
  BY <1>2 DEF Row
<1>4. q \in [1..Len(SetToSeq(S)) -> Row]
  BY <1>1, <1>2, <1>3
<1>. QED BY <1>1, <1>2, <1>4

-----------------------------------------------------------------------------
(* Type correctness *)

(* A row is put behind the others *)
Adds(w, v, cb) ==
  /\ \A x \in Windows, k \in Keys :
       mem'[x][k] = IF x = w /\ k = key[w] THEN v ELSE mem[x][k]
  /\ \A x \in Windows \ {w} : out'[x] = out[x]
  /\ \E n \in Nat :
       /\ DOMAIN out'[w] = DOMAIN out[w] \cup {n}
       /\ out'[w][n].key = key[w] /\ out'[w][n].val = v /\ out'[w][n].cb = cb
       /\ \A i \in DOMAIN out[w] : i \in Nat /\ out'[w][i] = out[w][i] /\ i < n

(* What Put does *)
LEMMA PutFacts ==
  ASSUME TypeOK, NEW w \in Windows, NEW v \in Entry \cup {None},
         NEW cb \in {"none", "store", "evict"}, key[w] # 0, Put(w, v, cb)
  PROVE  /\ mem' \in [Windows -> Content] /\ out' \in [Windows -> Seq(Row)]
         /\ Adds(w, v, cb)
<1>1. key[w] \in Keys /\ mem[w] \in Content /\ mem \in [Windows -> Content]
  BY DEF TypeOK
<1>2. mem' = [mem EXCEPT ![w] = [mem[w] EXCEPT ![key[w]] = v]]
  BY DEF Put
<1>3. /\ [mem[w] EXCEPT ![key[w]] = v] \in Content
      /\ \A j \in Keys : [mem[w] EXCEPT ![key[w]] = v][j] = IF j = key[w] THEN v ELSE mem[w][j]
  BY <1>1, ContentFacts
<1>4. mem' \in [Windows -> Content]
  BY <1>1, <1>2, <1>3
<1>5. \A x \in Windows, k \in Keys :
        mem'[x][k] = IF x = w /\ k = key[w] THEN v ELSE mem[x][k]
  BY <1>1, <1>2, <1>3
<1>6. [key |-> key[w], val |-> v, cb |-> cb] \in Row
  BY <1>1 DEF Row
<1>7. out \in [Windows -> Seq(Row)]
  BY DEF TypeOK, Row
<1>8. Append(out[w], [key |-> key[w], val |-> v, cb |-> cb]) \in Seq(Row)
  BY <1>6, <1>7, AppendFacts
<1>9. out' = [out EXCEPT ![w] = Append(@, [key |-> key[w], val |-> v, cb |-> cb])]
  BY DEF Put
<1>10. out' \in [Windows -> Seq(Row)]
  BY <1>7, <1>8, <1>9
<1>. DEFINE row == [key |-> key[w], val |-> v, cb |-> cb]
<1>11. out'[w] = Append(out[w], row) /\ \A x \in Windows \ {w} : out'[x] = out[x]
  BY <1>7, <1>9
<1>12. row.key = key[w] /\ row.val = v /\ row.cb = cb /\ row \in Row /\ out[w] \in Seq(Row)
  BY <1>6, <1>7
<1>. HIDE DEF row
<1>13. /\ DOMAIN out'[w] = DOMAIN out[w] \cup {Len(out[w]) + 1}
       /\ out'[w][Len(out[w]) + 1] = row
       /\ \A i \in DOMAIN out[w] : out'[w][i] = out[w][i] /\ i < Len(out[w]) + 1
  BY <1>11, <1>12, AppendFacts
<1>14. Len(out[w]) + 1 \in Nat /\ \A i \in DOMAIN out[w] : i \in Nat
  BY <1>12
<1>. QED BY <1>4, <1>5, <1>10, <1>11, <1>12, <1>13, <1>14 DEF Adds

(* What Join does *)
LEMMA JoinFacts ==
  ASSUME TypeOK, NEW w \in Windows, Join(w), disk[key[w]] # None, ~Stale(disk[key[w]]),
         key[w] \in Keys
  PROVE  /\ mem' \in [Windows -> Content] /\ out' \in [Windows -> Seq(Row)]
         /\ \A x \in Windows \ {w} : mem'[x] = mem[x] /\ out'[x] = out[x]
         /\ \A k \in Keys : mem'[w][k] = IF k = key[w] THEN disk[k] ELSE None
         /\ \A i \in DOMAIN out'[w] :
              out'[w][i].key # key[w] /\ out'[w][i].val = None /\ out'[w][i].cb = "none"
<1>. DEFINE Good(k) == k = key[w] /\ ~Stale(disk[k])
            swept == {k \in Keys : disk[k] # None /\ ~Good(k)}
            m == [k \in Keys |-> IF Good(k) THEN disk[k] ELSE None]
            q == [i \in DOMAIN SetToSeq(swept) |->
                    [key |-> SetToSeq(swept)[i], val |-> None, cb |-> "none"]]
<1>1. mem' = [mem EXCEPT ![w] = m] /\ out' = [out EXCEPT ![w] = q]
  BY DEF Join
<1>2. /\ q \in Seq(Row)
      /\ \A i \in DOMAIN q : q[i].key \in swept /\ q[i].val = None /\ q[i].cb = "none"
  <2>. HIDE DEF q
  <2>1. swept \in SUBSET Keys
    OBVIOUS
  <2>2. q = [i \in DOMAIN SetToSeq(swept) |->
               [key |-> SetToSeq(swept)[i], val |-> None, cb |-> "none"]]
    BY DEF q
  <2>. HIDE DEF swept
  <2>. QED BY <2>1, <2>2, SweptRows
<1>3. key[w] \notin swept
  OBVIOUS
<1>4. m \in Content /\ \A k \in Keys : m[k] = IF k = key[w] THEN disk[k] ELSE None
  BY DEF TypeOK, Content
<1>5. mem \in [Windows -> Content] /\ out \in [Windows -> Seq(Row)]
  BY DEF TypeOK, Row
<1>. HIDE DEF q, m, swept
<1>. QED BY <1>1, <1>2, <1>3, <1>4, <1>5

LEMMA PlanFacts ==
  ASSUME TypeOK
  PROVE  /\ plan.starts \in Nat /\ plan.starts <= Starts
         /\ plan.periods \in Nat /\ plan.periods <= Periods
         /\ plan.asks \in Nat /\ plan.asks <= Asks
         /\ \A w \in Windows : plan.attempts[w] \in Nat /\ plan.attempts[w] <= Attempts
<1>1. plan \in Plan
  BY PlansAssumption DEF TypeOK
<1>2. /\ plan.starts \in 1..Starts /\ plan.periods \in 0..Periods /\ plan.asks \in 1..Asks
      /\ plan.attempts \in [Windows -> 0..Attempts]
  BY <1>1 DEF Plan
<1>. QED BY <1>2, BoundsAssumption

(* A key to be made is one of the starts *)
LEMMA RoomForKey ==
  ASSUME TypeOK, KeysCounted, NEW w \in Windows, MayStore(w)
  PROVE  keys + 1 \in Keys
<1>1. w \in Storing /\ IsFiniteSet(Storing) /\ IsFiniteSet({w}) /\ Cardinality({w}) = 1
  BY FS_Singleton DEF Storing, KeysCounted
<1>2. Cardinality(Storing) \in Nat /\ Cardinality(Storing) >= 1
  BY <1>1, FS_Subset, FS_CardinalityType
<1>3. keys \in Nat /\ starts \in Nat
  BY BoundsAssumption DEF TypeOK, Keys
<1>4. starts <= plan.starts /\ plan.starts \in Nat /\ plan.starts <= Starts
  BY PlanFacts DEF KeysCounted
<1>. QED BY <1>2, <1>3, <1>4, BoundsAssumption DEF KeysCounted, Keys

LEMMA AbandonFacts ==
  ASSUME TypeOK, NEW w \in Windows, Abandon(w) \/ UNCHANGED reqVars
  PROVE  /\ req' \in [Windows -> {"none", "ask", "prompt", "store", "given", "refused", "evict"}]
         /\ asks' \in [Windows -> 0..Asks] /\ typed' \subseteq Windows
         /\ stray' \in [Windows -> 0..Attempts] /\ UNCHANGED <<attempt, ended>>
<1>1. 0 \in 0..Attempts /\ 0 \in 0..Asks
  BY BoundsAssumption
<1>2. req' \in {req, [req EXCEPT ![w] = "none"]} /\ asks' \in {asks, [asks EXCEPT ![w] = 0]}
      /\ stray' \in {stray, [stray EXCEPT ![w] = 0]} /\ typed' \in {typed, typed \ {w}}
      /\ UNCHANGED <<attempt, ended>>
  BY DEF Abandon, reqVars
<1>3. req' \in [Windows -> {"none", "ask", "prompt", "store", "given", "refused", "evict"}]
  BY <1>2 DEF TypeOK
<1>4. asks' \in [Windows -> 0..Asks]
  <2>1. asks \in [Windows -> 0..Asks]
    BY DEF TypeOK
  <2>. QED BY <1>1, <1>2, <2>1
<1>5. stray' \in [Windows -> 0..Attempts]
  <2>1. stray \in [Windows -> 0..Attempts]
    BY DEF TypeOK
  <2>. QED BY <1>1, <1>2, <2>1
<1>. QED BY <1>2, <1>3, <1>4, <1>5 DEF TypeOK

LEMMA TypeStep ==
  ASSUME TypeOK, KeysCounted, Stands, [Next]_vars PROVE TypeOK'
<1>. USE DEF secretVars, fileVars, dbVars, winVars, reqVars, attemptFrame
<1>0. ASSUME NEW w \in Windows
      PROVE  /\ disk \in Content /\ mem[w] \in Content /\ Empty \in Content
             /\ key[w] \in {0} \cup Keys /\ key[w] # 0 => Cached(w) \in Entry \cup {None}
  BY <1>0, ContentFacts DEF TypeOK, Content, Cached
<1>01. /\ 0 \in 0..Attempts /\ 0 \in 0..Asks /\ 1 \in 0..Asks /\ -1 \in -1..Periods
       /\ period \in -1..Periods
       /\ \A n \in 0..Attempts : n < Attempts => n + 1 \in 0..Attempts
       /\ \A n \in 0..Asks : n < Asks => n + 1 \in 0..Asks
  BY BoundsAssumption DEF TypeOK
<1>1. ASSUME NEW w \in Windows, UNCHANGED plan,
             Start(w) \/ ReadSecret(w) \/ Deactivate(w)
      PROVE  TypeOK'
  <2>1. starts' \in 0..Starts
    <3>1. starts' = starts \/ (starts' = starts + 1 /\ starts < plan.starts)
      BY <1>1 DEF Start, ReadSecret, Deactivate
    <3>2. starts \in 0..Starts
      BY DEF TypeOK
    <3>. QED BY <3>1, <3>2, PlanFacts, BoundsAssumption
  <2>2. /\ req' \in [Windows -> {"none", "ask", "prompt", "store", "given", "refused", "evict"}]
        /\ asks' \in [Windows -> 0..Asks] /\ typed' \subseteq Windows
        /\ stray' \in [Windows -> 0..Attempts] /\ UNCHANGED <<attempt, ended>>
    BY <1>1, AbandonFacts DEF Start, ReadSecret, Deactivate
  <2>3. /\ key' \in [Windows -> {0} \cup Keys] /\ rotates' \subseteq Windows
        /\ UNCHANGED <<secretVars, period, fileVars, dbVars>>
    BY <1>1 DEF Start, ReadSecret, Deactivate, TypeOK
  <2>4. phase' \in [Windows -> {"down", "get", "generate", "open", "rotate",
                                "reopen", "ready", "closing", "broken"}]
    BY <1>1 DEF Start, ReadSecret, Deactivate, TypeOK
  <2>. QED BY <1>1, <2>1, <2>2, <2>3, <2>4 DEF TypeOK
<1>2. ASSUME NEW w \in Windows, UNCHANGED plan, StoreFirstKey(w) \/ StoreRotatedKey(w)
      PROVE  TypeOK'
  <2>1. keys + 1 \in Keys
    BY <1>2, RoomForKey DEF MayStore, StoreFirstKey, StoreRotatedKey
  <2>2. StoreKey(w, "open") \/ StoreKey(w, "reopen")
    BY <1>2 DEF StoreFirstKey, StoreRotatedKey
  <2>3. /\ keys' = keys + 1 /\ secret' = keys + 1 /\ keyOld' = FALSE
        /\ key' = [key EXCEPT ![w] = keys + 1] /\ rotates' \subseteq rotates
        /\ UNCHANGED <<period, fileVars, dbVars, starts, reqVars>>
    BY <2>2 DEF StoreKey
  <2>4. phase' \in [Windows -> {"down", "get", "generate", "open", "rotate",
                                "reopen", "ready", "closing", "broken"}]
    BY <2>2 DEF StoreKey, TypeOK
  <2>. QED BY <1>2, <2>1, <2>3, <2>4 DEF TypeOK
<1>3. ASSUME NEW w \in Windows, UNCHANGED plan, LoadDb(w)
      PROVE  TypeOK'
  <2>1. key[w] \in Keys
    BY <1>3 DEF LoadDb, Stands, StandsAt, TypeOK
  <2>2. CASE UNCHANGED <<fileVars, dbVars>> /\ phase' = [phase EXCEPT ![w] = "broken"]
    BY <1>3, <2>2 DEF LoadDb, TypeOK
  <2>3. CASE Renew(w) /\ phase' = [phase EXCEPT ![w] = "ready"]
    <3>1. mem' \in [Windows -> Content] /\ disk' \in Content
      BY <2>3, ContentFacts DEF Renew, TypeOK
    <3>. QED BY <1>01, <1>3, <2>3, <3>1 DEF LoadDb, Renew, TypeOK
  <2>4. CASE /\ Join(w) /\ phase' = [phase EXCEPT ![w] = "ready"]
             /\ disk[key[w]] # None /\ ~Stale(disk[key[w]])
    <3>1. mem' \in [Windows -> Content] /\ out' \in [Windows -> Seq(Row)]
      BY <2>1, <2>4, JoinFacts
    <3>2. /\ attached' = attached \cup {w} /\ diverged' \in BOOLEAN
          /\ UNCHANGED <<disk, written, torn, stream>>
      BY <2>4 DEF Join
    <3>. QED BY <1>3, <2>4, <3>1, <3>2 DEF LoadDb, TypeOK, Row
  <2>. QED BY <1>3, <2>2, <2>3, <2>4 DEF LoadDb
<1>4. ASSUME NEW w \in Windows, UNCHANGED plan, RotateMasterKey(w)
      PROVE  TypeOK'
  <2>1. disk' \in Content
    BY <1>4, ContentFacts DEF RotateMasterKey, TypeOK
  <2>. QED BY <1>01, <1>4, <2>1 DEF RotateMasterKey, TypeOK
<1>5. ASSUME NEW w \in Windows, UNCHANGED plan, Closed(w) \/ Kill(w)
      PROVE  TypeOK'
  <2>1. <<>> \in Seq(Row)
    OBVIOUS
  <2>2. Gone(w) /\ torn' \in BOOLEAN /\ (Abandon(w) \/ UNCHANGED reqVars)
    BY <1>5 DEF Closed, Kill, TypeOK
  <2>3. mem' \in [Windows -> Content]
    BY <2>2, ContentFacts DEF Gone, TypeOK
  <2>4. out' \in [Windows -> Seq(Row)]
    BY <2>1, <2>2 DEF Gone, TypeOK, Row
  <2>5. /\ req' \in [Windows -> {"none", "ask", "prompt", "store", "given", "refused", "evict"}]
        /\ asks' \in [Windows -> 0..Asks] /\ typed' \subseteq Windows
        /\ stray' \in [Windows -> 0..Attempts] /\ UNCHANGED <<attempt, ended>>
    BY <2>2, AbandonFacts
  <2>6. /\ phase' \in [Windows -> {"down", "get", "generate", "open", "rotate",
                                   "reopen", "ready", "closing", "broken"}]
        /\ key' \in [Windows -> {0} \cup Keys]
        /\ attached' \subseteq Windows /\ rotates' \subseteq Windows
        /\ stream' \in [Windows -> {"sound", "failed", "stuck"}]
        /\ UNCHANGED <<secretVars, period, disk, written, diverged, starts>>
    BY <2>2 DEF Gone, TypeOK
  <2>. QED BY <1>5, <2>2, <2>3, <2>4, <2>5, <2>6 DEF TypeOK, Row
<1>6. ASSUME NEW w \in Windows, UNCHANGED plan,
             Begin(w) \/ Hit(w) \/ Cancel(w) \/ AskAgain(w) \/ Connected(w)
      PROVE  TypeOK'
  <2>1. /\ req' \in [Windows -> {"none", "ask", "prompt", "store", "given", "refused", "evict"}]
        /\ UNCHANGED <<attemptFrame, dbVars, stray, ended>> /\ typed' \subseteq typed
    BY <1>6 DEF Begin, Hit, Cancel, AskAgain, Connected, TypeOK
  <2>2. attempt' \in [Windows -> 0..Attempts]
    <3>1. \/ attempt' = attempt
          \/ attempt' = [attempt EXCEPT ![w] = attempt[w] + 1] /\ attempt[w] < plan.attempts[w]
      BY <1>6 DEF Begin, Hit, Cancel, AskAgain, Connected
    <3>2. attempt \in [Windows -> 0..Attempts] /\ attempt[w] \in 0..Attempts
      BY DEF TypeOK
    <3>3. attempt[w] < plan.attempts[w] => attempt[w] + 1 \in 0..Attempts
      BY <3>2, PlanFacts, BoundsAssumption
    <3>. QED BY <3>1, <3>2, <3>3
  <2>3. asks' \in [Windows -> 0..Asks]
    <3>1. \/ asks' = asks \/ asks' = [asks EXCEPT ![w] = 1]
          \/ asks' = [asks EXCEPT ![w] = asks[w] + 1] /\ asks[w] < plan.asks
      BY <1>6 DEF Begin, Hit, Cancel, AskAgain, Connected
    <3>2. asks \in [Windows -> 0..Asks] /\ asks[w] \in 0..Asks
      BY DEF TypeOK
    <3>3. asks[w] < plan.asks => asks[w] + 1 \in 0..Asks
      BY <3>2, PlanFacts, BoundsAssumption
    <3>. QED BY <1>01, <3>1, <3>2, <3>3
  <2>. QED BY <1>6, <2>1, <2>2, <2>3 DEF TypeOK
<1>7. ASSUME NEW w \in Windows, UNCHANGED plan,
             Miss(w) \/ Type(w) \/ Fails(w) \/ TypeLate(w)
      PROVE  TypeOK'
  <2>1. key[w] # 0
    BY <1>7 DEF Miss, Type, Fails, TypeLate, Stands, StandsAt
  <2>2. /\ req[w] = "prompt" => Password(w, attempt[w], FALSE) \in Entry
        /\ stray[w] # 0 => Password(w, stray[w], TRUE) \in Entry
    BY BoundsAssumption DEF TypeOK, Stands, StandsAt, Password, Entry
  <2>3. \/ UNCHANGED dbVars
        \/ \E v \in Entry \cup {None}, cb \in {"none", "store", "evict"} : Put(w, v, cb)
    BY <1>7, <2>2 DEF Miss, Type, Fails, TypeLate
  <2>4. mem' \in [Windows -> Content] /\ out' \in [Windows -> Seq(Row)] /\ stream' = stream
    BY <2>1, <2>3, PutFacts DEF TypeOK, Row, Put
  <2>5. /\ req' \in [Windows -> {"none", "ask", "prompt", "store", "given", "refused", "evict"}]
        /\ UNCHANGED <<attemptFrame, attempt, asks, ended>> /\ typed' \subseteq Windows
    BY <1>7 DEF Miss, Type, Fails, TypeLate, TypeOK
  <2>6. stray' \in [Windows -> 0..Attempts]
    <3>1. stray' = stray \/ stray' = [stray EXCEPT ![w] = 0]
          \/ stray' = [stray EXCEPT ![w] = attempt[w]] \/ stray' = [stray EXCEPT ![w] = stray[w]]
      BY <1>7 DEF Miss, Type, Fails, TypeLate
    <3>2. stray \in [Windows -> 0..Attempts] /\ attempt[w] \in 0..Attempts
      BY DEF TypeOK
    <3>. QED BY <1>01, <3>1, <3>2
  <2>. QED BY <1>7, <2>4, <2>5, <2>6 DEF TypeOK, Row
<1>8. ASSUME NEW w \in Windows, UNCHANGED plan, WriteRow(w) \/ WriteFails(w) \/ Refuse(w)
      PROVE  TypeOK'
  <2>1. /\ out[w] \in Seq(Row) /\ Head(out[w]) \in Row /\ Tail(out[w]) \in Seq(Row)
        /\ out \in [Windows -> Seq(Row)] /\ <<>> \in Seq(Row)
    <3>1. out[w] \in Seq(Row) /\ out[w] # <<>> /\ out \in [Windows -> Seq(Row)]
      BY <1>8 DEF WriteRow, WriteFails, Refuse, TypeOK, Row
    <3>. QED BY <3>1, TailFacts
  <2>2. Head(out[w]).key \in Keys /\ Head(out[w]).val \in Entry \cup {None}
    BY <2>1 DEF Row
  <2>3. out' \in [Windows -> Seq(Row)]
    <3>1. out' = [out EXCEPT ![w] = Tail(out[w])] \/ out' = [out EXCEPT ![w] = <<>>]
      BY <1>8 DEF WriteRow, WriteFails, Refuse, Lose
    <3>. QED BY <2>1, <3>1
  <2>4. disk' \in Content
    <3>1. disk' = disk \/ disk' = [disk EXCEPT ![Head(out[w]).key] = Head(out[w]).val]
      BY <1>8 DEF WriteRow, WriteFails, Refuse, Lose
    <3>. QED BY <1>0, <2>2, <3>1, ContentFacts
  <2>5. \E cb : Settle(w, cb, TRUE) \/ Settle(w, cb, FALSE)
    BY <1>8 DEF WriteRow, WriteFails, Refuse, Lose
  <2>6. /\ req' \in [Windows -> {"none", "ask", "prompt", "store", "given", "refused", "evict"}]
        /\ ended' \subseteq Windows \X (1..Attempts) /\ UNCHANGED <<attempt, asks, typed, stray>>
    <3>1. req[w] = "evict" => attempt[w] \in 1..Attempts
      BY BoundsAssumption DEF Stands, StandsAt, TypeOK
    <3>2. /\ \/ req' = req \/ req' = [req EXCEPT ![w] = "none"]
             \/ req' = [req EXCEPT ![w] = "given"] \/ req' = [req EXCEPT ![w] = "refused"]
          /\ ended' = ended \/ (req[w] = "evict" /\ ended' = ended \cup {<<w, attempt[w]>>})
          /\ UNCHANGED <<attempt, asks, typed, stray>>
      BY <2>5 DEF Settle
    <3>3. req' \in [Windows -> {"none", "ask", "prompt", "store", "given", "refused", "evict"}]
      BY <3>2 DEF TypeOK
    <3>. QED BY <3>1, <3>2, <3>3 DEF TypeOK
  <2>7. diverged' \in BOOLEAN /\ written' \in -1..Periods
    <3>1. (written' = written \/ written' = period) /\ (diverged' = diverged \/ diverged' = (diverged \/ w \in attached))
      BY <1>8 DEF WriteRow, WriteFails, Refuse, Lose
    <3>. QED BY <1>01, <3>1 DEF TypeOK
  <2>8. UNCHANGED <<secretVars, period, attached, mem, winVars>>
    BY <1>8 DEF WriteRow, WriteFails, Refuse, Lose
  <2>9. torn' \in BOOLEAN
    <3>1. torn' = torn \/ torn' = (torn \/ w \in attached)
      BY <1>8 DEF WriteRow, WriteFails, Refuse
    <3>. QED BY <3>1 DEF TypeOK
  <2>10. stream' \in [Windows -> {"sound", "failed", "stuck"}]
    BY <1>8 DEF WriteRow, WriteFails, Refuse, Lose, TypeOK
  <2>. QED BY <1>8, <2>3, <2>4, <2>6, <2>7, <2>8, <2>9, <2>10 DEF TypeOK, Row
<1>9. CASE TtlPasses /\ UNCHANGED plan
  <2>1. period' \in 0..Periods
    <3>1. period' = period + 1 /\ period < plan.periods /\ period \in 0..Periods
      BY <1>9 DEF TtlPasses, TypeOK
    <3>. QED BY <3>1, PlanFacts, BoundsAssumption
  <2>. QED BY <1>9, <2>1 DEF TtlPasses, TypeOK
<1>10. CASE UNCHANGED vars
  BY <1>10 DEF vars, TypeOK
<1>. QED
  BY <1>1, <1>2, <1>3, <1>4, <1>5, <1>6, <1>7, <1>8, <1>9, <1>10
  DEF Next, InitStep, Handle, Flush, Verdict

-----------------------------------------------------------------------------
(* What the actions do to the part of the state the invariant is about *)

(* A start goes on, or fails, or a window is told to close: the keys it may  *)
(* still make are no more                                                    *)
LEMMA CountStep == TypeOK /\ KeysCounted /\ Stands /\ [Next]_vars => KeysCounted'
<1>. SUFFICES ASSUME TypeOK, KeysCounted, Stands, [Next]_vars PROVE KeysCounted'
  OBVIOUS
<1>. USE DEF secretVars, fileVars, dbVars, winVars, reqVars, attemptFrame
<1>0. starts \in Nat /\ keys \in Nat /\ Cardinality(Storing) \in Nat
  BY FS_CardinalityType, BoundsAssumption DEF KeysCounted, TypeOK, Keys
<1>1. ASSUME Storing' \subseteq Storing, UNCHANGED <<keys, starts, plan>>, keyOld' => secret' # 0
      PROVE  KeysCounted'
  <2>1. IsFiniteSet(Storing') /\ Cardinality(Storing') <= Cardinality(Storing)
    BY <1>1, FS_Subset DEF KeysCounted
  <2>2. Cardinality(Storing') \in Nat
    BY <2>1, FS_CardinalityType
  <2>3. Cardinality(Storing)' = Cardinality(Storing')
    OBVIOUS
  <2>. HIDE DEF Storing
  <2>. QED BY <1>0, <1>1, <2>1, <2>2, <2>3 DEF KeysCounted
<1>2. ASSUME NEW w \in Windows, UNCHANGED plan, Start(w) PROVE KeysCounted'
  <2>1. Storing' = Storing \cup {w} /\ w \notin Storing
    BY <1>2 DEF Start, Storing, MayStore, TypeOK
  <2>2. IsFiniteSet(Storing') /\ Cardinality(Storing') = Cardinality(Storing) + 1
    BY <2>1, FS_AddElement DEF KeysCounted
  <2>3. starts' = starts + 1 /\ starts < plan.starts /\ UNCHANGED <<keys, keyOld, secret>>
    BY <1>2 DEF Start
  <2>4. Cardinality(Storing)' = Cardinality(Storing')
    OBVIOUS
  <2>. QED BY <1>0, <1>2, <2>2, <2>3, <2>4, PlanFacts DEF KeysCounted
<1>3. ASSUME NEW w \in Windows, UNCHANGED plan, StoreFirstKey(w) \/ StoreRotatedKey(w)
      PROVE  KeysCounted'
  <2>1. Storing' = Storing \ {w} /\ w \in Storing
    BY <1>3 DEF StoreFirstKey, StoreRotatedKey, StoreKey, Storing, MayStore, TypeOK
  <2>2. IsFiniteSet(Storing') /\ Cardinality(Storing') = Cardinality(Storing) - 1
    BY <2>1, FS_RemoveElement DEF KeysCounted
  <2>3. keys' = keys + 1 /\ starts' = starts /\ ~keyOld'
    BY <1>3 DEF StoreFirstKey, StoreRotatedKey, StoreKey
  <2>4. Cardinality(Storing)' = Cardinality(Storing')
    OBVIOUS
  <2>. QED BY <1>0, <1>3, <2>2, <2>3, <2>4 DEF KeysCounted
<1>4. ASSUME NEW w \in Windows, UNCHANGED plan, ReadSecret(w) PROVE KeysCounted'
  <2>1. Storing' \subseteq Storing
    BY <1>4 DEF ReadSecret, Storing, MayStore, TypeOK
  <2>. QED BY <1>1, <1>4, <2>1 DEF ReadSecret, KeysCounted
<1>5. ASSUME NEW w \in Windows, UNCHANGED plan,
             LoadDb(w) \/ RotateMasterKey(w) \/ Deactivate(w) \/ Closed(w) \/ Kill(w)
      PROVE  KeysCounted'
  <2>1. /\ rotates' \subseteq rotates /\ UNCHANGED <<secretVars, starts>>
        /\ \/ phase' = [phase EXCEPT ![w] = "broken"] \/ phase' = [phase EXCEPT ![w] = "ready"]
           \/ phase' = [phase EXCEPT ![w] = "closing"] \/ phase' = [phase EXCEPT ![w] = "down"]
           \/ w \in Storing /\ phase' = [phase EXCEPT ![w] = "rotate"]
    BY <1>5 DEF LoadDb, RotateMasterKey, Deactivate, Closed, Kill, Gone, Storing, MayStore
  <2>2. Storing' \subseteq Storing
    BY <2>1 DEF Storing, MayStore, TypeOK
  <2>. QED BY <1>1, <1>5, <2>1, <2>2 DEF KeysCounted
<1>6. ASSUME NEW w \in Windows, UNCHANGED plan,
             \/ Begin(w) \/ Hit(w) \/ Miss(w) \/ Type(w) \/ Cancel(w) \/ AskAgain(w)
             \/ Connected(w) \/ Fails(w) \/ TypeLate(w)
             \/ WriteRow(w) \/ WriteFails(w) \/ Refuse(w)
      PROVE  KeysCounted'
  <2>1. UNCHANGED <<secretVars, winVars>>
    BY <1>6 DEF Begin, Hit, Miss, Type, Cancel, AskAgain, Connected, Fails, TypeLate,
       WriteRow, WriteFails, Refuse, Lose
  <2>2. Storing' = Storing
    BY <2>1 DEF Storing, MayStore
  <2>. QED BY <1>1, <1>6, <2>1, <2>2 DEF KeysCounted
<1>7. CASE (TtlPasses /\ UNCHANGED plan) \/ UNCHANGED vars
  <2>1. Storing' = Storing
    BY <1>7 DEF TtlPasses, vars, Storing, MayStore
  <2>2. UNCHANGED <<keys, starts, plan, secret>>
    BY <1>7 DEF TtlPasses, vars
  <2>3. keyOld' => secret # 0
    <3>1. keyOld' \in {keyOld, secret # 0}
      BY <1>7 DEF TtlPasses, vars
    <3>2. keyOld' = keyOld \/ keyOld' = (secret # 0)
      BY <3>1
    <3>. QED BY <3>2, Zenon DEF KeysCounted
  <2>. QED BY <1>1, <2>1, <2>2, <2>3
<1>. QED
  BY <1>2, <1>3, <1>4, <1>5, <1>6, <1>7 DEF Next, InitStep, Handle, Flush, Verdict

(* The first row leaves the stream *)
Drops(w) ==
  /\ 1 \in DOMAIN out[w]
  /\ \A x \in Windows \ {w} : out'[x] = out[x]
  /\ \A i \in DOMAIN out'[w] :
       i \in Nat /\ i # 0 /\ i + 1 \in DOMAIN out[w] /\ out'[w][i] = out[w][i + 1]
  /\ \A i \in DOMAIN out[w] : i \in Nat /\ i >= 1 /\ (i # 1 => i - 1 \in DOMAIN out'[w])
  /\ UNCHANGED <<mem, winVars, attempt, stray, attached, torn>>
  /\ \A x \in Windows \ {w} : req'[x] = req[x]
  /\ req'[w] = req[w] \/ (req[w] \in {"store", "evict"} /\ req'[w] \in {"none", "given", "refused"})
  /\ out[w][1].cb # "evict" /\ req[w] = "evict" => req'[w] = "evict"
  /\ req[w] # "evict" => req'[w] # "evict"
  /\ req[w] = "none" => req'[w] = "none"

LEMMA DropsFacts ==
  ASSUME TypeOK, NEW w \in Windows, WriteRow(w) \/ Refuse(w)
  PROVE  /\ Drops(w) /\ out[w][1].key \in Keys /\ out[w][1].val \in Entry \cup {None}
         /\ WriteRow(w) => /\ diverged' = diverged
                           /\ \A k \in Keys : disk'[k] = IF k = out[w][1].key /\ w \in attached /\ ~torn
                                                         THEN out[w][1].val ELSE disk[k]
                           /\ \/ ended' = ended
                              \/ /\ out[w][1].cb = "evict" /\ req[w] = "evict" /\ req'[w] = "none"
                                 /\ ended' = ended \cup {<<w, attempt[w]>>}
         /\ Refuse(w) => disk' = disk /\ diverged' = (diverged \/ w \in attached) /\ ended' = ended
<1>1. out[w] \in Seq(Row) /\ out \in [Windows -> Seq(Row)] /\ out[w] # <<>>
  BY DEF TypeOK, Row, WriteRow, Refuse
<1>2. out' = [out EXCEPT ![w] = Tail(@)]
  BY DEF WriteRow, Refuse, Lose
<1>3. out'[w] = Tail(out[w]) /\ \A x \in Windows \ {w} : out'[x] = out[x]
  BY <1>1, <1>2
<1>4. Head(out[w]) = out[w][1] /\ out[w][1] \in Row
  BY <1>1, TailFacts
<1>5. /\ 1 \in DOMAIN out[w]
      /\ \A i \in DOMAIN out'[w] : i + 1 \in DOMAIN out[w] /\ out'[w][i] = out[w][i + 1]
      /\ \A i \in DOMAIN out[w] : i # 1 => i - 1 \in DOMAIN out'[w]
  BY <1>1, <1>3, TailFacts
<1>6. /\ \A i \in DOMAIN out[w] : i \in Nat /\ i >= 1
      /\ \A i \in DOMAIN out'[w] : i \in Nat /\ i # 0
  BY <1>1, <1>3
<1>7. out[w][1].key \in Keys /\ out[w][1].val \in Entry \cup {None}
  BY <1>4 DEF Row
<1>8. /\ WriteRow(w) => Settle(w, out[w][1].cb, TRUE)
      /\ Refuse(w) => \E cb : Settle(w, cb, FALSE) /\ (cb = "evict" => out[w][1].cb = "evict")
  <2>1. CASE WriteRow(w)
    BY <1>4, <2>1 DEF WriteRow, Refuse
  <2>2. CASE Refuse(w)
    <3>. DEFINE cb == IF req[w] \in {row.cb : row \in {Head(out[w])}} THEN req[w] ELSE "none"
    <3>1. Settle(w, cb, FALSE) /\ stream[w] = "failed"
      BY <2>2 DEF Refuse, Lose
    <3>2. cb = "evict" => out[w][1].cb = "evict"
      BY <1>4
    <3>. HIDE DEF cb
    <3>. QED BY <3>1, <3>2 DEF WriteRow
  <2>. QED BY <2>1, <2>2
<1>9. /\ UNCHANGED <<attempt, stray>>
      /\ \A x \in Windows \ {w} : req'[x] = req[x]
      /\ req'[w] = req[w] \/ (req[w] \in {"store", "evict"} /\ req'[w] \in {"none", "given", "refused"})
      /\ out[w][1].cb # "evict" /\ req[w] = "evict" => req'[w] = "evict"
      /\ req[w] # "evict" => req'[w] # "evict"
      /\ req[w] = "none" => req'[w] = "none"
  BY <1>8 DEF Settle, TypeOK
<1>10. UNCHANGED <<mem, winVars, attached, torn>>
  BY DEF WriteRow, Refuse, Lose
<1>11. Drops(w)
  BY <1>3, <1>5, <1>6, <1>9, <1>10 DEF Drops
<1>12. ASSUME WriteRow(w)
       PROVE  /\ diverged' = diverged
              /\ \A k \in Keys : disk'[k] = IF k = out[w][1].key /\ w \in attached /\ ~torn
                                            THEN out[w][1].val ELSE disk[k]
  BY <1>4, <1>7, <1>12 DEF WriteRow, TypeOK, Content
<1>13. ASSUME WriteRow(w)
       PROVE  \/ ended' = ended
              \/ /\ out[w][1].cb = "evict" /\ req[w] = "evict" /\ req'[w] = "none"
                 /\ ended' = ended \cup {<<w, attempt[w]>>}
  BY <1>8, <1>13 DEF Settle, TypeOK
<1>14. ASSUME Refuse(w)
       PROVE  disk' = disk /\ diverged' = (diverged \/ w \in attached) /\ ended' = ended
  BY <1>8, <1>14 DEF Refuse, Lose, Settle
<1>. QED BY <1>7, <1>11, <1>12, <1>13, <1>14

-----------------------------------------------------------------------------
(* A window that a step of another leaves alone, but perhaps for its file *)
Untouched(x) ==
  /\ phase'[x] = phase[x] /\ key'[x] = key[x] /\ mem'[x] = mem[x] /\ out'[x] = out[x]
  /\ req'[x] = req[x] /\ stray'[x] = stray[x] /\ attempt'[x] = attempt[x]
  /\ x \in rotates' => x \in rotates
  /\ \A n : <<x, n>> \in ended' <=> <<x, n>> \in ended
  /\ x \in attached' => x \in attached
  /\ ~torn' => \A k \in Keys :
       \/ ~Timely(disk'[k], x)
       \/ disk'[k] = disk[k] /\ ~torn /\ (x \in attached => x \in attached')
  /\ x \in attached' /\ ~diverged' =>
       /\ ~diverged
       /\ attached = {x} => attached' = {x} /\ torn' = torn /\ \A k \in Keys : disk'[k] = disk[k]

LEMMA UntouchedKeeps ==
  ASSUME TypeOK, NEW x \in Windows, At(x), Untouched(x)
  PROVE  At(x)'
<1>1. StandsAt(x)'
  BY DEF At, StandsAt, Untouched
<1>2. InMemory(x)'
  BY DEF At, InMemory, Timely, Allowed, Untouched
<1>3. InQueue(x)'
  BY DEF At, InQueue, Allowed, Untouched
<1>4. OnDisk(x)'
  BY DEF At, OnDisk, Timely, Allowed, Untouched
<1>5. InStep(x)'
  <2>1. CASE x \in attached' /\ ~diverged'
    <3>1. x \in attached /\ ~diverged /\ attached = {x} /\ ~torn
      BY <2>1 DEF At, InStep, Untouched
    <3>2. attached' = {x} /\ ~torn' /\ \A k \in Keys : disk'[k] = disk[k]
      BY <2>1, <3>1 DEF Untouched
    <3>3. key[x] \in Keys
      BY <3>1 DEF At, StandsAt, TypeOK
    <3>. QED BY <3>1, <3>2, <3>3 DEF At, InStep, LastIs, Untouched
  <2>. QED BY <2>1 DEF InStep
<1>. QED BY <1>1, <1>2, <1>3, <1>4, <1>5 DEF At

(* A window without a log: at its start, or gone *)
Bare(w) ==
  /\ phase'[w] \notin {"ready", "closing"}
  /\ out'[w] = <<>> /\ mem'[w] = Empty /\ req'[w] = "none" /\ stray'[w] = 0
  /\ attempt'[w] = attempt[w] /\ ended' = ended /\ w \notin attached'
  /\ phase'[w] \notin {"down", "get", "generate"} => key'[w] # 0
  /\ phase'[w] = "generate" => w \notin rotates'
  /\ ~torn' => \A k \in Keys : disk'[k] = None \/ (disk'[k] = disk[k] /\ ~torn)

LEMMA BareHolds ==
  ASSUME TypeOK, NEW w \in Windows, At(w), Bare(w)
  PROVE  At(w)'
<1>1. \A k \in Keys : Empty[k] = None
  BY ContentFacts
<1>2. StandsAt(w)'
  BY <1>1 DEF At, StandsAt, Bare
<1>3. InMemory(w)'
  BY <1>1 DEF InMemory, Timely, Bare
<1>4. InQueue(w)' /\ InStep(w)'
  BY DEF InQueue, InStep, Bare
<1>5. OnDisk(w)'
  BY DEF At, OnDisk, Timely, Allowed, Bare
<1>. QED BY <1>2, <1>3, <1>4, <1>5 DEF At

-----------------------------------------------------------------------------
(* The steps *)

Everywhere == \A w \in Windows : At(w)

LEMMA StepOf ==
  ASSUME TypeOK, Everywhere, NEW w \in Windows, At(w)',
         \A x \in Windows \ {w} : Untouched(x)
  PROVE  Everywhere'
  BY UntouchedKeeps DEF Everywhere

(* Before the log is open *)
LEMMA StartsStep ==
  ASSUME TypeOK, KeysCounted, Everywhere, NEW w \in Windows,
         Start(w) \/ ReadSecret(w) \/ StoreFirstKey(w) \/ StoreRotatedKey(w)
  PROVE  Everywhere'
<1>0. At(w) /\ StandsAt(w)
  BY DEF Everywhere, At
<1>1. /\ phase[w] \in {"down", "get", "generate", "rotate"}
      /\ UNCHANGED <<disk, torn, diverged, attached, mem, out, req, stray, attempt, ended>>
  BY DEF Start, ReadSecret, StoreFirstKey, StoreRotatedKey, StoreKey, fileVars, dbVars, reqVars
<1>2. /\ phase'[w] \in {"get", "generate", "open", "reopen"}
      /\ phase'[w] \in {"open", "reopen"} => key'[w] # 0
      /\ phase'[w] = "generate" => w \notin rotates'
  <2>1. CASE Start(w)
    BY <2>1 DEF Start, TypeOK
  <2>2. CASE ReadSecret(w)
    BY <2>2 DEF ReadSecret, TypeOK, KeysCounted
  <2>3. CASE StoreFirstKey(w) \/ StoreRotatedKey(w)
    <3>1. keys + 1 # 0
      BY <2>3, RoomForKey DEF StoreFirstKey, StoreRotatedKey, MayStore, Keys
    <3>2. keys' = keys + 1 /\ key' = [key EXCEPT ![w] = keys + 1]
          /\ (phase' = [phase EXCEPT ![w] = "open"] \/ phase' = [phase EXCEPT ![w] = "reopen"])
      BY <2>3 DEF StoreFirstKey, StoreRotatedKey, StoreKey
    <3>. QED BY <3>1, <3>2 DEF TypeOK
  <2>. QED BY <2>1, <2>2, <2>3
<1>3. \A x \in Windows \ {w} :
        phase'[x] = phase[x] /\ key'[x] = key[x] /\ (x \in rotates' => x \in rotates)
  BY DEF Start, ReadSecret, StoreFirstKey, StoreRotatedKey, StoreKey, TypeOK, winVars
<1>4. Bare(w)
  BY <1>0, <1>1, <1>2 DEF StandsAt, Bare
<1>5. \A x \in Windows \ {w} : Untouched(x)
  BY <1>1, <1>3 DEF Untouched
<1>. QED BY <1>0, <1>4, <1>5, BareHolds, StepOf

(* A cut row is found, or the file is removed to change keys *)
LEMMA NoLogStep ==
  ASSUME TypeOK, Everywhere, NEW w \in Windows,
         \/ /\ phase[w] \in {"open", "reopen"} /\ phase' = [phase EXCEPT ![w] = "broken"]
            /\ UNCHANGED <<fileVars, dbVars, rotates, key, reqVars>>
         \/ /\ RotateMasterKey(w) /\ phase' = [phase EXCEPT ![w] = "rotate"]
            /\ disk' = Empty /\ torn' = FALSE /\ diverged' = FALSE /\ attached' = {}
  PROVE  Everywhere'
<1>0. At(w) /\ StandsAt(w)
  BY DEF Everywhere, At
<1>1. /\ phase[w] \in {"open", "reopen"} /\ UNCHANGED <<key, rotates, dbVars, reqVars>>
      /\ phase'[w] \in {"broken", "rotate"}
      /\ \A x \in Windows \ {w} : phase'[x] = phase[x]
      /\ attached' \subseteq attached
  BY DEF RotateMasterKey, TypeOK, fileVars
<1>2. \/ UNCHANGED <<disk, torn, diverged, attached>>
      \/ (\A k \in Keys : disk'[k] = None) /\ attached' = {}
  BY ContentFacts DEF fileVars
<1>3. Bare(w)
  BY <1>0, <1>1, <1>2 DEF StandsAt, Bare, dbVars, reqVars
<1>4. \A x \in Windows \ {w} : Untouched(x)
  BY <1>1, <1>2 DEF Untouched, Timely, dbVars, reqVars
<1>. QED BY <1>0, <1>3, <1>4, BareHolds, StepOf

(* The window is closed or dies *)
LEMMA GoneStep ==
  ASSUME TypeOK, Everywhere, NEW w \in Windows, Closed(w) \/ Kill(w)
  PROVE  Everywhere'
<1>0. At(w) /\ StandsAt(w)
  BY DEF Everywhere, At
<1>1. /\ phase'[w] = "down" /\ out'[w] = <<>> /\ mem'[w] = Empty
      /\ attached' = attached \ {w} /\ UNCHANGED <<disk, diverged, attempt, ended>>
      /\ torn' = torn \/ (w \in attached /\ torn' = TRUE)
      /\ rotates' \subseteq rotates
  BY DEF Closed, Kill, Gone, Abandon, reqVars, TypeOK
<1>2. req'[w] = "none" /\ stray'[w] = 0
  <2>1. CASE Closed(w)
    BY <1>0, <2>1 DEF StandsAt, Closed, reqVars
  <2>2. CASE Kill(w)
    BY <2>2 DEF Kill, Abandon, TypeOK
  <2>. QED BY <2>1, <2>2
<1>3. \A x \in Windows \ {w} :
        /\ phase'[x] = phase[x] /\ key'[x] = key[x] /\ mem'[x] = mem[x] /\ out'[x] = out[x]
        /\ req'[x] = req[x] /\ stray'[x] = stray[x]
  BY DEF Closed, Kill, Gone, Abandon, reqVars, TypeOK
<1>4. Bare(w)
  BY <1>1, <1>2 DEF Bare, TypeOK
<1>5. \A x \in Windows \ {w} : Untouched(x)
  BY <1>1, <1>3 DEF Untouched
<1>. QED BY <1>0, <1>4, <1>5, BareHolds, StepOf

(* The log is open: made anew, or joined *)
LEMMA LoadStep ==
  ASSUME TypeOK, Everywhere, NEW w \in Windows, LoadDb(w)
  PROVE  Everywhere'
<1>0. At(w) /\ StandsAt(w) /\ key[w] \in Keys
  BY DEF Everywhere, At, StandsAt, LoadDb, TypeOK
<1>1. phase[w] \in {"open", "reopen"} /\ UNCHANGED <<rotates, key, reqVars>>
  BY DEF LoadDb
<1>2. /\ req[w] = "none" /\ stray[w] = 0 /\ w \notin attached
      /\ \A x \in Windows \ {w} :
           /\ key'[x] = key[x] /\ req'[x] = req[x] /\ stray'[x] = stray[x]
           /\ attempt'[x] = attempt[x] /\ (x \in rotates' => x \in rotates)
      /\ ended' = ended
  BY <1>0, <1>1 DEF StandsAt, reqVars
<1>3. CASE UNCHANGED <<fileVars, dbVars>> /\ phase' = [phase EXCEPT ![w] = "broken"]
  BY <1>1, <1>3, NoLogStep
<1>4. CASE Renew(w) /\ phase' = [phase EXCEPT ![w] = "ready"]
  <2>1. /\ phase'[w] = "ready" /\ \A x \in Windows \ {w} : phase'[x] = phase[x]
        /\ mem'[w] = Empty /\ \A x \in Windows \ {w} : mem'[x] = mem[x]
        /\ out' = out /\ attached' = {w} /\ ~torn' /\ disk' = Empty
    BY <1>4 DEF Renew, TypeOK
  <2>2. \A k \in Keys : Empty[k] = None
    BY ContentFacts
  <2>3. \A x \in Windows \ {w} : Untouched(x)
    BY <1>2, <2>1, <2>2 DEF Untouched, Timely
  <2>4. out'[w] = <<>>
    BY <1>0, <1>1, <2>1 DEF StandsAt
  <2>5. StandsAt(w)'
    BY <1>0, <1>1, <1>2, <2>1, <2>2 DEF StandsAt, reqVars
  <2>6. InMemory(w)' /\ InQueue(w)' /\ OnDisk(w)'
    BY <2>1, <2>2, <2>4 DEF InMemory, InQueue, OnDisk, Timely
  <2>7. InStep(w)'
    BY <1>0, <1>1, <2>1, <2>2, <2>4 DEF InStep
  <2>. QED BY <2>3, <2>5, <2>6, <2>7, StepOf DEF At
<1>5. CASE /\ Join(w) /\ phase' = [phase EXCEPT ![w] = "ready"]
           /\ ~torn /\ disk[key[w]] # None /\ ~Stale(disk[key[w]])
  <2>1. /\ phase'[w] = "ready" /\ \A x \in Windows \ {w} : phase'[x] = phase[x]
        /\ attached' = attached \cup {w} /\ diverged' = (attached # {})
        /\ UNCHANGED <<disk, torn>>
    BY <1>5 DEF Join, TypeOK
  <2>2. /\ \A x \in Windows \ {w} : mem'[x] = mem[x] /\ out'[x] = out[x]
        /\ \A k \in Keys : mem'[w][k] = IF k = key[w] THEN disk[k] ELSE None
        /\ \A i \in DOMAIN out'[w] :
             out'[w][i].key # key[w] /\ out'[w][i].val = None /\ out'[w][i].cb = "none"
    BY <1>0, <1>5, JoinFacts
  <2>3. \A x \in Windows \ {w} : Untouched(x)
    BY <1>2, <2>1, <2>2 DEF Untouched
  <2>4. StandsAt(w)'
    BY <1>0, <1>1, <1>2, <2>1, <2>2 DEF StandsAt, reqVars
  <2>5. InMemory(w)'
    BY <1>0, <1>1, <1>2, <1>5, <2>2 DEF InMemory, OnDisk, At, Timely, Allowed, reqVars
  <2>6. InQueue(w)'
    BY <2>2 DEF InQueue
  <2>7. OnDisk(w)'
    BY <1>0, <1>1, <1>2, <2>1 DEF OnDisk, At, Timely, Allowed, reqVars
  <2>8. InStep(w)'
    BY <1>0, <1>1, <1>5, <2>1, <2>2 DEF InStep
  <2>. QED BY <2>3, <2>4, <2>5, <2>6, <2>7, <2>8, StepOf DEF At
<1>. QED BY <1>0, <1>1, <1>3, <1>4, <1>5 DEF LoadDb

(* A step of an attempt that writes nothing, or the end of the window's work *)
Talks(w) ==
  /\ UNCHANGED <<disk, torn, diverged, attached, mem, out, rotates, key>>
  /\ \A n : <<w, n>> \in ended' <=> <<w, n>> \in ended
  /\ phase[w] \in {"ready", "broken"}
  /\ \/ /\ phase'[w] = phase[w] /\ (req[w] = "evict" <=> req'[w] = "evict")
        /\ (req'[w] # "none" \/ stray'[w] # 0 => phase[w] = "ready")
        /\ \/ attempt'[w] = attempt[w] /\ (req[w] = "none" => req'[w] = "none")
           \/ req[w] = "none" /\ req'[w] # "none" /\ attempt'[w] = attempt[w] + 1
        /\ req'[w] # "none" => attempt'[w] # 0
     \/ /\ phase'[w] = "closing" /\ req'[w] = "none" /\ stray'[w] = 0
        /\ attempt'[w] = attempt[w]

LEMMA TalksKeeps ==
  ASSUME TypeOK, NEW w \in Windows, At(w), Talks(w)
  PROVE  At(w)'
<1>1. attempt[w] \in Nat /\ ended \subseteq Windows \X (1..Attempts)
  BY DEF TypeOK
<1>2. \A e \in Entry : e.attempt \in Nat
  BY DEF Entry
<1>3. \A k \in Keys : (mem[w][k] # None => mem[w][k] \in Entry) /\ (disk[k] # None => disk[k] \in Entry)
  BY DEF TypeOK, Content
<1>4. StandsAt(w)'
  BY <1>1 DEF At, StandsAt, Talks
<1>5. InMemory(w)'
  BY <1>1, <1>2, <1>3 DEF At, InMemory, Timely, Allowed, Talks
<1>6. InQueue(w)'
  <2>1. \A i \in DOMAIN out[w] : out[w][i].val # None => out[w][i].val \in Entry
    <3>1. out[w] \in Seq(Row)
      BY DEF TypeOK, Row
    <3>2. \A i \in DOMAIN out[w] : out[w][i] \in Row
      BY <3>1
    <3>. QED BY <3>2 DEF Row
  <2>2. \A e \in Entry : e.attempt <= attempt[w] /\ <<w, e.attempt>> \notin ended
                           => e.attempt <= attempt'[w] /\ <<w, e.attempt>> \notin ended'
    BY <1>1, <1>2 DEF Talks
  <2>3. /\ UNCHANGED <<out, key>>
        /\ phase'[w] = "ready" /\ phase[w] = "ready" /\ req[w] = "evict" => req'[w] = "evict"
        /\ phase'[w] = "ready" /\ phase[w] # "ready" => \A i \in DOMAIN out[w] : out[w][i].cb # "evict"
    BY DEF At, StandsAt, Talks
  <2>. QED BY <2>1, <2>2, <2>3 DEF At, InQueue, Allowed
<1>7. OnDisk(w)'
  BY <1>1, <1>2, <1>3 DEF At, OnDisk, Timely, Allowed, Talks
<1>8. InStep(w)'
  BY DEF At, InStep, LastIs, Talks
<1>. QED BY <1>4, <1>5, <1>6, <1>7, <1>8 DEF At

(* The file and the stream are left alone *)
LEMMA TalksStep ==
  ASSUME TypeOK, Everywhere, NEW w \in Windows,
         \/ Deactivate(w) \/ Begin(w) \/ Hit(w) \/ Cancel(w) \/ AskAgain(w) \/ Connected(w)
         \/ (Miss(w) \/ Fails(w) \/ TypeLate(w)) /\ UNCHANGED dbVars
  PROVE  Everywhere'
<1>0. At(w) /\ StandsAt(w) /\ attempt[w] \in Nat
  BY DEF Everywhere, At, TypeOK
<1>1. UNCHANGED <<disk, torn, diverged, attached, mem, out, rotates, key, ended>>
  BY DEF Deactivate, Begin, Hit, Cancel, AskAgain, Connected, Miss, Fails, TypeLate, Abandon,
         attemptFrame, fileVars, dbVars, winVars
<1>2. \A x \in Windows \ {w} :
        phase'[x] = phase[x] /\ req'[x] = req[x] /\ stray'[x] = stray[x] /\ attempt'[x] = attempt[x]
  <2>1. /\ phase' = phase \/ phase' = [phase EXCEPT ![w] = "closing"]
        /\ attempt' = attempt \/ attempt' = [attempt EXCEPT ![w] = @ + 1]
    BY DEF Deactivate, Begin, Hit, Cancel, AskAgain, Connected, Miss, Fails, TypeLate, Abandon,
           attemptFrame, winVars
  <2>2. req' = req \/ \E r : req' = [req EXCEPT ![w] = r]
    BY DEF Deactivate, Begin, Hit, Cancel, AskAgain, Connected, Miss, Fails, TypeLate, Abandon
  <2>3. stray' = stray \/ \E n : stray' = [stray EXCEPT ![w] = n]
    BY DEF Deactivate, Begin, Hit, Cancel, AskAgain, Connected, Miss, Fails, TypeLate, Abandon
  <2>. QED BY <2>1, <2>2, <2>3 DEF TypeOK
<1>3. /\ phase[w] \in {"ready", "broken"}
      /\ \/ /\ phase'[w] = phase[w] /\ (req[w] = "evict" <=> req'[w] = "evict")
            /\ (req'[w] # "none" \/ stray'[w] # 0 => phase[w] = "ready")
            /\ \/ attempt'[w] = attempt[w] /\ (req[w] = "none" => req'[w] = "none")
               \/ req[w] = "none" /\ req'[w] # "none" /\ attempt'[w] = attempt[w] + 1
            /\ req'[w] # "none" => attempt'[w] # 0
         \/ /\ phase'[w] = "closing" /\ req'[w] = "none" /\ stray'[w] = 0
            /\ attempt'[w] = attempt[w]
  <2>1. CASE Deactivate(w)
    BY <2>1 DEF Deactivate, Abandon, TypeOK
  <2>2. CASE Begin(w)
    BY <1>0, <2>2 DEF Begin, attemptFrame, winVars, StandsAt, TypeOK
  <2>3. CASE Hit(w) \/ Cancel(w) \/ AskAgain(w) \/ Connected(w) \/ Miss(w)
    BY <1>0, <2>3 DEF Hit, Cancel, AskAgain, Connected, Miss, attemptFrame, winVars, StandsAt, TypeOK
  <2>4. CASE Fails(w) /\ UNCHANGED dbVars
    <3>1. /\ req[w] \in {"prompt", "store", "given", "refused"} /\ req'[w] \in {"evict", "none"}
          /\ UNCHANGED <<attempt, phase>> /\ (w \in typed => Put(w, None, "evict"))
          /\ w \notin typed => req'[w] = "none"
      BY <2>4 DEF Fails, attemptFrame, winVars, TypeOK
    <3>2. w \notin typed
      <4>1. out[w] \in Seq(Row) /\ out \in [Windows -> Seq(Row)]
        BY DEF TypeOK, Row
      <4>2. ASSUME Put(w, None, "evict") PROVE FALSE
        <5>1. out'[w] = Append(out[w], [key |-> key[w], val |-> None, cb |-> "evict"])
          BY <4>1, <4>2 DEF Put
        <5>2. Len(out'[w]) = Len(out[w]) + 1 /\ Len(out[w]) \in Nat
          BY <4>1, <5>1
        <5>. QED BY <2>4, <5>2 DEF dbVars
      <4>. QED BY <3>1, <4>2
    <3>. QED BY <1>0, <3>1, <3>2 DEF StandsAt
  <2>5. CASE TypeLate(w)
    BY <1>0, <2>5 DEF TypeLate, attemptFrame, winVars, StandsAt, TypeOK
  <2>. QED BY <2>1, <2>2, <2>3, <2>4, <2>5
<1>4. Talks(w)
  BY <1>1, <1>3 DEF Talks
<1>5. \A x \in Windows \ {w} : Untouched(x)
  BY <1>1, <1>2 DEF Untouched
<1>. QED BY <1>0, <1>4, <1>5, TalksKeeps, StepOf

(* A step of an attempt that sets or removes the password *)
Puts(w, v, cb) ==
  /\ Adds(w, v, cb)
  /\ UNCHANGED <<disk, torn, diverged, attached, rotates, key, phase, attempt, ended>>
  /\ phase[w] = "ready" /\ key[w] \in Keys
  /\ \A x \in Windows \ {w} : req'[x] = req[x] /\ stray'[x] = stray[x]
  /\ req'[w] # "none" => req[w] # "none"
  /\ v # None => v.from = w /\ (v.late \/ (Allowed(v, w) /\ req[w] # "evict" /\ req'[w] # "evict"))
  /\ cb = "evict" => v = None /\ req'[w] = "evict" /\ req[w] # "evict"
  /\ req[w] = "evict" <=> req'[w] = "evict" /\ cb # "evict"

LEMMA PutsKeeps ==
  ASSUME TypeOK, NEW w \in Windows, At(w), NEW v, NEW cb, Puts(w, v, cb)
  PROVE  At(w)'
<1>0. Adds(w, v, cb) /\ StandsAt(w)
  BY DEF Puts, At
<1>1. PICK n \in Nat :
        /\ DOMAIN out'[w] = DOMAIN out[w] \cup {n}
        /\ out'[w][n].key = key[w] /\ out'[w][n].val = v /\ out'[w][n].cb = cb
        /\ \A i \in DOMAIN out[w] : i \in Nat /\ out'[w][i] = out[w][i] /\ i < n
  BY <1>0 DEF Adds
<1>2. \A k \in Keys : mem'[w][k] = IF k = key[w] THEN v ELSE None
  BY <1>0 DEF Adds, StandsAt
<1>3. StandsAt(w)'
  BY <1>0, <1>2 DEF StandsAt, Puts
<1>4. InMemory(w)'
  BY <1>2 DEF InMemory, Timely, Allowed, Puts
<1>5. InQueue(w)'
  <2>0. InQueue(w)
    BY DEF At
  <2>1. ASSUME NEW i \in DOMAIN out[w], out[w][i].val # None
        PROVE  /\ out[w][i].key = key'[w] /\ out[w][i].val.from = w
               /\ ~out[w][i].val.late =>
                    out[w][i].val.attempt <= attempt'[w] /\ <<w, out[w][i].val.attempt>> \notin ended'
    BY <2>0, <2>1 DEF InQueue, Allowed, Puts
  <2>2. v # None => v.from = w /\ (~v.late => v.attempt <= attempt'[w] /\ <<w, v.attempt>> \notin ended')
    BY DEF Puts, Allowed
  <2>3. \A j \in DOMAIN out'[w] : j = n \/ (j \in DOMAIN out[w] /\ out'[w][j] = out[w][j] /\ j < n)
    BY <1>1
  <2>4. ASSUME NEW i \in DOMAIN out[w], out[w][i].cb = "evict"
        PROVE  /\ out[w][i].key = key'[w] /\ out[w][i].val = None
               /\ req[w] = "evict" /\ req'[w] = "evict" /\ cb # "evict" /\ (v # None => v.late)
               /\ \A j \in DOMAIN out[w] : j > i =>
                    out[w][j].cb # "evict" /\ (out[w][j].val # None => out[w][j].val.late)
    BY <2>0, <2>4 DEF InQueue, Puts
  <2>5. cb = "evict" => v = None /\ req'[w] = "evict" /\ key'[w] = key[w]
    BY DEF Puts
  <2>6. \A j \in DOMAIN out'[w] : ~(j > n)
    BY <1>1
  <2>7. ASSUME NEW i \in DOMAIN out'[w], out'[w][i].val # None
        PROVE  /\ out'[w][i].key = key'[w] /\ out'[w][i].val.from = w
               /\ ~out'[w][i].val.late =>
                    out'[w][i].val.attempt <= attempt'[w] /\ <<w, out'[w][i].val.attempt>> \notin ended'
    <3>1. CASE i = n
      BY <1>1, <2>2, <2>7, <3>1 DEF Puts
    <3>2. CASE i # n
      BY <2>1, <2>3, <2>7, <3>2
    <3>. QED BY <3>1, <3>2
  <2>8. ASSUME NEW i \in DOMAIN out'[w], out'[w][i].cb = "evict"
        PROVE  /\ out'[w][i].key = key'[w] /\ out'[w][i].val = None
               /\ phase'[w] = "ready" => req'[w] = "evict"
               /\ \A j \in DOMAIN out'[w] : j > i =>
                    out'[w][j].cb # "evict" /\ (out'[w][j].val # None => out'[w][j].val.late)
    BY <1>1, <2>3, <2>4, <2>5, <2>6, <2>8
  <2>. QED BY <2>7, <2>8 DEF InQueue, Allowed
<1>6. OnDisk(w)'
  BY DEF At, OnDisk, Timely, Allowed, Puts
<1>7. InStep(w)'
  <2>1. CASE w \in attached' /\ ~diverged'
    <3>1. attached' = {w} /\ ~torn'
      BY <2>1 DEF At, InStep, Puts
    <3>2. LastIs(w, n)' /\ n \in DOMAIN out'[w]
      BY <1>1, <1>2 DEF LastIs, Puts
    <3>. QED BY <3>1, <3>2 DEF InStep
  <2>. QED BY <2>1 DEF InStep
<1>. QED BY <1>3, <1>4, <1>5, <1>6, <1>7 DEF At

LEMMA PutsOthers ==
  ASSUME NEW w \in Windows, NEW v, NEW cb, Puts(w, v, cb)
  PROVE  \A x \in Windows \ {w} : mem'[x] = mem[x] => Untouched(x)
  BY DEF Puts, Adds, Untouched

LEMMA PutStep ==
  ASSUME TypeOK, Everywhere, NEW w \in Windows,
         \/ Miss(w) /\ Put(w, None, "none")
         \/ Type(w)
         \/ Fails(w) /\ Put(w, None, "evict")
         \/ TypeLate(w) /\ Put(w, Password(w, stray[w], TRUE), "none")
  PROVE  Everywhere'
<1>0. At(w) /\ StandsAt(w) /\ attempt[w] \in 0..Attempts /\ stray[w] \in 0..Attempts /\ period \in 0..Periods
  BY DEF Everywhere, At, TypeOK
<1>1. phase[w] = "ready" /\ key[w] \in Keys
  BY <1>0 DEF Miss, Type, Fails, TypeLate, StandsAt, TypeOK
<1>2. /\ UNCHANGED <<disk, torn, diverged, attached, rotates, key, phase, attempt, ended>>
      /\ \A x \in Windows \ {w} : req'[x] = req[x] /\ stray'[x] = stray[x]
  <2>1. UNCHANGED <<disk, torn, diverged, attached, rotates, key, phase, attempt>>
    BY DEF Miss, Type, Fails, TypeLate, attemptFrame, fileVars, winVars
  <2>2. req' = req \/ \E r : req' = [req EXCEPT ![w] = r]
    BY DEF Miss, Type, Fails, TypeLate
  <2>3. stray' = stray \/ \E n : stray' = [stray EXCEPT ![w] = n]
    BY DEF Miss, Type, Fails, TypeLate
  <2>4. ended' = ended
    BY DEF Miss, Type, Fails, TypeLate
  <2>. QED BY <2>1, <2>2, <2>3, <2>4 DEF TypeOK
<1>3. ASSUME NEW v, NEW cb, Puts(w, v, cb) PROVE Everywhere'
  <2>1. \A x \in Windows \ {w} : mem'[x] = mem[x]
    <3>1. \E u, c : Put(w, u, c)
      BY DEF Type
    <3>. QED BY <3>1 DEF Put, TypeOK
  <2>. QED BY <1>0, <1>3, <2>1, PutsKeeps, PutsOthers, StepOf
<1>4. None \in Entry \cup {None}
  OBVIOUS
<1>5. CASE Miss(w) /\ Put(w, None, "none")
  <2>1. Adds(w, None, "none")
    BY <1>1, <1>4, <1>5, PutFacts DEF Keys
  <2>2. req[w] = "ask" /\ req'[w] = "prompt"
    BY <1>5 DEF Miss, TypeOK
  <2>3. Puts(w, None, "none")
    BY <1>1, <1>2, <2>1, <2>2 DEF Puts
  <2>. QED BY <1>3, <2>3
<1>6. CASE Type(w)
  <2>. DEFINE v == Password(w, attempt[w], FALSE)
  <2>1. /\ attempt[w] \in 1..Attempts /\ v \in Entry /\ v # None /\ v.from = w
        /\ v.attempt = attempt[w]
    <3>1. attempt[w] # 0
      BY <1>0, <1>6 DEF StandsAt, Type
    <3>2. attempt[w] \in 1..Attempts
      BY <1>0, <3>1
    <3>. QED BY <1>0, <3>2, BoundsAssumption DEF Entry, Password, None
  <2>2. Put(w, v, "store") /\ req[w] = "prompt" /\ req'[w] = "store"
    BY <1>6 DEF Type, TypeOK
  <2>3. <<w, attempt[w]>> \notin ended
    BY <1>0, <2>1, <2>2 DEF StandsAt
  <2>. HIDE DEF v
  <2>4. Adds(w, v, "store")
    BY <1>1, <2>1, <2>2, PutFacts DEF Keys
  <2>5. Puts(w, v, "store")
    BY <1>1, <1>2, <2>1, <2>2, <2>3, <2>4 DEF Puts, Allowed
  <2>. QED BY <1>3, <2>5
<1>7. CASE Fails(w) /\ Put(w, None, "evict")
  <2>1. Adds(w, None, "evict")
    BY <1>1, <1>4, <1>7, PutFacts DEF Keys
  <2>2. req[w] \notin {"none", "evict"}
    BY <1>7 DEF Fails
  <2>3. req'[w] = "evict"
    <3>1. out \in [Windows -> Seq(Row)]
      BY DEF TypeOK, Row
    <3>2. Len(out'[w]) = Len(out[w]) + 1 /\ Len(out[w]) \in Nat
      <4>1. out'[w] = Append(out[w], [key |-> key[w], val |-> None, cb |-> "evict"])
        BY <1>7, <3>1 DEF Put
      <4>. QED BY <3>1, <4>1
    <3>3. ~UNCHANGED dbVars
      BY <3>2 DEF dbVars
    <3>4. req' = [req EXCEPT ![w] = "evict"]
      BY <1>7, <3>3 DEF Fails
    <3>. QED BY <3>4 DEF TypeOK
  <2>4. Puts(w, None, "evict")
    BY <1>1, <1>2, <2>1, <2>2, <2>3 DEF Puts
  <2>. QED BY <1>3, <2>4
<1>8. CASE TypeLate(w) /\ Put(w, Password(w, stray[w], TRUE), "none")
  <2>. DEFINE v == Password(w, stray[w], TRUE)
  <2>1. v \in Entry /\ v.from = w /\ v.late
    BY <1>0, <1>8, BoundsAssumption DEF Entry, Password, None, TypeLate
  <2>2. Put(w, v, "none") /\ req' = req
    BY <1>8 DEF TypeLate
  <2>. HIDE DEF v
  <2>3. Adds(w, v, "none")
    BY <1>1, <2>1, <2>2, PutFacts DEF Keys
  <2>4. Puts(w, v, "none")
    BY <1>1, <1>2, <2>1, <2>2, <2>3 DEF Puts
  <2>. QED BY <1>3, <2>4
<1>. QED BY <1>5, <1>6, <1>7, <1>8

(* The first row is written, or refused *)
LEMMA FlushStep ==
  ASSUME TypeOK, Everywhere, NEW w \in Windows, WriteRow(w) \/ Refuse(w)
  PROVE  Everywhere'
<1>. DEFINE row == out[w][1]
<1>0. At(w) /\ StandsAt(w) /\ InMemory(w) /\ InQueue(w) /\ OnDisk(w) /\ InStep(w)
  BY DEF Everywhere, At
<1>1. Drops(w) /\ row.key \in Keys
  BY DropsFacts
<1>2. /\ WriteRow(w) => /\ diverged' = diverged
                        /\ \A k \in Keys : disk'[k] = IF k = row.key /\ w \in attached /\ ~torn
                                                      THEN row.val ELSE disk[k]
      /\ Refuse(w) => disk' = disk /\ (w \in attached => diverged') /\ (diverged => diverged')
  BY DropsFacts
<1>3. \/ ended' = ended
      \/ /\ row.cb = "evict" /\ req[w] = "evict" /\ req'[w] = "none" /\ WriteRow(w)
         /\ ended' = ended \cup {<<w, attempt[w]>>}
  BY DropsFacts
<1>. HIDE DEF row
<1>4. \A k \in Keys : \/ disk'[k] = disk[k]
                      \/ k = row.key /\ w \in attached /\ ~torn /\ disk'[k] = row.val
  <2>1. CASE WriteRow(w)
    BY <1>2, <2>1
  <2>2. CASE Refuse(w)
    BY <1>2, <2>2
  <2>. QED BY <2>1, <2>2
<1>5. /\ row.val # None => /\ row.key = key[w] /\ row.val.from = w
                           /\ ~row.val.late => Allowed(row.val, w)
      /\ row.cb = "evict" =>
           /\ row.key = key[w] /\ row.val = None
           /\ \A j \in DOMAIN out[w] : j > 1 =>
                out[w][j].cb # "evict" /\ (out[w][j].val # None => out[w][j].val.late)
  BY <1>0, <1>1 DEF InQueue, Drops, row
<1>6. \A x \in Windows \ {w} : Untouched(x)
  <2>. SUFFICES ASSUME NEW x \in Windows \ {w} PROVE Untouched(x)
    OBVIOUS
  <2>1. /\ phase'[x] = phase[x] /\ key'[x] = key[x] /\ mem'[x] = mem[x] /\ out'[x] = out[x]
        /\ req'[x] = req[x] /\ stray'[x] = stray[x] /\ attempt'[x] = attempt[x]
        /\ UNCHANGED <<rotates, attached, torn>>
    BY <1>1 DEF Drops, winVars
  <2>2. \A n : <<x, n>> \in ended' <=> <<x, n>> \in ended
    BY <1>3
  <2>3. \A k \in Keys : ~Timely(disk'[k], x) \/ disk'[k] = disk[k]
    BY <1>4, <1>5 DEF Timely
  <2>4. ~diverged' => ~diverged
    BY <1>2
  <2>5. attached = {x} => \A k \in Keys : disk'[k] = disk[k]
    BY <1>4
  <2>. QED BY <2>1, <2>2, <2>3, <2>4, <2>5 DEF Untouched
<1>7. /\ UNCHANGED <<mem, phase, key, rotates, attempt, stray, attached, torn>>
      /\ 1 \in DOMAIN out[w]
      /\ req'[w] = req[w] \/ (req[w] \in {"store", "evict"} /\ req'[w] \in {"none", "given", "refused"})
      /\ row.cb # "evict" /\ req[w] = "evict" => req'[w] = "evict"
      /\ req[w] # "evict" => req'[w] # "evict"
      /\ req[w] = "none" => req'[w] = "none"
  BY <1>1 DEF Drops, winVars, row
<1>8. StandsAt(w)'
  <2>1. phase[w] \in {"ready", "closing"}
    BY <1>0, <1>7 DEF StandsAt
  <2>2. attempt[w] \in Nat
    BY DEF TypeOK
  <2>. QED BY <1>0, <1>3, <1>7, <2>1, <2>2 DEF StandsAt
<1>9. InMemory(w)'
  BY <1>0, <1>3, <1>7 DEF InMemory, Timely, Allowed
<1>10. InQueue(w)'
  <2>1. \A i \in DOMAIN out'[w] : i + 1 \in DOMAIN out[w] /\ out'[w][i] = out[w][i + 1] /\ i + 1 > 1 /\ i \in Nat
    BY <1>1 DEF Drops
  <2>2. \A i, j \in DOMAIN out'[w] : j > i => j + 1 > i + 1
    BY <2>1
  <2>3. ASSUME NEW i \in DOMAIN out'[w], out'[w][i].val # None
        PROVE  /\ out'[w][i].key = key'[w] /\ out'[w][i].val.from = w
               /\ ~out'[w][i].val.late =>
                    out'[w][i].val.attempt <= attempt'[w] /\ <<w, out'[w][i].val.attempt>> \notin ended'
    BY <1>0, <1>3, <1>5, <1>7, <2>1, <2>3 DEF InQueue, Allowed
  <2>4. ASSUME NEW i \in DOMAIN out'[w], out'[w][i].cb = "evict"
        PROVE  /\ out'[w][i].key = key'[w] /\ out'[w][i].val = None
               /\ phase'[w] = "ready" => req'[w] = "evict"
               /\ \A j \in DOMAIN out'[w] : j > i =>
                    out'[w][j].cb # "evict" /\ (out'[w][j].val # None => out'[w][j].val.late)
    BY <1>0, <1>5, <1>7, <2>1, <2>2, <2>4 DEF InQueue
  <2>. QED BY <2>3, <2>4 DEF InQueue, Allowed
<1>11. OnDisk(w)'
  <2>. SUFFICES ASSUME ~torn, NEW k \in Keys, Timely(disk'[k], w)
                PROVE  /\ disk'[k].attempt <= attempt[w] /\ <<w, disk'[k].attempt>> \notin ended'
                       /\ req'[w] # "none" /\ disk'[k].attempt = attempt[w] =>
                            k = key[w] /\ w \in attached
    BY <1>7 DEF OnDisk, Timely, Allowed
  <2>1. CASE k = row.key /\ w \in attached /\ disk'[k] = row.val
    BY <1>3, <1>5, <2>1 DEF Timely, Allowed
  <2>2. CASE disk'[k] = disk[k] /\ ended' = ended
    BY <1>0, <1>7, <2>2 DEF OnDisk, Timely, Allowed
  <2>3. CASE /\ disk'[k] = disk[k] /\ WriteRow(w)
             /\ row.cb = "evict" /\ req[w] = "evict" /\ req'[w] = "none"
             /\ ended' = ended \cup {<<w, attempt[w]>>}
    <3>1. Allowed(disk[k], w) /\ (disk[k].attempt = attempt[w] => k = key[w] /\ w \in attached)
      BY <1>0, <2>3 DEF OnDisk, Timely
    <3>2. disk[k].attempt # attempt[w]
      BY <1>2, <1>5, <2>3, <3>1 DEF Timely
    <3>. QED BY <2>3, <3>1, <3>2 DEF Allowed
  <2>. QED BY <1>3, <1>4, <2>1, <2>2, <2>3
<1>12. InStep(w)'
  <2>. SUFFICES ASSUME w \in attached, ~diverged'
                PROVE  /\ attached = {w} /\ ~torn
                       /\ \/ \E i \in DOMAIN out'[w] : LastIs(w, i)'
                          \/ /\ \A i \in DOMAIN out'[w] : out'[w][i].key # key[w]
                             /\ disk'[key[w]] = mem[w][key[w]]
    BY <1>7 DEF InStep
  <2>1. WriteRow(w) /\ ~diverged /\ attached = {w} /\ ~torn
    BY <1>0, <1>2 DEF InStep
  <2>2. key[w] \in Keys
    BY <1>0 DEF StandsAt, TypeOK
  <2>3. disk'[key[w]] = IF row.key = key[w] THEN row.val ELSE disk[key[w]]
    BY <1>2, <2>1, <2>2
  <2>4. /\ \A i \in DOMAIN out'[w] :
             i \in Nat /\ i # 0 /\ i + 1 \in DOMAIN out[w] /\ out'[w][i] = out[w][i + 1]
        /\ \A i \in DOMAIN out[w] : i \in Nat /\ i >= 1 /\ (i # 1 => i - 1 \in DOMAIN out'[w])
    BY <1>1 DEF Drops
  <2>5. CASE LastIs(w, 1)
    <3>1. row.key = key[w] /\ row.val = mem[w][key[w]]
      BY <2>5 DEF LastIs, row
    <3>2. \A i \in DOMAIN out'[w] : out'[w][i].key # key[w]
      BY <2>4, <2>5 DEF LastIs
    <3>. QED BY <2>1, <2>3, <3>1, <3>2
  <2>6. ASSUME NEW i \in DOMAIN out[w], i # 1, LastIs(w, i)
        PROVE  \E j \in DOMAIN out'[w] : LastIs(w, j)'
    <3>1. i - 1 \in DOMAIN out'[w] /\ out'[w][i - 1] = out[w][i]
      BY <2>4, <2>6
    <3>2. \A j \in DOMAIN out'[w] : j > i - 1 => j + 1 > i /\ out'[w][j].key = out[w][j + 1].key
      BY <2>4
    <3>3. LastIs(w, i - 1)'
      BY <1>7, <2>4, <2>6, <3>1, <3>2 DEF LastIs
    <3>. QED BY <3>1, <3>3
  <2>7. CASE /\ \A i \in DOMAIN out[w] : out[w][i].key # key[w]
             /\ disk[key[w]] = mem[w][key[w]]
    BY <1>7, <2>1, <2>3, <2>4, <2>7 DEF row
  <2>. QED BY <1>0, <2>1, <2>5, <2>6, <2>7 DEF InStep
<1>. QED BY <1>6, <1>8, <1>9, <1>10, <1>11, <1>12, StepOf DEF At

(* The stream is destroyed with its rows *)
LEMMA LoseStep ==
  ASSUME TypeOK, Everywhere, NEW w \in Windows, WriteFails(w)
  PROVE  Everywhere'
<1>0. At(w) /\ StandsAt(w)
  BY DEF Everywhere, At
<1>1. /\ UNCHANGED <<disk, attached, mem, phase, rotates, key, attempt, stray, ended>>
      /\ diverged' = (diverged \/ w \in attached)
      /\ torn' = torn \/ torn' = (torn \/ w \in attached)
      /\ out' = [out EXCEPT ![w] = <<>>] /\ out[w] # <<>>
  BY DEF WriteFails, Lose, Settle, winVars
<1>2. /\ \A x \in Windows \ {w} : req'[x] = req[x]
      /\ req[w] # "evict" => req'[w] # "evict"
      /\ req[w] = "none" => req'[w] = "none"
  BY DEF WriteFails, Lose, Settle, TypeOK
<1>3. out'[w] = <<>> /\ \A x \in Windows \ {w} : out'[x] = out[x]
  BY <1>1 DEF TypeOK
<1>31. /\ ~torn' => ~torn
       /\ w \notin attached => torn' = torn /\ diverged' = diverged
       /\ w \in attached => diverged'
       /\ ~diverged' => ~diverged
  <2>1. torn \in {TRUE, FALSE} /\ diverged \in {TRUE, FALSE}
    BY DEF TypeOK
  <2>2. CASE w \in attached
    BY <1>1, <2>1, <2>2, Zenon
  <2>3. CASE w \notin attached
    BY <1>1, <2>1, <2>3, Zenon
  <2>. QED BY <2>2, <2>3
<1>4. \A x \in Windows \ {w} : Untouched(x)
  BY <1>1, <1>2, <1>3, <1>31 DEF Untouched
<1>5. StandsAt(w)'
  BY <1>0, <1>1, <1>2 DEF StandsAt
<1>6. InMemory(w)' /\ InQueue(w)' /\ OnDisk(w)'
  <2>1. InMemory(w)'
    BY <1>0, <1>1, <1>2 DEF At, InMemory, Timely, Allowed
  <2>2. InQueue(w)'
    BY <1>3 DEF InQueue
  <2>3. OnDisk(w)'
    BY <1>0, <1>1, <1>2, <1>31 DEF At, OnDisk, Timely, Allowed
  <2>. QED BY <2>1, <2>2, <2>3
<1>7. InStep(w)'
  BY <1>1, <1>31 DEF InStep
<1>. QED BY <1>4, <1>5, <1>6, <1>7, StepOf DEF At

LEMMA QuietStep ==
  ASSUME TypeOK, Everywhere, TtlPasses \/ UNCHANGED vars
  PROVE  Everywhere'
<1>1. UNCHANGED <<disk, torn, diverged, attached, mem, out, phase, rotates, key, req, attempt, stray, ended>>
  BY DEF TtlPasses, vars, fileVars, dbVars, winVars, reqVars
<1>2. \A x \in Windows : Untouched(x)
  BY <1>1 DEF Untouched
<1>. QED BY <1>2, UntouchedKeeps DEF Everywhere

LEMMA EverywhereStep ==
  ASSUME TypeOK, KeysCounted, Everywhere, [Next]_vars PROVE Everywhere'
<1>1. CASE TtlPasses \/ UNCHANGED vars
  BY <1>1, QuietStep
<1>2. ASSUME NEW w \in Windows, Start(w) \/ ReadSecret(w) \/ StoreFirstKey(w) \/ StoreRotatedKey(w)
      PROVE  Everywhere'
  BY <1>2, StartsStep
<1>3. ASSUME NEW w \in Windows, LoadDb(w) PROVE Everywhere'
  BY <1>3, LoadStep
<1>4. ASSUME NEW w \in Windows, RotateMasterKey(w) PROVE Everywhere'
  BY <1>4, NoLogStep DEF RotateMasterKey
<1>5. ASSUME NEW w \in Windows, Closed(w) \/ Kill(w) PROVE Everywhere'
  BY <1>5, GoneStep
<1>6. ASSUME NEW w \in Windows, Deactivate(w) \/ Begin(w) \/ Hit(w) \/ Cancel(w) \/ AskAgain(w) \/ Connected(w)
      PROVE  Everywhere'
  BY <1>6, TalksStep
<1>7. ASSUME NEW w \in Windows, Miss(w) \/ Type(w) \/ Fails(w) \/ TypeLate(w)
      PROVE  Everywhere'
  <2>1. CASE (Miss(w) \/ Fails(w) \/ TypeLate(w)) /\ UNCHANGED dbVars
    BY <2>1, TalksStep
  <2>2. CASE Miss(w) /\ ~UNCHANGED dbVars
    BY <2>2, PutStep DEF Miss
  <2>3. CASE Type(w)
    BY <2>3, PutStep
  <2>4. CASE Fails(w) /\ ~UNCHANGED dbVars
    BY <2>4, PutStep DEF Fails
  <2>5. CASE TypeLate(w) /\ ~UNCHANGED dbVars
    BY <2>5, PutStep DEF TypeLate
  <2>. QED BY <1>7, <2>1, <2>2, <2>3, <2>4, <2>5
<1>8. ASSUME NEW w \in Windows, WriteRow(w) \/ WriteFails(w) \/ Refuse(w)
      PROVE  Everywhere'
  BY <1>8, FlushStep, LoseStep
<1>. QED BY <1>1, <1>2, <1>3, <1>4, <1>5, <1>6, <1>7, <1>8
         DEF Next, InitStep, Handle, Flush, Verdict

LEMMA InitHolds == Init => IInv
<1>. SUFFICES ASSUME Init PROVE IInv
  OBVIOUS
<1>1. TypeOK
  <2>1. \A S : <<>> \in Seq(S)
    OBVIOUS
  <2>2. 0 \in 0..Attempts /\ 0 \in 0..Asks /\ 0 \in 0..Periods /\ -1 \in -1..Periods /\ 0 \in 0..Starts
    BY BoundsAssumption
  <2>3. Empty \in Content
    BY ContentFacts
  <2>. QED BY <2>1, <2>2, <2>3 DEF Init, TypeOK
<1>2. KeysCounted
  <2>1. Storing = {}
    BY DEF Init, Storing, MayStore
  <2>2. IsFiniteSet(Storing) /\ Cardinality(Storing) = 0
    BY <2>1, FS_EmptySet
  <2>3. plan.starts \in Nat
    BY <1>1, PlanFacts
  <2>. QED BY <2>2, <2>3 DEF Init, KeysCounted
<1>3. ASSUME NEW w \in Windows PROVE At(w)
  <2>1. \A k \in Keys : Empty[k] = None
    BY ContentFacts
  <2>. QED BY <2>1 DEF Init, At, StandsAt, InMemory, InQueue, OnDisk, InStep, Timely
<1>. QED BY <1>1, <1>2, <1>3 DEF IInv

LEMMA Inductive == Spec => []IInv
<1>1. ASSUME IInv, [Next]_vars PROVE IInv'
  <2>1. TypeOK /\ KeysCounted /\ Everywhere /\ Stands
    BY <1>1 DEF IInv, Everywhere, At, Stands
  <2>2. TypeOK' /\ KeysCounted'
    BY <1>1, <2>1, TypeStep, CountStep
  <2>3. Everywhere'
    BY <1>1, <2>1, EverywhereStep
  <2>. QED BY <2>2, <2>3 DEF IInv, Everywhere
<1>. QED BY <1>1, InitHolds, PTL DEF Spec

-----------------------------------------------------------------------------
(* Theorems *)

(* Every key a window reads a row under was made by one of the starts, the   *)
(* rows in a stream are rows, and every count of retries and attempts keeps  *)
(* to the course of events (initCache, Dirty, createTransport).              *)
THEOREM TypeCorrect == Spec => []TypeOK
<1>1. IInv => TypeOK
  BY DEF IInv
<1>. QED BY <1>1, Inductive, PTL

(* After evictHostPasswords() no password typed in time in the attempt that  *)
(* failed is in its window's memory or in a file that can be read, however   *)
(* many windows share the log, rotate its key, remove it, die over it or     *)
(* lose rows.                                                               *)
THEOREM EvictionIsComplete == Spec => []EvictedGone
<1>1. ASSUME IInv PROVE EvictedGone
  <2>. SUFFICES ASSUME NEW w \in Windows,
                       NEW e \in {p \in Remembered(w) : p # None /\ p.from = w}
                                  \cup (IF torn THEN {} ELSE Stored \ {None}),
                       ~e.late
                PROVE  <<e.from, e.attempt>> \notin ended
    BY DEF EvictedGone
  <2>1. CASE e \in Remembered(w) /\ e # None /\ e.from = w
    BY <1>1, <2>1 DEF IInv, At, InMemory, Timely, Allowed, Remembered
  <2>2. CASE ~torn /\ e \in Stored /\ e # None
    <3>1. PICK k \in Keys : e = disk[k]
      BY <2>2 DEF Stored
    <3>2. e.from \in Windows
      BY <1>1, <2>2, <3>1 DEF IInv, TypeOK, Content, Entry
    <3>. QED BY <1>1, <2>2, <3>1, <3>2 DEF IInv, At, OnDisk, Timely, Allowed
  <2>. QED BY <2>1, <2>2
<1>. QED BY <1>1, Inductive, PTL

(* A window alone with the file, whose stream has lost nothing and is empty, *)
(* remembers what a window that opens the file under its key finds           *)
(* (Dirty.set, rm and load).                                                 *)
THEOREM FileIsMemory == Spec => []RestartChangesNothing
<1>1. ASSUME IInv PROVE RestartChangesNothing
  <2>. SUFFICES ASSUME NEW w \in attached, phase[w] = "ready", ~diverged, out[w] = <<>>
                PROVE  Cached(w) = disk[key[w]]
    BY DEF RestartChangesNothing
  <2>1. w \in Windows
    BY <1>1 DEF IInv, TypeOK
  <2>2. InStep(w)
    BY <1>1, <2>1 DEF IInv, At
  <2>3. DOMAIN out[w] = {}
    OBVIOUS
  <2>. QED BY <2>2, <2>3 DEF InStep, Cached
<1>. QED BY <1>1, Inductive, PTL

=============================================================================
