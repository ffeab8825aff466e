-------------------------- MODULE HostSetup_proofs ---------------------------
(***************************************************************************)
(* Theorems about HostSetup, for any windows, bounds and courses of events. *)
(*                                                                          *)
(* UsedStaysUp rests on two facts.  A transport a window knows of has written*)
(* its meta file, so it listened; one that does not listen any more is gone  *)
(* for good.  And as long as nothing dies and nothing is late, everything    *)
(* that is about to be killed, or that a command is sent through after its   *)
(* client was given up, is gone already.                                     *)
(*                                                                          *)
(* UpMeansWhole rests on Whole: a window that trusts an install has seen     *)
(* node, node comes with an extraction, and the files that are missing then  *)
(* are those that an extraction under way has still to write.                *)
(***************************************************************************)
EXTENDS HostSetup, TLAPS

(* A window past startTransport() has a client, and extracts in one place    *)
HasClient ==
  \A w \in Windows : pc[w] \in Installing \cup {"up"} => client[w] # NoTransport
AtExtract == \A w \in Windows : at[w] # "none" => pc[w] = "extract"
TInv == TypeOK /\ HasClient /\ AtExtract

(* Windows know a transport from its meta file, which it writes once it      *)
(* listens; and a client beats, but for that of an overtaken restart         *)
Known(t) == t \in recorded \cup {NoTransport}
RecordedListen == recorded \cap live \subseteq bound
KnownRecorded ==
  /\ Known(meta)
  /\ \A w \in Windows : Known(found[w]) /\ Known(client[w])
ClientBeats ==
  \A w \in Windows :
    client[w] # NoTransport => client[w] \in beats[w] \/ Overtaken(w)

(* What a window gives up, is about to kill or cleans up through is gone      *)
GivenUp ==
  \A w \in Windows :
    /\ start[w] = "reap" => found[w] \notin live
    /\ start[w] # "none" /\ pc[w] # "transport" =>
         client[w] # NoTransport /\ client[w] \notin live
    /\ w \in dead => start[w] = "none" /\ client[w] \notin live
    /\ \A c \in clean[w] : Known(c[2]) /\ c[2] \notin live

IInv == /\ TInv /\ RecordedListen /\ KnownRecorded /\ ClientBeats
        /\ Peaceful => GivenUp

-----------------------------------------------------------------------------
(* A late answer is counted within the course of events *)
LEMMA SlipBounded ==
  ASSUME TypeOK, Slip
  PROVE  slips' \in 0..Slips
<1>1. plan.slips \in 0..Slips
  BY PlansAssumption DEF TypeOK, Plan
<1>2. slips \in 0..Slips /\ slips < plan.slips /\ slips' = slips + 1
  BY DEF TypeOK, Slip
<1>. QED BY <1>1, <1>2, BoundsAssumption

(* One step per action.  The type of a client that is torn down, and of the   *)
(* pc of a window that extracts, need the other two conjuncts of TInv.        *)
LEMMA TypeStep == TInv /\ [Next]_vars => TInv'
<1>. SUFFICES ASSUME TInv, [Next]_vars PROVE TInv'
  OBVIOUS
<1>. USE BoundsAssumption DEF TInv, TypeOK, HasClient, AtExtract, Installing,
       SettingUp, NoTransport, Transports, Files
<1>. USE DEF setupVars, startVars, clientVars, extractVars, hostVars, goVars,
       windowVars
<1>1. ASSUME NEW w \in Windows, Begin(w), UNCHANGED plan PROVE TInv'
  <2>1. begun' \in 0..Setups
    <3>1. begun \in 0..Setups /\ begun < plan.setups /\ plan.setups \in 1..Setups
      BY <1>1, PlansAssumption DEF Begin, Plan
    <3>2. begun' = begun + 1
      BY <1>1 DEF Begin
    <3>. QED BY <3>1, <3>2
  <2>2. ASSUME NEW v \in Windows
        PROVE  {f \in {"tools"} : tools} \cup {f \in {"install"} : nodeThere}
                 \in SUBSET {"tools", "install"}
    OBVIOUS
  <2>3. /\ pc' = [pc EXCEPT ![w] = "transport"] /\ at' = at
        /\ client' = [client EXCEPT ![w] = 0]
        /\ pc[w] \in {"idle", "failed"}
    BY <1>1 DEF Begin
  <2>4. HasClient' /\ AtExtract'
    BY <2>3
  <2>5. TypeOK'
    BY <1>1, <2>1, <2>2 DEF Begin
  <2>. QED BY <2>4, <2>5
<1>2. ASSUME NEW w \in Windows, ReadMeta(w), UNCHANGED plan PROVE TInv'
  BY <1>2 DEF ReadMeta, Goto
<1>3. ASSUME NEW w \in Windows, Healthy(w), UNCHANGED plan PROVE TInv'
  BY <1>3 DEF Healthy, Adopt, AfterTransport, Overtaken
<1>4. ASSUME NEW w \in Windows, Unhealthy(w), UNCHANGED plan PROVE TInv'
  BY <1>4 DEF Unhealthy, Goto
<1>5. ASSUME NEW w \in Windows, HealthSlips(w), UNCHANGED plan PROVE TInv'
  <2>1. slips' \in 0..Slips
    BY <1>5, SlipBounded DEF HealthSlips
  <2>. QED BY <1>5, <2>1 DEF HealthSlips, Goto
<1>6. ASSUME NEW w \in Windows, Reap(w), UNCHANGED plan PROVE TInv'
  BY <1>6 DEF Reap, Goto, Kill
<1>7. ASSUME NEW w \in Windows, Ship(w), UNCHANGED plan PROVE TInv'
  BY <1>7 DEF Ship, Goto
<1>8. ASSUME NEW w \in Windows, Move(w), UNCHANGED plan PROVE TInv'
  BY <1>8 DEF Move, Goto
<1>9. ASSUME NEW w \in Windows, Launch(w), UNCHANGED plan PROVE TInv'
  BY <1>9 DEF Launch, Goto
<1>10. ASSUME NEW w \in Windows, Poll(w), UNCHANGED plan PROVE TInv'
  BY <1>10 DEF Poll, Adopt, AfterTransport, Overtaken
<1>11. ASSUME NEW w \in Windows, StartFails(w), UNCHANGED plan PROVE TInv'
  BY <1>11 DEF StartFails, StartThrows
<1>12. ASSUME NEW w \in Windows, Unreachable(w), UNCHANGED plan PROVE TInv'
  <2>1. slips' \in 0..Slips
    BY <1>12, SlipBounded DEF Unreachable
  <2>. QED BY <1>12, <2>1 DEF Unreachable, Goto
<1>13. ASSUME NEW w \in Windows, Bootstrap(w), UNCHANGED plan PROVE TInv'
  BY <1>13 DEF Bootstrap, Continue
<1>14. ASSUME NEW w \in Windows, Download(w), UNCHANGED plan PROVE TInv'
  BY <1>14 DEF Download, Continue, Fetched
<1>15. ASSUME NEW w \in Windows, DownloadFails(w), UNCHANGED plan PROVE TInv'
  BY <1>15 DEF DownloadFails, Continue
<1>16. ASSUME NEW w \in Windows, BeginExtract(w), UNCHANGED plan PROVE TInv'
  BY <1>16 DEF BeginExtract, Continue
<1>17. ASSUME NEW w \in Windows, Extract(w), UNCHANGED plan PROVE TInv'
  BY <1>17 DEF Extract, Continue
<1>18. ASSUME NEW w \in Windows, Extracted(w), UNCHANGED plan PROVE TInv'
  BY <1>18 DEF Extracted, Continue
<1>19. ASSUME NEW w \in Windows, ExtractFails(w), UNCHANGED plan PROVE TInv'
  BY <1>19 DEF ExtractFails, Continue
<1>20. ASSUME NEW w \in Windows, NodeBusy(w), UNCHANGED plan PROVE TInv'
  BY <1>20 DEF NodeBusy, Continue
<1>21. ASSUME NEW w \in Windows, Verify(w), UNCHANGED plan PROVE TInv'
  BY <1>21 DEF Verify, Continue
<1>22. ASSUME NEW w \in Windows, ReportAgent(w), UNCHANGED plan PROVE TInv'
  BY <1>22 DEF ReportAgent, Continue
<1>23. ASSUME NEW w \in Windows, SetupFails(w), UNCHANGED plan PROVE TInv'
  BY <1>23 DEF SetupFails, Continue
<1>24. ASSUME NEW w \in Windows, TearDown(w), UNCHANGED plan PROVE TInv'
  BY <1>24 DEF TearDown
<1>25. ASSUME NEW w \in Windows, CleanKill(w), UNCHANGED plan PROVE TInv'
  BY <1>25 DEF CleanKill, Kill
<1>26. ASSUME NEW w \in Windows, CleanRemove(w), UNCHANGED plan PROVE TInv'
  BY <1>26 DEF CleanRemove
<1>27. ASSUME NEW w \in Windows, CleanLost(w), UNCHANGED plan PROVE TInv'
  BY <1>27 DEF CleanLost
<1>28. ASSUME NEW w \in Windows, Crash(w), UNCHANGED plan PROVE TInv'
  BY <1>28 DEF Crash
<1>29. ASSUME NEW t \in Transports, Bind(t), UNCHANGED plan PROVE TInv'
  BY <1>29 DEF Bind
<1>30. ASSUME NEW t \in Transports, WriteMeta(t), UNCHANGED plan PROVE TInv'
  BY <1>30 DEF WriteMeta
<1>31. ASSUME NEW t \in Transports, IdleOut(t), UNCHANGED plan PROVE TInv'
  BY <1>31 DEF IdleOut, Kill
<1>32. ASSUME NEW t \in Transports, Die(t), UNCHANGED plan PROVE TInv'
  BY <1>32 DEF Die, Kill
<1>33. ASSUME NEW w \in Windows, StartEnds(w), UNCHANGED plan PROVE TInv'
  BY <1>33 DEF StartEnds, Overtaken
<1>34. CASE UNCHANGED vars
  BY <1>34 DEF vars
<1>. QED
  BY <1>1, <1>2, <1>3, <1>4, <1>5, <1>6, <1>7, <1>8, <1>9, <1>10, <1>11,
     <1>12, <1>13, <1>14, <1>15, <1>16, <1>17, <1>18, <1>19, <1>20, <1>21,
     <1>22, <1>23, <1>24, <1>25, <1>26, <1>27, <1>28, <1>29, <1>30, <1>31,
     <1>32, <1>33, <1>34 DEF Next, Step, WindowStep, CleanStep, GoStep

(* Init, with its functions that are empty everywhere *)
LEMMA InitTypes ==
  ASSUME Init
  PROVE  TInv
<1>1. HasClient /\ AtExtract
  BY DEF Init, HasClient, AtExtract, Installing
<1>2. /\ cache \in {"none", "good", "bad"}
      /\ meta \in Transports \cup {NoTransport}
      /\ shipped \in BOOLEAN /\ tools \in BOOLEAN /\ nodeThere \in BOOLEAN
      /\ files \subseteq Files
      /\ launched \in {NoTransport} \cup Transports
      /\ live \subseteq 1..launched /\ bound \subseteq live
      /\ recorded \subseteq 1..launched
      /\ plan \in Plans
  BY DEF Init, NoTransport
<1>5. begun \in 0..Setups /\ slips \in 0..Slips
  BY BoundsAssumption DEF Init
<1>3. ASSUME NEW T PROVE [w \in Windows |-> {}] \in [Windows -> SUBSET T]
  OBVIOUS
<1>4. TypeOK
  BY <1>2, <1>5, <1>3 DEF Init, TypeOK, SettingUp, NoTransport
<1>. QED BY <1>1, <1>4 DEF TInv

(* Every reachable state is well typed *)
THEOREM TypeCorrect == Spec => []TypeOK
<1>1. Init => TInv
  BY InitTypes
<1>2. TInv => TypeOK
  BY DEF TInv
<1>. QED BY <1>1, <1>2, TypeStep, PTL DEF Spec

-----------------------------------------------------------------------------
(* The steps of ensureServerInstalled() past the probe; they touch neither    *)
(* clients nor transports                                                    *)
Installation(w) ==
  \/ Bootstrap(w) \/ Download(w) \/ DownloadFails(w)
  \/ BeginExtract(w) \/ Extract(w) \/ Extracted(w) \/ ExtractFails(w)
  \/ NodeBusy(w) \/ Verify(w) \/ ReportAgent(w) \/ SetupFails(w)

LEMMA InstallationKeeps ==
  ASSUME NEW w \in Windows, TInv, Installation(w)
  PROVE  /\ UNCHANGED <<startVars, clientVars, clean, meta, goVars>>
         /\ pc[w] \in Installing
         /\ pc' = [pc EXCEPT ![w] = pc'[w]] /\ pc'[w] # "transport"
<1>1. ASSUME NEW label, Continue(w, label), label # "transport"
      PROVE  /\ UNCHANGED <<startVars, clientVars, clean, meta, goVars>>
             /\ pc' = [pc EXCEPT ![w] = pc'[w]] /\ pc'[w] # "transport"
  BY <1>1 DEF Continue, TInv, TypeOK
<1>2. pc[w] \in Installing
  BY DEF TInv, AtExtract, Installing, Installation, Bootstrap, Download,
         DownloadFails, BeginExtract, Extract, Extracted, ExtractFails, NodeBusy,
         Verify, ReportAgent, SetupFails
<1>3. \E label : Continue(w, label) /\ label # "transport"
  BY DEF Installation, Bootstrap, Download, DownloadFails, BeginExtract,
     Extract, Extracted, ExtractFails, NodeBusy, Verify, ReportAgent, SetupFails
<1>. QED BY <1>1, <1>2, <1>3

(* One step per action, and one for the installation.  What is gone stays    *)
(* gone since a new transport has a new number; what is given up is gone     *)
(* since it is known, so recorded, so it would listen if it ran.             *)
LEMMA InvStep == IInv /\ [Next]_vars => IInv'
<1>. SUFFICES ASSUME IInv, [Next]_vars PROVE IInv'
  OBVIOUS
<1>0. TInv'
  BY TypeStep DEF IInv
<1>. USE PlansAssumption DEF IInv, TInv, TypeOK, RecordedListen, KnownRecorded,
       Known, ClientBeats, GivenUp, HasClient, Installing, NoTransport,
       Transports, Peaceful, Plan, Overtaken
<1>. USE DEF setupVars, startVars, clientVars, extractVars, hostVars, goVars,
       windowVars
<1>1. ASSUME NEW w \in Windows, Begin(w), UNCHANGED plan PROVE IInv'
  BY <1>0, <1>1 DEF Begin
<1>2. ASSUME NEW w \in Windows, ReadMeta(w), UNCHANGED plan PROVE IInv'
  BY <1>0, <1>2 DEF ReadMeta, Goto, Route
<1>3. ASSUME NEW w \in Windows, Healthy(w), UNCHANGED plan PROVE IInv'
  BY <1>0, <1>3 DEF Healthy, Adopt, AfterTransport
<1>4. ASSUME NEW w \in Windows, Unhealthy(w), UNCHANGED plan PROVE IInv'
  BY <1>0, <1>4 DEF Unhealthy, Goto
<1>5. ASSUME NEW w \in Windows, HealthSlips(w), UNCHANGED plan PROVE IInv'
  BY <1>0, <1>5 DEF HealthSlips, Goto, Slip
<1>6. ASSUME NEW w \in Windows, Reap(w), UNCHANGED plan PROVE IInv'
  BY <1>0, <1>6 DEF Reap, Goto, Kill, Route
<1>7. ASSUME NEW w \in Windows, Ship(w), UNCHANGED plan PROVE IInv'
  BY <1>0, <1>7 DEF Ship, Goto, Route
<1>8. ASSUME NEW w \in Windows, Move(w), UNCHANGED plan PROVE IInv'
  BY <1>0, <1>8 DEF Move, Goto, Route
<1>9. ASSUME NEW w \in Windows, Launch(w), UNCHANGED plan PROVE IInv'
  BY <1>0, <1>9 DEF Launch, Goto, Route
<1>10. ASSUME NEW w \in Windows, Poll(w), UNCHANGED plan PROVE IInv'
  BY <1>0, <1>10 DEF Poll, Adopt, AfterTransport, Route
<1>11. ASSUME NEW w \in Windows, StartFails(w), UNCHANGED plan PROVE IInv'
  BY <1>0, <1>11 DEF StartFails, StartThrows, Route
<1>12. ASSUME NEW w \in Windows, Unreachable(w), UNCHANGED plan PROVE IInv'
  BY <1>0, <1>12 DEF Unreachable, Goto, Slip
<1>13. ASSUME NEW w \in Windows, TearDown(w), UNCHANGED plan PROVE IInv'
  BY <1>0, <1>13 DEF TearDown, MayHappen
<1>14. ASSUME NEW w \in Windows, CleanKill(w), UNCHANGED plan PROVE IInv'
  BY <1>0, <1>14 DEF CleanKill, Kill
<1>15. ASSUME NEW w \in Windows, CleanRemove(w), UNCHANGED plan PROVE IInv'
  BY <1>0, <1>15 DEF CleanRemove
<1>16. ASSUME NEW w \in Windows, CleanLost(w), UNCHANGED plan PROVE IInv'
  BY <1>0, <1>16 DEF CleanLost
<1>17. ASSUME NEW w \in Windows, Crash(w), UNCHANGED plan PROVE IInv'
  BY <1>0, <1>17 DEF Crash
<1>18. ASSUME NEW t \in Transports, Bind(t), UNCHANGED plan PROVE IInv'
  BY <1>0, <1>18 DEF Bind
<1>19. ASSUME NEW t \in Transports, WriteMeta(t), UNCHANGED plan PROVE IInv'
  BY <1>0, <1>19 DEF WriteMeta
<1>20. ASSUME NEW t \in Transports, IdleOut(t), UNCHANGED plan PROVE IInv'
  BY <1>0, <1>20 DEF IdleOut, Kill
<1>21. ASSUME NEW t \in Transports, Die(t), UNCHANGED plan PROVE IInv'
  BY <1>0, <1>21 DEF Die, Kill, MayHappen
<1>22. ASSUME NEW w \in Windows, Installation(w), UNCHANGED plan PROVE IInv'
  BY <1>0, <1>22, InstallationKeeps
<1>23. ASSUME NEW w \in Windows, StartEnds(w), UNCHANGED plan PROVE IInv'
  BY <1>0, <1>23 DEF StartEnds
<1>24. CASE UNCHANGED vars
  BY <1>0, <1>24 DEF vars
<1>. QED
  BY <1>1, <1>2, <1>3, <1>4, <1>5, <1>6, <1>7, <1>8, <1>9, <1>10, <1>11,
     <1>12, <1>13, <1>14, <1>15, <1>16, <1>17, <1>18, <1>19, <1>20, <1>21,
     <1>22, <1>23, <1>24 DEF Next, Step, WindowStep, CleanStep, GoStep,
     Installation

(* Whatever ends a transport in a peaceful course of events ends one that no  *)
(* client of a window goes through                                           *)
LEMMA UsedStep ==
  ASSUME IInv, [Next]_vars, Peaceful,
         NEW w \in Windows, client[w] \in bound, client'[w] = client[w]
  PROVE  client[w] \in bound'
<1>. DEFINE Used == client[w]
<1>1. Used # NoTransport /\ Used \in live /\ Used \in beats[w]
  BY BoundsAssumption DEF IInv, TInv, TypeOK, ClientBeats, NoTransport,
     Transports, Overtaken, GivenUp
<1>2. ASSUME NEW v \in Windows, Reap(v) PROVE Used \in bound'
  <2>1. found[v] \notin live
    BY <1>2 DEF IInv, GivenUp, Reap
  <2>. QED BY <1>1, <1>2, <2>1 DEF Reap, Kill
<1>3. ASSUME NEW v \in Windows, CleanKill(v) PROVE FALSE
  <2>1. PICK t \in bound : <<"kill", t>> \in clean[v]
    BY <1>3 DEF CleanKill
  <2>2. t \notin live
    BY <2>1 DEF IInv, GivenUp
  <2>. QED BY <2>1, <2>2 DEF IInv, TInv, TypeOK
<1>4. ASSUME NEW t \in Transports, IdleOut(t) PROVE Used \in bound'
  <2>1. t # Used
    BY <1>1, <1>4 DEF IdleOut
  <2>. QED BY <1>4, <2>1 DEF IdleOut, Kill
<1>5. ASSUME NEW t \in Transports, Die(t) PROVE FALSE
  BY <1>5 DEF Die, MayHappen, Peaceful
<1>6. ASSUME NEW v \in Windows,
             \/ Begin(v) \/ ReadMeta(v) \/ Healthy(v) \/ Unhealthy(v)
             \/ HealthSlips(v) \/ Ship(v) \/ Move(v) \/ Launch(v) \/ Poll(v)
             \/ StartFails(v) \/ StartEnds(v) \/ Unreachable(v) \/ TearDown(v)
             \/ CleanRemove(v) \/ CleanLost(v) \/ Crash(v)
      PROVE  Used \in bound'
  BY <1>6 DEF Begin, ReadMeta, Healthy, Unhealthy, HealthSlips, Ship, Move,
     Launch,
     Poll, StartFails, StartThrows, StartEnds, Unreachable, TearDown, CleanRemove, CleanLost, Crash,
     Adopt, Goto, goVars
<1>7. ASSUME NEW v \in Windows, Installation(v) PROVE Used \in bound'
  BY <1>7, InstallationKeeps DEF IInv, goVars
<1>8. ASSUME NEW t \in Transports, Bind(t) \/ WriteMeta(t) PROVE Used \in bound'
  BY <1>8 DEF Bind, WriteMeta
<1>9. CASE UNCHANGED vars
  BY <1>9 DEF vars, goVars
<1>. QED
  BY <1>2, <1>3, <1>4, <1>5, <1>6, <1>7, <1>8, <1>9
     DEF Next, Step, WindowStep, CleanStep, GoStep, Installation

(* The invariant holds throughout *)
LEMMA InvAlways == Spec => []IInv
<1>1. Init => IInv
  <2>1. Init => TInv
    BY InitTypes
  <2>2. ASSUME Init
        PROVE  RecordedListen /\ KnownRecorded /\ ClientBeats /\ GivenUp
    BY <2>2 DEF Init, RecordedListen, KnownRecorded, ClientBeats, GivenUp, Known
  <2>. QED BY <2>1, <2>2 DEF IInv
<1>. QED BY <1>1, InvStep, PTL DEF Spec

(* Setups of other windows leave a transport alone that a window uses, for    *)
(* any number of windows and setups, crashes of windows and failed downloads  *)
(* included (index.ts:1161-1207, 79-82)                                      *)
THEOREM UsedIsKept == Spec => UsedStaysUp
<1>1. IInv /\ [Next]_vars =>
        [\A w \in Windows :
           Peaceful /\ client[w] \in bound /\ client'[w] = client[w]
             => client[w] \in bound']_vars
  BY UsedStep
<1>. QED BY <1>1, InvAlways, PTL DEF Spec, UsedStaysUp

-----------------------------------------------------------------------------
(* UpMeansWhole: an extraction that nobody cuts off runs to its end, and a   *)
(* file that is missing although node is there is still to be written by one *)

Verified == \A w \in Windows : pc[w] = "extract" => cache = "good"
Streaming ==
  \A w \in Windows : at[w] # "none" => via[w] = client[w] /\ client[w] \in bound
ToBeWritten ==
  nodeThere =>
    /\ "node" \in files \/ \E w \in Windows : at[w] = "node"
    /\ "rest" \in files \/ \E w \in Windows : at[w] # "none"
Trusted ==
  \A w \in Windows : "install" \in seen[w] \/ pc[w] \in {"agent", "up"} => nodeThere

Whole == Verified /\ Streaming /\ ToBeWritten /\ Trusted
WholeInv == Uncut => Whole

(* What is not a step of the installation leaves it alone *)
Elsewhere(w) ==
  \/ Begin(w) \/ ReadMeta(w) \/ Healthy(w) \/ Unhealthy(w) \/ HealthSlips(w)
  \/ Reap(w) \/ Ship(w) \/ Move(w) \/ Launch(w) \/ Poll(w) \/ StartFails(w)
  \/ StartEnds(w) \/ Unreachable(w) \/ TearDown(w) \/ CleanStep(w)

LEMMA ElsewhereKeeps ==
  ASSUME TInv, NEW w \in Windows, Elsewhere(w)
  PROVE  /\ UNCHANGED <<extractVars, cache>>
         /\ \A v \in Windows : pc'[v] = "extract" => pc[v] = "extract"
         /\ \A v \in Windows : pc'[v] \in {"agent", "up"} =>
              pc[v] \in {"agent", "up"} \/ "install" \in seen[v]
         /\ \A v \in Windows : "install" \in seen'[v] => "install" \in seen[v] \/ nodeThere
<1>. USE DEF TInv, TypeOK, setupVars, startVars, clientVars, extractVars, hostVars, goVars
<1>1. CASE Begin(w)
  BY <1>1 DEF Begin
<1>2. CASE Healthy(w) \/ Poll(w)
  BY <1>2 DEF Healthy, Poll, Adopt, AfterTransport
<1>3. CASE StartFails(w) \/ StartEnds(w) \/ TearDown(w)
  BY <1>3 DEF StartFails, StartThrows, StartEnds, TearDown
<1>4. CASE ReadMeta(w) \/ Unhealthy(w) \/ HealthSlips(w) \/ Unreachable(w)
  BY <1>4 DEF ReadMeta, Unhealthy, HealthSlips, Unreachable, Goto
<1>5. CASE Reap(w) \/ Ship(w) \/ Move(w) \/ Launch(w)
  BY <1>5 DEF Reap, Ship, Move, Launch, Goto
<1>6. CASE CleanStep(w)
  BY <1>6 DEF CleanStep, CleanKill, CleanRemove, CleanLost
<1>. QED BY <1>1, <1>2, <1>3, <1>4, <1>5, <1>6 DEF Elsewhere

(* The client of a window that extracts is not replaced: its transport       *)
(* listens, so no restart is under way                                       *)
LEMMA ClientKept ==
  ASSUME IInv, Uncut, Whole, [Next]_vars, NEW w \in Windows, at[w] # "none"
  PROVE  client'[w] = client[w] /\ client[w] \in bound'
<1>1. client[w] \in bound /\ client[w] \in live /\ pc[w] = "extract" /\ Peaceful
  BY DEF IInv, TInv, TypeOK, AtExtract, Whole, Streaming, Uncut, Peaceful
<1>2. start[w] = "none"
  BY <1>1 DEF IInv, GivenUp
<1>3. client'[w] = client[w]
  <2>. USE DEF TInv, TypeOK, setupVars, startVars, clientVars, goVars
  <2>0. TInv /\ client \in [Windows -> Transports \cup {NoTransport}]
    BY DEF IInv
  <2>1. ASSUME NEW v \in Windows, Elsewhere(v) PROVE client'[w] = client[w]
    <3>1. CASE v = w
      <4>1. ~Begin(w) /\ ~Healthy(w) /\ ~Poll(w) /\ ~StartEnds(w) /\ ~TearDown(w)
        BY <1>1, <1>2 DEF Begin, Healthy, Poll, StartEnds, Overtaken, TearDown
      <4>. QED BY <2>1, <3>1, <4>1
             DEF Elsewhere, ReadMeta, Unhealthy, HealthSlips, Reap, Ship, Move, Launch,
                 StartFails, StartThrows, Unreachable, CleanStep, CleanKill, CleanRemove, CleanLost, Goto
    <3>2. CASE v # w
      <4>1. CASE Healthy(v) \/ Poll(v)
        BY <2>0, <3>2, <4>1 DEF Healthy, Poll, Adopt
      <4>2. CASE Begin(v) \/ StartEnds(v) \/ TearDown(v)
        BY <2>0, <3>2, <4>2 DEF Begin, StartEnds, TearDown
      <4>3. CASE ~(\/ Healthy(v) \/ Poll(v) \/ Begin(v) \/ StartEnds(v) \/ TearDown(v))
        BY <2>1, <4>3
           DEF Elsewhere, ReadMeta, Unhealthy, HealthSlips, Reap, Ship, Move, Launch,
               StartFails, StartThrows, Unreachable, CleanStep, CleanKill, CleanRemove,
               CleanLost, Goto
      <4>. QED BY <4>1, <4>2, <4>3
    <3>. QED BY <3>1, <3>2
  <2>2. ASSUME NEW v \in Windows, Installation(v) PROVE client'[w] = client[w]
    BY <2>0, <2>2, InstallationKeeps
  <2>3. ASSUME NEW v \in Windows PROVE ~Crash(v)
    BY DEF Crash, Uncut, MayHappen
  <2>4. ASSUME NEW t \in Transports, GoStep(t) \/ Die(t) PROVE client' = client
    BY <2>4 DEF GoStep, Die, Bind, WriteMeta, IdleOut, windowVars
  <2>5. CASE UNCHANGED vars
    BY <2>5 DEF vars
  <2>. QED BY <2>1, <2>2, <2>3, <2>4, <2>5 DEF Next, Step, WindowStep, Elsewhere, Installation
<1>. QED BY <1>1, <1>3, UsedStep

LEMMA WholeStep ==
  ASSUME IInv, WholeInv, [Next]_vars
  PROVE  WholeInv'
<1>. SUFFICES ASSUME Uncut' PROVE Whole'
  BY DEF WholeInv
<1>0. plan' = plan /\ Uncut /\ Whole
  BY DEF Next, vars, WholeInv, Uncut
<1>t. TInv /\ TInv'
  BY TypeStep DEF IInv
<1>s. ASSUME NEW w \in Windows, at[w] # "none"
      PROVE  client'[w] = client[w] /\ client[w] \in bound' /\ via[w] = client[w]
  BY <1>0, <1>s, ClientKept DEF Whole, Streaming
<1>1. ASSUME UNCHANGED <<extractVars, cache>>,
             \A v \in Windows : pc'[v] = "extract" => pc[v] = "extract",
             \A v \in Windows : pc'[v] \in {"agent", "up"} =>
               pc[v] \in {"agent", "up"} \/ "install" \in seen[v],
             \A v \in Windows : "install" \in seen'[v] => "install" \in seen[v] \/ nodeThere
      PROVE  Whole'
  <2>1. Verified' /\ Trusted' /\ ToBeWritten'
    BY <1>0, <1>1 DEF Whole, Verified, Trusted, ToBeWritten, extractVars
  <2>2. Streaming'
    BY <1>1, <1>s DEF Streaming, extractVars
  <2>. QED BY <2>1, <2>2 DEF Whole
<1>2. ASSUME NEW w \in Windows, Elsewhere(w) PROVE Whole'
  BY <1>t, <1>1, <1>2, ElsewhereKeeps
<1>3. ASSUME NEW w \in Windows, Installation(w) PROVE Whole'
  <2>. USE DEF TInv, TypeOK, extractVars, hostVars, setupVars
  <2>1. /\ pc \in [Windows -> SettingUp \cup {"idle", "up", "failed"}]
        /\ at \in [Windows -> Files \cup {"none"}]
        /\ via \in [Windows -> Transports \cup {NoTransport}]
    BY <1>t
  <2>2. client' = client /\ bound' = bound
    BY <1>t, <1>3, InstallationKeeps DEF clientVars, goVars
  <2>3. CASE Bootstrap(w) \/ Download(w) \/ DownloadFails(w)
    BY <1>0, <1>s, <2>1, <2>2, <2>3
       DEF Bootstrap, Download, DownloadFails, Continue, Fetched, Uncut, MayHappen,
           Whole, Verified, Streaming, ToBeWritten, Trusted
  <2>4. CASE BeginExtract(w)
    BY <1>0, <1>s, <1>t, <2>1, <2>2, <2>4
       DEF BeginExtract, Continue, Route, HasClient, Installing,
           Whole, Verified, Streaming, ToBeWritten, Trusted
  <2>5. CASE Extract(w)
    BY <1>0, <1>s, <1>t, <2>1, <2>2, <2>5
       DEF Extract, Continue, AtExtract, Whole, Verified, Streaming, ToBeWritten, Trusted
  <2>6. CASE Extracted(w)
    BY <1>0, <1>s, <1>t, <2>1, <2>2, <2>6
       DEF Extracted, Continue, Whole, Verified, Streaming, ToBeWritten, Trusted
  <2>7. ~ExtractFails(w)
    BY <1>0, <1>t DEF ExtractFails, AtExtract, Whole, Verified, Streaming
  <2>8. CASE NodeBusy(w) \/ Verify(w) \/ ReportAgent(w) \/ SetupFails(w)
    BY <1>0, <1>s, <2>1, <2>2, <2>8
       DEF NodeBusy, Verify, ReportAgent, SetupFails, Continue,
           Whole, Verified, Streaming, ToBeWritten, Trusted
  <2>. QED BY <1>3, <2>3, <2>4, <2>5, <2>6, <2>7, <2>8 DEF Installation
<1>4. ASSUME NEW w \in Windows PROVE ~Crash(w)
  BY <1>0 DEF Crash, Uncut, MayHappen
<1>5. ASSUME NEW t \in Transports, GoStep(t) \/ Die(t) PROVE Whole'
  <2>1. UNCHANGED <<extractVars, cache, pc, seen>>
    BY <1>5 DEF GoStep, Die, Bind, WriteMeta, IdleOut, windowVars, hostVars, setupVars
  <2>. QED BY <1>1, <2>1
<1>6. CASE UNCHANGED vars
  BY <1>1, <1>6 DEF vars, hostVars, setupVars
<1>. QED BY <1>2, <1>3, <1>4, <1>5, <1>6 DEF Next, Step, WindowStep, Elsewhere, Installation

(* Every window that is connected has a whole install under it once no       *)
(* extraction is under way, for any number of windows that overlap           *)
(* (install.ts:97-127, 136-181): each file a later extraction truncates is   *)
(* written again by that one, and the probe's `-f node` lags behind nothing  *)
(* else                                                                      *)
THEOREM UpIsWhole == Spec => []UpMeansWhole
<1>1. Init => WholeInv
  BY DEF Init, WholeInv, Whole, Verified, Streaming, ToBeWritten, Trusted
<1>2. IInv /\ WholeInv /\ [Next]_vars => WholeInv'
  BY WholeStep
<1>3. IInv /\ WholeInv => UpMeansWhole
  BY DEF WholeInv, Whole, Trusted, ToBeWritten, UpMeansWhole, IInv, TInv, TypeOK, Files
<1>. QED BY <1>1, <1>2, <1>3, InvAlways, PTL DEF Spec

=============================================================================
