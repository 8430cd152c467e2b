--------------------------- MODULE MqttLinkProofs ---------------------------
(* A proof about MqttLink, for every set of brokers, passwords, handlers   *)
(* and publishers and every bound.                                         *)
EXTENDS MqttLink, TLAPS

-----------------------------------------------------------------------------
(* The inductive invariant                                                 *)

RunSteps == {"connect", "wait", "select", "teardown", "apply"}

Typed ==
  /\ saved \in Settings /\ live \in Settings /\ taken \in Settings
  /\ queue \in Settings \cup {None}
  /\ run \in RunSteps
  /\ put \in [Handlers -> Puts]

\* Requests are made one after the other.
OneRequest == \A h, o \in Handlers : put[h].pc # "idle" /\ put[o].pc # "idle" => h = o

\* h has saved its settings and not yet handed them to Run.
Handing(h) == put[h].pc \in {"drain", "send"}

\* The settings the bridge comes to use, if nothing new is asked of it: those in
\* the channel before those Run has taken from it before those it works with.
Coming ==
  IF queue # None THEN queue
  ELSE IF run \in {"teardown", "apply"} THEN taken ELSE live

\* They are those in the file, as are those a handler has yet to hand over.
ComingIsSaved ==
  /\ \A h \in Handlers : Handing(h) => put[h].next = saved
  /\ (\A h \in Handlers : ~Handing(h)) => Coming = saved

IInv == Typed /\ OneRequest /\ ComingIsSaved

-----------------------------------------------------------------------------
(* Every step keeps the invariant                                          *)

LEMMA NoPutIsIdle == Settings # {} => NoPut \in Puts /\ NoPut.pc = "idle"
  BY DEF NoPut, Puts

\* A new process has nothing to hand over and works with what is in the file.
LEMMA FreshKeeps ==
  ASSUME IInv, FreshProcess(saved), saved' = saved
  PROVE  IInv'
<1>1. NoPut \in Puts /\ NoPut.pc = "idle"
  BY NoPutIsIdle DEF IInv, Typed
<1>2. \A h \in Handlers : put'[h] = NoPut
  BY DEF FreshProcess
<1>3. Typed'
  BY <1>1 DEF IInv, Typed, FreshProcess, RunSteps
<1>4. OneRequest'
  BY <1>1, <1>2 DEF OneRequest
<1>5. \A h \in Handlers : ~Handing(h)'
  BY <1>1, <1>2 DEF Handing
<1>6. Coming' = saved
  BY DEF Coming, FreshProcess
<1> QED
  BY <1>3, <1>4, <1>5, <1>6 DEF IInv, ComingIsSaved

LEMMA InitHolds == Init => IInv
<1> SUFFICES ASSUME Init PROVE IInv
  OBVIOUS
<1>1. NoPut \in Puts /\ NoPut.pc = "idle"
  BY NoPutIsIdle DEF Init
<1>2. \A h \in Handlers : put[h] = NoPut
  BY DEF Init
<1>3. Typed
  BY <1>1 DEF Init, Typed, RunSteps
<1>4. OneRequest /\ \A h \in Handlers : ~Handing(h)
  BY <1>1, <1>2 DEF OneRequest, Handing
<1>5. Coming = saved
  BY DEF Coming, Init
<1> QED
  BY <1>3, <1>4, <1>5 DEF IInv, ComingIsSaved

\* h's request is at another step; the others are where they were.
PutTo(h, p) == put' \in [Handlers -> Puts] /\ put'[h] = p /\ \A o \in Handlers \ {h} : put'[o] = put[o]

LEMMA PutMoves ==
  ASSUME Typed, NEW h \in Handlers, NEW p \in Puts, put' = [put EXCEPT ![h] = p]
  PROVE  PutTo(h, p)
  BY DEF Typed, PutTo

LEMMA PutSteps ==
  ASSUME Typed, NEW h \in Handlers, NEW s \in {"drain", "send"}, put' = [put EXCEPT ![h].pc = s]
  PROVE  PutTo(h, [pc |-> s, next |-> put[h].next])
<1>1. put[h] \in Puts
  BY DEF Typed
<1>2. put'[h] = [put[h] EXCEPT !.pc = s]
  BY DEF Typed
<1>3. put'[h] = [pc |-> s, next |-> put[h].next] /\ put'[h] \in Puts
  BY <1>1, <1>2 DEF Puts
<1> QED
  BY <1>3 DEF Typed, PutTo

LEMMA HandlersKeep ==
  ASSUME IInv, Serial, NEW h \in Handlers, Handler(h) \/ \E i \in Inputs : BeginPut(h, i)
  PROVE  IInv'
<1>1. NoPut \in Puts /\ NoPut.pc = "idle" /\ None \notin Settings
  BY NoPutIsIdle, NoneAssumption DEF IInv, Typed
<1>2. put[h].next \in Settings
  BY DEF IInv, Typed, Puts
<1>3. ASSUME NEW i \in Inputs, BeginPut(h, i) PROVE IInv'
  <2>1. Merged(i, live) \in Settings
    <3>1. CASE i.pw = Keep
      <4>1. Merged(i, live) = [i EXCEPT !.pw = live.pw]
        BY <3>1 DEF Merged
      <4> QED
        BY <4>1 DEF Inputs, Settings, IInv, Typed
    <3>2. CASE i.pw # Keep
      <4>1. Merged(i, live) = [i EXCEPT !.pw = i.pw]
        BY <3>2 DEF Merged
      <4> QED
        BY <3>2, <4>1 DEF Inputs, Settings
    <3> QED
      BY <3>1, <3>2
  <2>2. [pc |-> "save", next |-> Merged(i, live)] \in Puts
    BY <2>1 DEF Puts
  <2>3. PutTo(h, [pc |-> "save", next |-> Merged(i, live)])
    BY <1>3, <2>2, PutMoves DEF BeginPut, IInv
  <2>4. Typed'
    BY <1>3, <2>3 DEF BeginPut, runv, PutTo, IInv, Typed
  <2>5. OneRequest'
    BY <1>3, <2>3 DEF BeginPut, PutTo, OneRequest
  <2>6. \A o \in Handlers : Handing(o)' <=> FALSE
    BY <1>3, <2>3 DEF BeginPut, PutTo, Handing
  <2>7. \A o \in Handlers : ~Handing(o)
    BY <1>3 DEF BeginPut, Handing
  <2>8. Coming' = Coming /\ saved' = saved
    BY <1>3 DEF BeginPut, runv, Coming
  <2> QED
    BY <2>4, <2>5, <2>6, <2>7, <2>8 DEF IInv, ComingIsSaved
<1>4. CASE Save(h)
  <2>1. /\ put[h].pc = "save" /\ UNCHANGED <<queue, run, taken, live>>
        /\ \A o \in Handlers : ~Handing(o)
    BY <1>4 DEF Save, PutStep, runv, IInv, OneRequest, Handing
  <2>2. CASE saved' = put[h].next /\ put' = [put EXCEPT ![h].pc = "drain"]
    <3>1. PutTo(h, [pc |-> "drain", next |-> put[h].next])
      BY <2>2, PutSteps DEF IInv
    <3>2. Typed'
      BY <1>2, <2>1, <2>2, <3>1 DEF IInv, Typed, PutTo
    <3>3. OneRequest'
      BY <2>1, <3>1 DEF IInv, OneRequest, PutTo
    <3>4. ComingIsSaved'
      BY <2>1, <2>2, <3>1 DEF ComingIsSaved, PutTo, Handing
    <3> QED
      BY <3>2, <3>3, <3>4 DEF IInv
  <2>3. CASE saved' = saved /\ put' = [put EXCEPT ![h] = NoPut]
    <3>1. PutTo(h, NoPut)
      BY <1>1, <2>3, PutMoves DEF IInv
    <3>2. Typed'
      BY <2>1, <2>3, <3>1 DEF IInv, Typed, PutTo
    <3>3. OneRequest'
      BY <1>1, <3>1 DEF IInv, OneRequest, PutTo
    <3>4. ComingIsSaved'
      BY <1>1, <2>1, <2>3, <3>1 DEF IInv, ComingIsSaved, PutTo, Handing, Coming
    <3> QED
      BY <3>2, <3>3, <3>4 DEF IInv
  <2> QED
    BY <1>4, <2>2, <2>3 DEF Save
<1>5. CASE Drain(h)
  <2>1. /\ put[h].pc = "drain" /\ queue' = None /\ UNCHANGED <<saved, run, taken, live>>
        /\ put' = [put EXCEPT ![h].pc = "send"]
    BY <1>5 DEF Drain, PutStep, runv
  <2>2. PutTo(h, [pc |-> "send", next |-> put[h].next])
    BY <2>1, PutSteps DEF IInv
  <2>3. Typed'
    BY <2>1, <2>2 DEF IInv, Typed, PutTo
  <2>4. OneRequest'
    BY <2>1, <2>2 DEF IInv, OneRequest, PutTo
  <2>5. ComingIsSaved'
    BY <2>1, <2>2 DEF IInv, ComingIsSaved, PutTo, Handing
  <2> QED
    BY <2>3, <2>4, <2>5 DEF IInv
<1>6. CASE Send(h)
  <2>1. /\ put[h].pc = "send" /\ queue' = put[h].next /\ UNCHANGED <<saved, run, taken, live>>
        /\ put' = [put EXCEPT ![h] = NoPut]
    BY <1>6 DEF Send, PutStep, runv
  <2>2. PutTo(h, NoPut)
    BY <1>1, <2>1, PutMoves DEF IInv
  <2>3. Typed'
    BY <1>2, <2>1, <2>2 DEF IInv, Typed, PutTo
  <2>4. OneRequest'
    BY <1>1, <2>2 DEF IInv, OneRequest, PutTo
  <2>5. Coming' = saved'
    BY <1>1, <1>2, <2>1 DEF IInv, ComingIsSaved, Handing, Coming
  <2>6. \A o \in Handlers : ~Handing(o)'
    BY <1>1, <2>1, <2>2 DEF IInv, OneRequest, PutTo, Handing
  <2> QED
    BY <2>3, <2>4, <2>5, <2>6 DEF IInv, ComingIsSaved
<1> QED
  BY <1>3, <1>4, <1>5, <1>6 DEF Handler

\* Run passes on what it has taken.
LEMMA RunKeeps ==
  ASSUME IInv, Run
  PROVE  IInv'
<1>1. saved' = saved /\ put' = put
  BY DEF Run, RunStep, Connect, Connected, Receive, Teardown, Adopt
<1>2. Coming' = Coming /\ Typed'
  <2>1. CASE Connect \/ Connected
    BY <2>1 DEF Connect, Connected, RunStep, Coming, IInv, Typed, RunSteps
  <2>2. CASE Receive
    BY <2>2, NoneAssumption DEF Receive, RunStep, Coming, IInv, Typed, RunSteps
  <2>3. CASE Teardown
    BY <2>3 DEF Teardown, RunStep, Coming, IInv, Typed, RunSteps
  <2>4. CASE Adopt
    BY <2>4 DEF Adopt, RunStep, Coming, IInv, Typed, RunSteps
  <2> QED
    BY <2>1, <2>2, <2>3, <2>4 DEF Run
<1> QED
  BY <1>1, <1>2 DEF IInv, OneRequest, ComingIsSaved, Handing

LEMMA Untouched ==
  ASSUME IInv, UNCHANGED <<saved, live, taken, queue, run, put>>
  PROVE  IInv'
  BY DEF IInv, Typed, OneRequest, ComingIsSaved, Handing, Coming

LEMMA StepHolds == IInv /\ Serial /\ [Next]_vars => IInv'
<1> SUFFICES ASSUME IInv, Serial, [Next]_vars PROVE IInv'
  OBVIOUS
<1>1. CASE Run
  BY <1>1, RunKeeps
<1>2. CASE Stop
  BY <1>2, FreshKeeps DEF Stop, Respawn
<1>3. CASE Signal
  BY <1>3, Untouched DEF Signal, runv
<1>4. ASSUME NEW h \in Handlers, Handler(h) \/ \E i \in Inputs : BeginPut(h, i) PROVE IInv'
  BY <1>4, HandlersKeep
<1>5. ASSUME NEW g \in Gens, Accept(g) \/ Lose(g) PROVE IInv'
  BY <1>5, Untouched DEF Accept, Lose, runv
<1>6. ASSUME NEW g \in Gens, Hook(g) PROVE IInv'
  <2>1. CASE HookFlag(g) \/ HookAnnounce(g)
    BY <2>1, Untouched DEF HookFlag, HookAnnounce, HookStep, runv
  <2>2. CASE HookSubscribe(g)
    BY <2>2, Untouched, FreshKeeps DEF HookSubscribe, HookStep, runv
  <2> QED
    BY <1>6, <2>1, <2>2 DEF Hook
<1>7. ASSUME NEW p \in Publishers, PublishCheck(p) \/ PublishUse(p) PROVE IInv'
  BY <1>7, Untouched, FreshKeeps DEF PublishCheck, PublishUse, Respawn, runv
<1>8. CASE UNCHANGED vars
  BY <1>8, Untouched DEF vars, runv
<1> QED
  BY <1>1, <1>2, <1>3, <1>4, <1>5, <1>6, <1>7, <1>8 DEF Next

-----------------------------------------------------------------------------
(* The theorem                                                             *)

\* Requests made one after the other leave the bridge, once Run and the handlers
\* have nothing left to do, with the settings a restart would load, whatever panics,
\* stop requests and lost connections happen between their steps.
THEOREM SettledIsSaved == ASSUME Serial PROVE Spec => []SettledAgrees
<1>1. Init => IInv
  BY InitHolds
<1>2. IInv /\ [Next]_vars => IInv'
  BY StepHolds
<1>3. IInv => SettledAgrees
  BY DEF IInv, ComingIsSaved, Coming, Handing, SettledAgrees
<1> QED
  BY <1>1, <1>2, <1>3, PTL DEF Spec
=============================================================================
