------------------------------- MODULE CloudSim -------------------------------
(***************************************************************************)
(* The local stand-in for the vendor cloud: sessions and device settings.  *)
(*                                                                         *)
(* control_center connects to the simulator's MQTT endpoint.  A device     *)
(* setting is delivered by publishing it on the session and is then stored,*)
(* in memory and in properties.json; on every new session the stored       *)
(* settings are replayed, since nothing else keeps them over a restart of  *)
(* control_center.  One goroutine serves each connection; requests that    *)
(* set properties run beside them.                                         *)
(***************************************************************************)
EXTENDS Naturals, Sequences

CONSTANTS Props,      \* device settings
          Values,     \* their valid values
          Unset,      \* no value: not stored, not known to control_center
          Invalid,    \* a value the settings table rejects
          None,       \* no session, no connection
          Setters,    \* concurrent requests that set properties
          Ordered,    \* TRUE: control_center connects again only after the simulator has
                      \* served the SUBSCRIBE of the connection before
          MaxSets,    \* bound on the number of requests
          MaxFaults   \* bound on lost connections, restarts and failing saves

ASSUME SimAssumption ==
  /\ Props # {} /\ Unset \notin Values /\ Invalid \notin Values \cup {Unset}
  /\ Ordered \in BOOLEAN
  /\ MaxSets \in Nat
  /\ MaxFaults \in Nat
  /\ None \notin Nat

Conns == 1..(MaxFaults + 1)     \* the connections control_center makes, in order
Known == [Props -> Values \cup {Unset}]
Wanted == [Props -> Values \cup {Unset, Invalid}]
Nothing == [p \in Props |-> Unset]

VARIABLES
  session,   \* s.session: None or the connection to publish on
  store,     \* p.values
  disk,      \* properties.json
  handler,   \* handleMQTT of each connection: "none" before it, "done" after it
  replay,    \* the settings it replays
  target,    \* the connection it replays them on
  setter,    \* each request: step, settings still to do, the one being set, its connection
  app,       \* control_center: None or its connection
  conns,     \* connections so far
  inbox,     \* what each handler has yet to read: "subscribe", "end"
  outbox,    \* settings published on each connection and not yet read
  robot,     \* the settings control_center works with
  sent,      \* history: settings a publish of a setter has accepted
  sets,      \* requests so far
  faults     \* failures so far

link  == <<app, conns, inbox>>
hands == <<handler, replay, target>>
vars  == <<session, store, disk, hands, setter, link, outbox, robot, sent, sets, faults>>

Steps == {"none", "read", "all", "pick", "write", "done"}
Requests == [pc : {"idle", "loop", "pick", "write", "store"}, todo : Wanted,
             prop : Props, conn : Conns \cup {None}]
NoRequest == [pc |-> "idle", todo |-> Nothing, prop |-> CHOOSE p \in Props : TRUE, conn |-> None]

TypeOK ==
  /\ session \in Conns \cup {None}
  /\ store \in Known /\ disk \in Known /\ robot \in Known
  /\ handler \in [Conns -> Steps]
  /\ replay \in [Conns -> Known]
  /\ target \in [Conns -> Conns \cup {None}]
  /\ \A c \in Conns : handler[c] = "write" => target[c] # None
  /\ setter \in [Setters -> Requests]
  /\ \A s \in Setters : setter[s].pc = "write" => setter[s].conn # None
  /\ app \in Conns \cup {None} /\ conns \in 0..(MaxFaults + 1)
  /\ inbox \in [Conns -> Seq({"subscribe", "end"})]
  /\ outbox \in [Conns -> Seq(Known)]
  /\ sent \subseteq Props \X Values
  /\ sets \in Nat /\ faults \in Nat

Init ==
  /\ session = None
  /\ disk \in Known
  /\ store = disk
  /\ handler = [c \in Conns |-> "none"]
  /\ replay = [c \in Conns |-> Nothing]
  /\ target = [c \in Conns |-> None]
  /\ setter = [s \in Setters |-> NoRequest]
  /\ app = None
  /\ conns = 0
  /\ inbox = [c \in Conns |-> <<>>]
  /\ outbox = [c \in Conns |-> <<>>]
  /\ robot = Nothing
  /\ sent = {<<p, store[p]>> : p \in {q \in Props : store[q] # Unset}}
  /\ sets = 0
  /\ faults = 0

Fault == faults < MaxFaults /\ faults' = faults + 1

\* A message on top of what is known.
Over(m, known) == [p \in Props |-> IF m[p] = Unset THEN known[p] ELSE m[p]]

-----------------------------------------------------------------------------
(* publishProperties, on the connection picked before.                     *)

\* The write succeeds; nobody reads it when control_center has gone meanwhile.
Written(c, m) ==
  /\ handler[c] # "done"
  /\ outbox' = IF app = c THEN [outbox EXCEPT ![c] = Append(@, m)] ELSE outbox

\* The write fails: one of the two ends is closed.
NotWritten(c) == app # c /\ UNCHANGED outbox

-----------------------------------------------------------------------------
(* handleMQTT.                                                             *)

HandlerStep(c, at) ==
  /\ handler[c] = at
  /\ UNCHANGED <<store, disk, setter, app, conns, robot, sent, sets, faults>>

Goto(c, to) == handler' = [handler EXCEPT ![c] = to]

\* A SUBSCRIBE that names .../propertySet: the connection becomes the session.
ReadSubscribe(c) ==
  /\ HandlerStep(c, "read")
  /\ inbox[c] # <<>> /\ Head(inbox[c]) = "subscribe"
  /\ inbox' = [inbox EXCEPT ![c] = Tail(@)]
  /\ session' = c
  /\ Goto(c, "all")
  /\ UNCHANGED <<replay, target, outbox>>

\* Mutant of TakeAll: the settings are replayed only to the first session.
TakeAllOnce(c) ==
  /\ HandlerStep(c, "all")
  /\ replay' = [replay EXCEPT ![c] = store]
  /\ Goto(c, IF store = Nothing \/ c # 1 THEN "read" ELSE "pick")
  /\ UNCHANGED <<session, inbox, target, outbox>>

\* The stored settings are copied; with none there is nothing to replay.
TakeAll(c) ==
  /\ HandlerStep(c, "all")
  /\ replay' = [replay EXCEPT ![c] = store]
  /\ Goto(c, IF store = Nothing THEN "read" ELSE "pick")
  /\ UNCHANGED <<session, inbox, target, outbox>>

\* The replay looks the session up again, and fails if there is none.
PickForReplay(c) ==
  /\ HandlerStep(c, "pick")
  /\ target' = [target EXCEPT ![c] = session]
  /\ Goto(c, IF session = None THEN "read" ELSE "write")
  /\ UNCHANGED <<session, inbox, replay, outbox>>

WriteReplay(c) ==
  /\ HandlerStep(c, "write")
  /\ Written(target[c], replay[c]) \/ NotWritten(target[c])
  /\ Goto(c, "read")
  /\ UNCHANGED <<session, inbox, replay, target>>

\* Mutant of ReadEnd: whichever session there is, is cleared.
ReadEndOfAny(c) ==
  /\ HandlerStep(c, "read")
  /\ inbox[c] # <<>> /\ Head(inbox[c]) = "end"
  /\ inbox' = [inbox EXCEPT ![c] = Tail(@)]
  /\ session' = None
  /\ Goto(c, "done")
  /\ UNCHANGED <<replay, target, outbox>>

\* Mutant of ReadEnd: the session stays.
ReadEndAndKeep(c) ==
  /\ HandlerStep(c, "read")
  /\ inbox[c] # <<>> /\ Head(inbox[c]) = "end"
  /\ inbox' = [inbox EXCEPT ![c] = Tail(@)]
  /\ Goto(c, "done")
  /\ UNCHANGED <<session, replay, target, outbox>>

\* DISCONNECT, or the end of the stream: clearSession, if it is this connection's, and close.
ReadEnd(c) ==
  /\ HandlerStep(c, "read")
  /\ inbox[c] # <<>> /\ Head(inbox[c]) = "end"
  /\ inbox' = [inbox EXCEPT ![c] = Tail(@)]
  /\ session' = IF session = c THEN None ELSE session
  /\ Goto(c, "done")
  /\ UNCHANGED <<replay, target, outbox>>

Handler(c) ==
  ReadSubscribe(c) \/ TakeAll(c) \/ PickForReplay(c) \/ WriteReplay(c) \/ ReadEnd(c)

-----------------------------------------------------------------------------
(* PUT /settings, or a Home Assistant message for one setting.             *)

BeginSet(s, want) ==
  /\ setter[s].pc = "idle"
  /\ sets < MaxSets
  /\ sets' = sets + 1
  /\ setter' = [setter EXCEPT ![s] = [NoRequest EXCEPT !.pc = "loop", !.todo = want]]
  /\ UNCHANGED <<session, store, disk, hands, link, outbox, robot, sent, faults>>

SetterStep(s, at) ==
  /\ setter[s].pc = at
  /\ UNCHANGED <<session, hands, link, robot, sets>>

GiveUp(s) == setter' = [setter EXCEPT ![s] = NoRequest]

\* The next setting, in any order; a value that is not valid ends the request there.
Choose(s) ==
  /\ SetterStep(s, "loop")
  /\ \/ setter[s].todo = Nothing /\ GiveUp(s)
     \/ \E p \in Props :
          \/ setter[s].todo[p] = Invalid /\ GiveUp(s)
          \/ /\ setter[s].todo[p] \in Values
             /\ setter' = [setter EXCEPT ![s].pc = "pick", ![s].prop = p]
  /\ UNCHANGED <<store, disk, outbox, sent, faults>>

\* SetProperty: without a session nothing is set.
Pick(s) ==
  /\ SetterStep(s, "pick")
  /\ \/ session = None /\ GiveUp(s)
     \/ /\ session # None
        /\ setter' = [setter EXCEPT ![s].pc = "write", ![s].conn = session]
  /\ UNCHANGED <<store, disk, outbox, sent, faults>>

\* Mutant of Write: the value is stored although it was not written.
WriteIgnoringError(s) ==
  LET p == setter[s].prop  v == setter[s].todo[p] IN
  /\ SetterStep(s, "write")
  /\ setter' = [setter EXCEPT ![s].pc = "store"]
  /\ \/ /\ Written(setter[s].conn, [Nothing EXCEPT ![p] = v])
        /\ sent' = sent \cup {<<p, v>>}
     \/ NotWritten(setter[s].conn) /\ UNCHANGED sent
  /\ UNCHANGED <<store, disk, faults>>

\* The one setting is published on the session picked ...
Write(s) ==
  LET p == setter[s].prop  v == setter[s].todo[p] IN
  /\ SetterStep(s, "write")
  /\ \/ /\ Written(setter[s].conn, [Nothing EXCEPT ![p] = v])
        /\ sent' = sent \cup {<<p, v>>}
        /\ setter' = [setter EXCEPT ![s].pc = "store"]
     \/ NotWritten(setter[s].conn) /\ UNCHANGED sent /\ GiveUp(s)
  /\ UNCHANGED <<store, disk, faults>>

\* ... and then remembered, in memory first; the file is replaced by a rename, or the save
\* fails and the memory keeps the value.
Store(s) ==
  LET p == setter[s].prop IN
  /\ SetterStep(s, "store")
  /\ store' = [store EXCEPT ![p] = setter[s].todo[p]]
  /\ \/ /\ disk' = store'
        /\ setter' = [setter EXCEPT ![s].pc = "loop", ![s].todo[p] = Unset]
        /\ UNCHANGED faults
     \/ UNCHANGED disk /\ GiveUp(s) /\ Fault
  /\ UNCHANGED <<outbox, sent>>

Setter(s) == Choose(s) \/ Pick(s) \/ Write(s) \/ Store(s)

-----------------------------------------------------------------------------
(* control_center and the server process.                                  *)

\* control_center connects and subscribes; the accept loop starts a handler.
Connect ==
  /\ app = None
  /\ conns < MaxFaults + 1
  /\ Ordered => \A c \in Conns : /\ handler[c] \in {"none", "read", "done"}
                                 /\ \A i \in DOMAIN inbox[c] : inbox[c][i] = "end"
  /\ conns' = conns + 1
  /\ app' = conns'
  /\ inbox' = [inbox EXCEPT ![conns'] = <<"subscribe">>]
  /\ Goto(conns', "read")
  /\ UNCHANGED <<session, store, disk, replay, target, setter, outbox, robot, sent, sets, faults>>

Apply ==
  /\ app # None
  /\ outbox[app] # <<>>
  /\ robot' = Over(Head(outbox[app]), robot)
  /\ outbox' = [outbox EXCEPT ![app] = Tail(@)]
  /\ UNCHANGED <<session, store, disk, hands, setter, link, sent, sets, faults>>

\* The connection ends; if control_center itself restarts, its settings are lost.
Leave ==
  /\ app # None
  /\ Fault
  /\ app' = None
  /\ inbox' = [inbox EXCEPT ![app] = Append(@, "end")]
  /\ outbox' = [outbox EXCEPT ![app] = <<>>]
  /\ robot' \in {robot, Nothing}
  /\ UNCHANGED <<session, store, disk, hands, setter, conns, sent, sets>>

\* The server restarts: the settings come from the file, every connection is gone.
Restart ==
  /\ Fault
  /\ session' = None
  /\ store' = disk
  /\ handler' = [c \in Conns |-> IF c <= conns THEN "done" ELSE "none"]
  /\ setter' = [s \in Setters |-> NoRequest]
  /\ app' = None
  /\ inbox' = [c \in Conns |-> <<>>]
  /\ outbox' = [c \in Conns |-> <<>>]
  /\ UNCHANGED <<disk, replay, target, conns, robot, sent, sets>>

Next ==
  \/ \E c \in Conns : Handler(c)
  \/ \E s \in Setters : Setter(s) \/ \E w \in Wanted \ {Nothing} : BeginSet(s, w)
  \/ Connect \/ Apply \/ Leave \/ Restart

\* Goroutines run; control_center connects again and reads what it is sent.
Fairness ==
  /\ \A c \in Conns : WF_vars(Handler(c))
  /\ \A s \in Setters : WF_vars(Setter(s))
  /\ WF_vars(Connect) /\ WF_vars(Apply)

Spec == Init /\ [][Next]_vars /\ Fairness

-----------------------------------------------------------------------------
(* Properties.                                                             *)

\* A session is published on only while its handler still serves the connection: no
\* overlap of an old connection's end with a new one's start leaves a dead session behind.
SessionIsServed == session # None => handler[session] \notin {"none", "done"}

\* What is stored was accepted by a session: a setting never looks applied that was refused.
StoredWasSent == \A p \in Props : store[p] # Unset => <<p, store[p]>> \in sent

\* control_center connected for good, the simulator comes to publish on that connection.
SessionFound == <>[](app # None /\ session = app)

SettersIdle == \A s \in Setters : setter[s].pc = "idle"
Agrees == \A p \in Props : store[p] # Unset => robot[p] = store[p]

\* A session adopted after the last change brings control_center to the stored settings,
\* whatever was published, lost or half stored before.
ReplaySettles ==
  \A c \in Conns :
    (app = c /\ handler[c] = "all" /\ []SettersIdle) ~> (Agrees \/ app # c)
=============================================================================
