------------------------------- MODULE MqttLink -------------------------------
(***************************************************************************)
(* The bridge's link to the MQTT broker and its reconfiguration from the   *)
(* web UI.                                                                 *)
(*                                                                         *)
(* A PUT /config/mqtt handler saves the settings and hands them to the Run *)
(* goroutine through a channel of one; Run tears the old client down and   *)
(* connects a new one, and waits for the connection.  Beside them run the  *)
(* client's own callbacks (onConnect) and the goroutines that publish.     *)
(***************************************************************************)
EXTENDS Naturals, FiniteSets

CONSTANTS Brokers,     \* broker addresses a user may enter
          Reachable,   \* those that accept the connection
          NoBroker,    \* the empty address: MQTT is not configured
          Passwords,   \* passwords a user may enter
          Keep,        \* the empty password in a request: keep the one that is set
          None,        \* no client, no queued settings
          Handlers,    \* concurrent PUT /config/mqtt requests
          Publishers,  \* goroutines that publish beside Run (bursts, message handlers)
          Serial,      \* TRUE: a request is made only when no other is in progress
          MaxPuts,     \* bound on the number of requests
          MaxFaults    \* bound on lost connections, failing saves and signals

ASSUME LinkAssumption ==
  /\ Reachable \subseteq Brokers
  /\ NoBroker \notin Brokers
  /\ Keep \notin Passwords
  /\ Passwords # {}
  /\ Serial \in BOOLEAN
  /\ MaxPuts \in Nat
  /\ MaxFaults \in Nat

Settings == [broker : Brokers \cup {NoBroker}, pw : Passwords]
Inputs == [broker : Brokers \cup {NoBroker}, pw : Passwords \cup {Keep}]
Gens == 1..(MaxPuts + 1)      \* the clients one process may create

ASSUME NoneAssumption == None \notin Settings \cup Gens

VARIABLES
  saved,      \* the runtime settings file
  live,       \* the settings in b.cfg
  queue,      \* the channel b.reconfig: None or the settings in it
  run,        \* the Run goroutine: "connect", "wait", "select", "teardown", "apply"
  taken,      \* the settings applyMQTT works on
  client,     \* b.client: None or a generation
  gens,       \* clients created by this process
  conn,       \* each client: "none", "dialing", "up", "down", "closed"
  dials,      \* the broker it was made for
  hook,       \* its onConnect callback: "none", "flag", "announce", "subscribe"
  connected,  \* the flag behind MQTTConnected
  announced,  \* the brokers that hold the retained discovery messages
  put,        \* each handler: its step and the settings to apply
  publisher,  \* each publisher: "idle", or "checked": it has seen a client
  stopping,   \* SIGTERM or SIGINT was received
  puts,       \* requests so far
  faults      \* failures so far

clients == <<client, gens, conn, dials, hook>>
runv    == <<run, taken, live>>
vars    == <<saved, queue, runv, clients, connected, announced, put, publisher, stopping, puts, faults>>

Puts == [pc : {"idle", "save", "drain", "send"}, next : Settings]
NoPut == [pc |-> "idle", next |-> CHOOSE s \in Settings : TRUE]

TypeOK ==
  /\ saved \in Settings /\ live \in Settings /\ taken \in Settings
  /\ queue \in Settings \cup {None}
  /\ run \in {"connect", "wait", "select", "teardown", "apply"}
  /\ client \in Gens \cup {None} /\ gens \in 0..(MaxPuts + 1)
  /\ conn \in [Gens -> {"none", "dialing", "up", "down", "closed"}]
  /\ dials \in [Gens -> Brokers \cup {NoBroker}]
  /\ hook \in [Gens -> {"none", "flag", "announce", "subscribe"}]
  /\ connected \in BOOLEAN /\ stopping \in BOOLEAN
  /\ announced \subseteq Brokers
  /\ put \in [Handlers -> Puts]
  /\ publisher \in [Publishers -> {"idle", "checked"}]
  /\ puts \in Nat /\ faults \in Nat

Fault == faults < MaxFaults /\ faults' = faults + 1

\* What config.Load and hass.New set up from the settings file.
FreshProcess(s) ==
  /\ live' = s
  /\ taken' = s
  /\ queue' = None
  /\ run' = "connect"
  /\ client' = None
  /\ gens' = 0
  /\ conn' = [g \in Gens |-> "none"]
  /\ dials' = [g \in Gens |-> NoBroker]
  /\ hook' = [g \in Gens |-> "none"]
  /\ connected' = FALSE
  /\ put' = [h \in Handlers |-> NoPut]
  /\ publisher' = [p \in Publishers |-> "idle"]
  /\ stopping' = FALSE

Init ==
  /\ saved \in Settings
  /\ live = saved
  /\ taken = saved
  /\ queue = None
  /\ run = "connect"
  /\ client = None
  /\ gens = 0
  /\ conn = [g \in Gens |-> "none"]
  /\ dials = [g \in Gens |-> NoBroker]
  /\ hook = [g \in Gens |-> "none"]
  /\ connected = FALSE
  /\ announced = {}
  /\ put = [h \in Handlers |-> NoPut]
  /\ publisher = [p \in Publishers |-> "idle"]
  /\ stopping = FALSE
  /\ puts = 0
  /\ faults = 0

\* The process ends and the boot loop starts it again.
Respawn == FreshProcess(saved) /\ UNCHANGED <<saved, announced, puts>>

-----------------------------------------------------------------------------
(* PUT /config/mqtt.                                                       *)

\* The settings a request asks for, on top of the current ones.
Merged(input, cur) ==
  [input EXCEPT !.pw = IF input.pw = Keep THEN cur.pw ELSE input.pw]

BeginPut(h, input) ==
  /\ put[h].pc = "idle"
  /\ Serial => \A o \in Handlers : put[o].pc = "idle"
  /\ puts < MaxPuts
  /\ puts' = puts + 1
  /\ put' = [put EXCEPT ![h] = [pc |-> "save", next |-> Merged(input, live)]]
  /\ UNCHANGED <<saved, queue, runv, clients, connected, announced, publisher, stopping, faults>>

PutStep(h, at) ==
  /\ put[h].pc = at
  /\ UNCHANGED <<runv, clients, connected, announced, publisher, stopping, puts>>

\* SaveRuntime replaces the file by a rename.
Save(h) ==
  /\ PutStep(h, "save")
  /\ \/ saved' = put[h].next /\ put' = [put EXCEPT ![h].pc = "drain"] /\ UNCHANGED faults
     \/ UNCHANGED saved /\ put' = [put EXCEPT ![h] = NoPut] /\ Fault
  /\ UNCHANGED queue

\* Mutant of Drain: a full channel is left alone and the new settings are dropped.
DrainNot(h) ==
  /\ PutStep(h, "drain")
  /\ put' = IF queue = None THEN [put EXCEPT ![h].pc = "send"] ELSE [put EXCEPT ![h] = NoPut]
  /\ UNCHANGED <<queue, saved, faults>>

\* Reconfigure: settings that wait in the channel are dropped ...
Drain(h) ==
  /\ PutStep(h, "drain")
  /\ queue' = None
  /\ put' = [put EXCEPT ![h].pc = "send"]
  /\ UNCHANGED <<saved, faults>>

\* ... and the new ones sent, which waits while the channel is full.
Send(h) ==
  /\ PutStep(h, "send")
  /\ queue = None
  /\ queue' = put[h].next
  /\ put' = [put EXCEPT ![h] = NoPut]
  /\ UNCHANGED <<saved, faults>>

-----------------------------------------------------------------------------
(* The Run goroutine.                                                      *)

RunStep(at) ==
  /\ run = at
  /\ UNCHANGED <<saved, announced, put, publisher, stopping, puts, faults>>

\* Mutant of Connect: the client is created and never told to connect.
ConnectNot ==
  /\ RunStep("connect")
  /\ \/ /\ live.broker = NoBroker
        /\ run' = "select"
        /\ UNCHANGED clients
     \/ /\ live.broker # NoBroker
        /\ gens' = gens + 1
        /\ client' = gens'
        /\ dials' = [dials EXCEPT ![gens'] = live.broker]
        /\ run' = "wait"
        /\ UNCHANGED <<conn, hook>>
  /\ UNCHANGED <<queue, live, taken, connected>>

\* connect: without a broker Run idles; otherwise it creates a client that keeps trying.
Connect ==
  /\ RunStep("connect")
  /\ \/ /\ live.broker = NoBroker
        /\ run' = "select"
        /\ UNCHANGED clients
     \/ /\ live.broker # NoBroker
        /\ gens' = gens + 1
        /\ client' = gens'
        /\ conn' = [conn EXCEPT ![gens'] = "dialing"]
        /\ dials' = [dials EXCEPT ![gens'] = live.broker]
        /\ run' = "wait"
        /\ UNCHANGED hook
  /\ UNCHANGED <<queue, live, taken, connected>>

\* tok.Wait returns once the connection has been up: with ConnectRetry no failure ends it.
Connected ==
  /\ RunStep("wait")
  /\ conn[client] \notin {"none", "dialing"}
  /\ run' = "select"
  /\ UNCHANGED <<queue, live, taken, clients, connected>>

\* The loop takes settings from the channel ...
Receive ==
  /\ RunStep("select")
  /\ queue # None
  /\ taken' = queue
  /\ queue' = None
  /\ run' = "teardown"
  /\ UNCHANGED <<live, clients, connected>>

\* ... and applyMQTT says goodbye, disconnects and forgets the client ...
Teardown ==
  /\ RunStep("teardown")
  /\ conn' = IF client = None THEN conn ELSE [conn EXCEPT ![client] = "closed"]
  /\ client' = None
  /\ run' = "apply"
  /\ UNCHANGED <<queue, live, taken, gens, dials, hook, connected>>

\* ... then adopts the settings and connects again.
Adopt ==
  /\ RunStep("apply")
  /\ connected' = FALSE
  /\ live' = taken
  /\ run' = "connect"
  /\ UNCHANGED <<queue, taken, clients>>

\* A stop request ends Run, and the process.
Stop ==
  /\ run = "select"
  /\ stopping
  /\ Respawn
  /\ UNCHANGED faults

Run == Connect \/ Connected \/ Receive \/ Teardown \/ Adopt

-----------------------------------------------------------------------------
(* The client's goroutines, the publishers, the outside world.             *)

\* A client that dials (for the first time or again) is accepted; onConnect is started.
Accept(g) ==
  /\ conn[g] \in {"dialing", "down"}
  /\ dials[g] \in Reachable
  /\ conn' = [conn EXCEPT ![g] = "up"]
  /\ hook' = [hook EXCEPT ![g] = "flag"]
  /\ UNCHANGED <<saved, queue, runv, client, gens, dials, connected, announced, put, publisher,
                 stopping, puts, faults>>

\* The connection is lost, and its handler runs before the client is up again.
Lose(g) ==
  /\ conn[g] = "up"
  /\ conn' = [conn EXCEPT ![g] = "down"]
  /\ connected' = FALSE
  /\ Fault
  /\ UNCHANGED <<saved, queue, runv, client, gens, dials, hook, announced, put, publisher,
                 stopping, puts>>

HookStep(g, at) ==
  /\ hook[g] = at
  /\ UNCHANGED <<saved, puts, faults>>

\* onConnect sets the flag ...
HookFlag(g) ==
  /\ HookStep(g, "flag")
  /\ connected' = TRUE
  /\ hook' = [hook EXCEPT ![g] = "announce"]
  /\ UNCHANGED <<queue, runv, client, gens, conn, dials, announced, put, publisher, stopping>>

\* ... publishes discovery through b.client, which need not be its own ...
HookAnnounce(g) ==
  /\ HookStep(g, "announce")
  /\ announced' = IF client # None /\ conn[client] = "up"
                  THEN announced \cup {dials[client]} ELSE announced
  /\ hook' = [hook EXCEPT ![g] = "subscribe"]
  /\ UNCHANGED <<queue, runv, client, gens, conn, dials, connected, put, publisher, stopping>>

\* ... and subscribes through b.client: a nil one panics.
HookSubscribe(g) ==
  /\ HookStep(g, "subscribe")
  /\ \/ /\ client # None
        /\ hook' = [hook EXCEPT ![g] = "none"]
        /\ UNCHANGED <<queue, runv, client, gens, conn, dials, connected, announced, put,
                       publisher, stopping>>
     \/ client = None /\ FreshProcess(saved) /\ UNCHANGED announced

\* publish looks at b.client ...
PublishCheck(p) ==
  /\ publisher[p] = "idle"
  /\ client # None
  /\ publisher' = [publisher EXCEPT ![p] = "checked"]
  /\ UNCHANGED <<saved, queue, runv, clients, connected, announced, put, stopping, puts, faults>>

\* ... and then uses it: if Run has cleared it in between, the process panics.
PublishUse(p) ==
  /\ publisher[p] = "checked"
  /\ \/ /\ client # None
        /\ publisher' = [publisher EXCEPT ![p] = "idle"]
        /\ UNCHANGED <<saved, queue, runv, clients, connected, announced, put, stopping, puts>>
     \/ client = None /\ Respawn
  /\ UNCHANGED faults

Signal ==
  /\ ~stopping
  /\ stopping' = TRUE
  /\ Fault
  /\ UNCHANGED <<saved, queue, runv, clients, connected, announced, put, publisher, puts>>

Handler(h) == Save(h) \/ Drain(h) \/ Send(h)
Hook(g) == HookFlag(g) \/ HookAnnounce(g) \/ HookSubscribe(g)

Next ==
  \/ Run \/ Stop \/ Signal
  \/ \E h \in Handlers : Handler(h) \/ \E i \in Inputs : BeginPut(h, i)
  \/ \E g \in Gens : Accept(g) \/ Lose(g) \/ Hook(g)
  \/ \E p \in Publishers : PublishCheck(p) \/ PublishUse(p)

\* Every goroutine that can run does, select overlooks no ready case for ever, and a broker
\* that is reachable accepts.
Fairness ==
  /\ WF_vars(Run) /\ WF_vars(Stop)
  /\ \A h \in Handlers : WF_vars(Handler(h))
  /\ \A g \in Gens : WF_vars(Accept(g)) /\ WF_vars(Hook(g))
  /\ \A p \in Publishers : WF_vars(PublishUse(p))

Spec == Init /\ [][Next]_vars /\ Fairness

-----------------------------------------------------------------------------
(* Properties.                                                             *)

\* Once Run and the handlers have nothing left to do, the bridge works with the settings
\* that a restart would load.
SettledAgrees ==
  (queue = None /\ run \in {"wait", "select"} /\ \A h \in Handlers : put[h].pc = "idle")
    => live = saved

\* A reconfiguration always takes effect in the end: requests being finite, the bridge comes
\* to use the saved settings for good ...
TakesEffect == <>[](live = saved)

\* ... and is then linked to their broker, which holds the discovery messages, and the
\* connection status the web UI shows is the link's.
LinkUp ==
  <>[](IF live.broker = NoBroker
       THEN client = None /\ ~connected
       ELSE client # None /\ conn[client] = "up" /\ connected /\ live.broker \in announced)

\* A stop request is honoured.
StopHonoured == stopping ~> ~stopping
=============================================================================
