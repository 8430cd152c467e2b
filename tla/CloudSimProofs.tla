---------------------------- MODULE CloudSimProofs ----------------------------
(* Proofs about CloudSim, for every set of settings, values and requests   *)
(* and every bound, and whether or not the connections overlap.            *)
EXTENDS CloudSim, TLAPS

-----------------------------------------------------------------------------
(* The session and its handler                                             *)

HandlersTyped ==
  /\ session \in Conns \cup {None}
  /\ handler \in [Conns -> Steps]
  /\ conns \in 0..(MaxFaults + 1)

ServedInv == HandlersTyped /\ SessionIsServed

LEMMA NoneIsNoConn == None \notin Conns
  BY SimAssumption DEF Conns

LEMMA SomeSteps == {"none", "read", "all", "pick", "write", "done"} = Steps
  BY DEF Steps

\* The handler is at another step; the others are where they were.
LEMMA Moved ==
  ASSUME HandlersTyped, NEW c \in Conns, NEW to \in Steps, Goto(c, to)
  PROVE  handler' \in [Conns -> Steps] /\ handler'[c] = to /\ \A d \in Conns \ {c} : handler'[d] = handler[d]
  BY DEF HandlersTyped, Goto

LEMMA ServedInit == Init => ServedInv
  BY SimAssumption, SomeSteps DEF Init, ServedInv, HandlersTyped, SessionIsServed

\* A handler stops serving its connection only at the end it reads, and then takes
\* the session with it.
LEMMA HandlerServes ==
  ASSUME ServedInv, NEW c \in Conns, Handler(c)
  PROVE  ServedInv'
<1>1. conns' = conns /\ session \in Conns \cup {None}
  BY DEF Handler, ReadSubscribe, TakeAll, PickForReplay, WriteReplay, ReadEnd, HandlerStep, ServedInv, HandlersTyped
<1>2. CASE ReadSubscribe(c)
  <2>1. session' = c /\ Goto(c, "all")
    BY <1>2 DEF ReadSubscribe
  <2>2. handler' \in [Conns -> Steps] /\ handler'[c] = "all"
    BY <2>1, Moved, SomeSteps DEF ServedInv
  <2> QED
    BY <1>1, <2>1, <2>2 DEF ServedInv, HandlersTyped, SessionIsServed
<1>3. CASE TakeAll(c) \/ PickForReplay(c) \/ WriteReplay(c)
  <2>1. session' = session /\ \E to \in {"read", "pick", "write"} : Goto(c, to)
    BY <1>3 DEF TakeAll, PickForReplay, WriteReplay
  <2>2. PICK to \in {"read", "pick", "write"} : Goto(c, to)
    BY <2>1
  <2>3. handler' \in [Conns -> Steps] /\ handler'[c] = to /\ \A d \in Conns \ {c} : handler'[d] = handler[d]
    BY <2>2, Moved, SomeSteps DEF ServedInv
  <2> QED
    BY <1>1, <2>1, <2>3 DEF ServedInv, HandlersTyped, SessionIsServed
<1>4. CASE ReadEnd(c)
  <2>1. session' = (IF session = c THEN None ELSE session) /\ Goto(c, "done")
    BY <1>4 DEF ReadEnd
  <2>2. handler' \in [Conns -> Steps] /\ \A d \in Conns \ {c} : handler'[d] = handler[d]
    BY <2>1, Moved, SomeSteps DEF ServedInv
  <2> QED
    BY <1>1, <2>1, <2>2 DEF ServedInv, HandlersTyped, SessionIsServed
<1> QED
  BY <1>2, <1>3, <1>4 DEF Handler

LEMMA ServedStep == ServedInv /\ [Next]_vars => ServedInv'
<1> SUFFICES ASSUME ServedInv, [Next]_vars PROVE ServedInv'
  OBVIOUS
<1>1. ASSUME NEW c \in Conns, Handler(c) PROVE ServedInv'
  BY <1>1, HandlerServes
<1>2. CASE UNCHANGED <<session, handler, conns>>
  BY <1>2 DEF ServedInv, HandlersTyped, SessionIsServed
<1>3. ASSUME NEW s \in Setters, Setter(s) PROVE ServedInv'
  BY <1>2, <1>3 DEF Setter, Choose, Pick, Write, Store, SetterStep, hands, link
<1>4. ASSUME NEW s \in Setters, NEW w \in Wanted, BeginSet(s, w) PROVE ServedInv'
  BY <1>2, <1>4 DEF BeginSet, hands, link
<1>5. CASE Connect
  <2>1. conns' \in Conns /\ conns' \in 0..(MaxFaults + 1) /\ session' = session /\ Goto(conns', "read")
    BY <1>5, SimAssumption DEF Connect, ServedInv, HandlersTyped, Conns
  <2>2. /\ handler' \in [Conns -> Steps] /\ handler'[conns'] = "read"
        /\ \A d \in Conns \ {conns'} : handler'[d] = handler[d]
    BY <2>1, Moved, SomeSteps DEF ServedInv
  <2> QED
    BY <2>1, <2>2 DEF ServedInv, HandlersTyped, SessionIsServed
<1>6. CASE Apply \/ Leave
  BY <1>2, <1>6 DEF Apply, Leave, hands, link
<1>7. CASE Restart
  BY <1>7, SomeSteps DEF Restart, ServedInv, HandlersTyped, SessionIsServed
<1>8. CASE UNCHANGED vars
  BY <1>2, <1>8 DEF vars, hands, link
<1> QED
  BY <1>1, <1>3, <1>4, <1>5, <1>6, <1>7, <1>8 DEF Next

\* However the end of an old connection and the start of a new one overlap, no
\* session is left behind that nobody serves.
THEOREM SessionsAreServed == Spec => []SessionIsServed
<1>1. ServedInv => SessionIsServed
  BY DEF ServedInv
<1> QED
  BY <1>1, ServedInit, ServedStep, PTL DEF Spec

-----------------------------------------------------------------------------
(* What is stored, in memory and in the file                               *)

StoreTyped == store \in Known /\ disk \in Known /\ setter \in [Setters -> Requests]

\* A request that stores a setting has a valid value for it, which was sent.
Storing ==
  \A s \in Setters :
    /\ setter[s].pc \in {"pick", "write", "store"} => setter[s].todo[setter[s].prop] \in Values
    /\ setter[s].pc = "store" => <<setter[s].prop, setter[s].todo[setter[s].prop]>> \in sent

\* A restart reads back what was sent, too.
FileWasSent == \A p \in Props : disk[p] # Unset => <<p, disk[p]>> \in sent

SentInv == StoreTyped /\ Storing /\ StoredWasSent /\ FileWasSent

LEMMA NoRequestTyped == NoRequest \in Requests /\ NoRequest.pc = "idle"
<1>1. (CHOOSE p \in Props : TRUE) \in Props
  BY SimAssumption
<1>2. Nothing \in Wanted
  BY DEF Nothing, Wanted
<1> QED
  BY <1>1, <1>2 DEF NoRequest, Requests

LEMMA SentInit == Init => SentInv
<1> SUFFICES ASSUME Init PROVE SentInv
  OBVIOUS
<1>1. StoreTyped
  BY NoRequestTyped DEF Init, StoreTyped
<1>2. \A s \in Setters : setter[s].pc = "idle"
  BY NoRequestTyped DEF Init
<1>3. Storing
  BY <1>2 DEF Storing
<1>4. StoredWasSent /\ FileWasSent
  BY DEF Init, StoredWasSent, FileWasSent
<1> QED
  BY <1>1, <1>3, <1>4 DEF SentInv

\* The request is another; the others are what they were.
LEMMA SetterMoved ==
  ASSUME StoreTyped, NEW s \in Setters, NEW r \in Requests, setter' = [setter EXCEPT ![s] = r]
  PROVE  setter' \in [Setters -> Requests] /\ setter'[s] = r /\ \A t \in Setters \ {s} : setter'[t] = setter[t]
  BY DEF StoreTyped

\* What a request that does not store anything keeps.
LEMMA NotStoring ==
  ASSUME SentInv, NEW s \in Setters, NEW r \in Requests, setter' = [setter EXCEPT ![s] = r],
         UNCHANGED <<store, disk>>, sent \subseteq sent',
         r.pc \in {"pick", "write", "store"} => r.todo[r.prop] \in Values,
         r.pc = "store" => <<r.prop, r.todo[r.prop]>> \in sent'
  PROVE  SentInv'
<1>1. setter' \in [Setters -> Requests] /\ setter'[s] = r /\ \A t \in Setters \ {s} : setter'[t] = setter[t]
  BY SetterMoved DEF SentInv
<1>2. StoreTyped'
  BY <1>1 DEF SentInv, StoreTyped
<1>3. Storing'
  BY <1>1 DEF SentInv, Storing
<1> QED
  BY <1>2, <1>3 DEF SentInv, StoredWasSent, FileWasSent

LEMMA ChosenRequest ==
  ASSUME NEW q \in Requests, NEW p \in Props
  PROVE  [q EXCEPT !.pc = "pick", !.prop = p] = [pc |-> "pick", todo |-> q.todo, prop |-> p, conn |-> q.conn]
<1>1. PICK x : x = [q EXCEPT !.pc = "pick", !.prop = p]
  OBVIOUS
<1>2. x = [pc |-> "pick", todo |-> q.todo, prop |-> p, conn |-> q.conn]
  BY <1>1 DEF Requests
<1> QED
  BY <1>1, <1>2

LEMMA PickedRequest ==
  ASSUME NEW q \in Requests, NEW c
  PROVE  [q EXCEPT !.pc = "write", !.conn = c] = [pc |-> "write", todo |-> q.todo, prop |-> q.prop, conn |-> c]
<1>1. PICK x : x = [q EXCEPT !.pc = "write", !.conn = c]
  OBVIOUS
<1>2. x = [pc |-> "write", todo |-> q.todo, prop |-> q.prop, conn |-> c]
  BY <1>1 DEF Requests
<1> QED
  BY <1>1, <1>2

LEMMA WrittenRequest ==
  ASSUME NEW q \in Requests
  PROVE  [q EXCEPT !.pc = "store"] = [pc |-> "store", todo |-> q.todo, prop |-> q.prop, conn |-> q.conn]
  BY DEF Requests

LEMMA SetterSends ==
  ASSUME SentInv, ServedInv, NEW s \in Setters, Setter(s)
  PROVE  SentInv'
<1> DEFINE q == setter[s]
           p == q.prop
           v == q.todo[p]
<1>1. /\ q \in Requests /\ p \in Props /\ q.todo \in Wanted /\ q.conn \in Conns \cup {None}
      /\ NoRequest \in Requests /\ NoRequest.pc = "idle"
  BY NoRequestTyped DEF SentInv, StoreTyped, Requests
<1>2. CASE GiveUp(s) /\ UNCHANGED <<store, disk, sent>>
  BY <1>1, <1>2, NotStoring DEF GiveUp
<1>3. ASSUME NEW pc \in {"pick", "write", "store"}, NEW pr \in Props, NEW conn \in Conns \cup {None},
             setter' = [setter EXCEPT ![s] = [pc |-> pc, todo |-> q.todo, prop |-> pr, conn |-> conn]],
             UNCHANGED <<store, disk>>, sent \subseteq sent', q.todo[pr] \in Values,
             pc = "store" => <<pr, q.todo[pr]>> \in sent'
      PROVE  SentInv'
  <2>1. [pc |-> pc, todo |-> q.todo, prop |-> pr, conn |-> conn] \in Requests
    BY <1>1 DEF Requests
  <2> QED
    BY <1>3, <2>1, NotStoring
<1>6. CASE Choose(s)
  <2>1. UNCHANGED <<store, disk, sent>>
    BY <1>6 DEF Choose
  <2>2. ASSUME NEW pr \in Props, q.todo[pr] \in Values,
               setter' = [setter EXCEPT ![s].pc = "pick", ![s].prop = pr]
        PROVE  SentInv'
    <3>1. setter' = [setter EXCEPT ![s] = [q EXCEPT !.pc = "pick", !.prop = pr]]
      BY <2>2
    <3>2. [q EXCEPT !.pc = "pick", !.prop = pr] = [pc |-> "pick", todo |-> q.todo, prop |-> pr, conn |-> q.conn]
      BY <1>1, ChosenRequest
    <3> QED
      BY <1>1, <1>3, <2>1, <2>2, <3>1, <3>2
  <2> QED
    BY <1>2, <1>6, <2>1, <2>2 DEF Choose
<1>7. CASE Pick(s)
  <2>1. UNCHANGED <<store, disk, sent>> /\ q.pc = "pick" /\ v \in Values /\ session \in Conns \cup {None}
    BY <1>7 DEF Pick, SetterStep, SentInv, Storing, ServedInv, HandlersTyped
  <2>2. ASSUME session # None, setter' = [setter EXCEPT ![s].pc = "write", ![s].conn = session]
        PROVE  SentInv'
    <3>1. setter' = [setter EXCEPT ![s] = [q EXCEPT !.pc = "write", !.conn = session]]
      BY <2>2
    <3>2. [q EXCEPT !.pc = "write", !.conn = session] = [pc |-> "write", todo |-> q.todo, prop |-> p, conn |-> session]
      BY <1>1, PickedRequest
    <3>3. setter' = [setter EXCEPT ![s] = [pc |-> "write", todo |-> q.todo, prop |-> p, conn |-> session]]
      BY <3>1, <3>2
    <3> HIDE DEF q
    <3> QED
      BY <1>1, <1>3, <2>1, <3>3
  <2> QED
    BY <1>2, <1>7, <2>1, <2>2 DEF Pick
<1>8. CASE Write(s)
  <2>1. UNCHANGED <<store, disk>> /\ q.pc = "write" /\ v \in Values
    BY <1>8 DEF Write, SetterStep, SentInv, Storing
  <2>2. CASE sent' = sent \cup {<<p, v>>} /\ setter' = [setter EXCEPT ![s].pc = "store"]
    <3>1. setter' = [setter EXCEPT ![s] = [q EXCEPT !.pc = "store"]]
      BY <2>2
    <3>2. setter' = [setter EXCEPT ![s] = [pc |-> "store", todo |-> q.todo, prop |-> p, conn |-> q.conn]]
      BY <1>1, <3>1, WrittenRequest
    <3>3. sent \subseteq sent' /\ <<p, v>> \in sent'
      BY <2>2
    <3> HIDE DEF q
    <3> QED
      BY <1>1, <1>3, <2>1, <3>2, <3>3
  <2> QED
    BY <1>2, <1>8, <2>1, <2>2 DEF Write
<1>9. CASE Store(s)
  <2>1. q.pc = "store" /\ v \in Values /\ <<p, v>> \in sent /\ sent' = sent
    BY <1>9 DEF Store, SetterStep, SentInv, Storing
  <2>2. store' = [store EXCEPT ![p] = v]
    BY <1>9 DEF Store
  <2>3. store' \in Known /\ StoredWasSent'
    BY <1>1, <2>1, <2>2 DEF SentInv, StoreTyped, Known, StoredWasSent
  <2>4. disk' \in {disk, store'}
    BY <1>9 DEF Store
  <2>5. disk' \in Known /\ FileWasSent'
    BY <2>1, <2>3, <2>4 DEF SentInv, StoreTyped, StoredWasSent, FileWasSent
  <2>6. PICK r \in Requests : setter' = [setter EXCEPT ![s] = r] /\ r.pc \in {"loop", "idle"}
    <3>1. CASE setter' = [setter EXCEPT ![s].pc = "loop", ![s].todo[p] = Unset]
      <4>1. setter' = [setter EXCEPT ![s] = [q EXCEPT !.pc = "loop", !.todo = [q.todo EXCEPT ![p] = Unset]]]
        BY <3>1
      <4>2. [q.todo EXCEPT ![p] = Unset] \in Wanted
        BY <1>1 DEF Wanted
      <4>3. ASSUME NEW todo \in Wanted, NEW r \in Requests
            PROVE  LET x == [r EXCEPT !.pc = "loop", !.todo = todo] IN x \in Requests /\ x.pc = "loop"
        BY DEF Requests
      <4> QED
        BY <1>1, <4>1, <4>2, <4>3
    <3>2. CASE GiveUp(s)
      BY <1>1, <3>2 DEF GiveUp
    <3> QED
      BY <1>9, <3>1, <3>2 DEF Store
  <2>7. setter' \in [Setters -> Requests] /\ setter'[s] = r /\ \A t \in Setters \ {s} : setter'[t] = setter[t]
    BY <2>6, SetterMoved DEF SentInv
  <2>8. Storing'
    BY <2>1, <2>6, <2>7 DEF SentInv, Storing
  <2> QED
    BY <2>3, <2>5, <2>7, <2>8 DEF SentInv, StoreTyped
<1> QED
  BY <1>6, <1>7, <1>8, <1>9 DEF Setter

LEMMA SentUntouched ==
  ASSUME SentInv, UNCHANGED <<store, disk, setter, sent>>
  PROVE  SentInv'
  BY DEF SentInv, StoreTyped, Storing, StoredWasSent, FileWasSent

LEMMA SentStep == SentInv /\ ServedInv /\ [Next]_vars => SentInv'
<1> SUFFICES ASSUME SentInv, ServedInv, [Next]_vars PROVE SentInv'
  OBVIOUS
<1>1. ASSUME NEW c \in Conns, Handler(c) PROVE SentInv'
  BY <1>1, SentUntouched
     DEF Handler, ReadSubscribe, TakeAll, PickForReplay, WriteReplay, ReadEnd, HandlerStep
<1>2. ASSUME NEW s \in Setters, Setter(s) PROVE SentInv'
  BY <1>2, SetterSends
<1>3. ASSUME NEW s \in Setters, NEW w \in Wanted, BeginSet(s, w) PROVE SentInv'
  <2>1. setter' = [setter EXCEPT ![s] = [NoRequest EXCEPT !.pc = "loop", !.todo = w]] /\ UNCHANGED <<store, disk, sent>>
    BY <1>3 DEF BeginSet
  <2>2. ASSUME NEW r \in Requests
        PROVE  LET x == [r EXCEPT !.pc = "loop", !.todo = w] IN x \in Requests /\ x.pc = "loop"
    BY DEF Requests
  <2>3. PICK r \in Requests : r = [NoRequest EXCEPT !.pc = "loop", !.todo = w] /\ r.pc = "loop"
    BY <2>2, NoRequestTyped
  <2> QED
    BY <2>1, <2>3, NotStoring
<1>4. CASE Connect \/ Apply \/ Leave
  BY <1>4, SentUntouched DEF Connect, Apply, Leave
<1>5. CASE Restart
  <2>1. store' = disk /\ UNCHANGED <<disk, sent>> /\ setter' = [s \in Setters |-> NoRequest]
    BY <1>5 DEF Restart
  <2>2. StoreTyped' /\ \A s \in Setters : setter'[s].pc = "idle"
    BY <2>1, NoRequestTyped DEF SentInv, StoreTyped
  <2> QED
    BY <2>1, <2>2 DEF SentInv, Storing, StoredWasSent, FileWasSent
<1>6. CASE UNCHANGED vars
  BY <1>6, SentUntouched DEF vars
<1> QED
  BY <1>1, <1>2, <1>3, <1>4, <1>5, <1>6 DEF Next

\* What is stored was accepted by a session, over restarts and failing saves:
\* a setting never looks applied that was refused.
THEOREM WhatIsStoredWasSent == Spec => []StoredWasSent
<1>1. SentInv => StoredWasSent
  BY DEF SentInv
<1> QED
  BY <1>1, ServedInit, ServedStep, SentInit, SentStep, PTL DEF Spec
=============================================================================
