--------------------------- MODULE RobotCallsProofs ---------------------------
(* Proofs about RobotCalls, for every set of callers and pollers and every *)
(* bound.                                                                  *)
EXTENDS RobotCalls, SequenceTheorems, TLAPS

-----------------------------------------------------------------------------
(* The inductive invariant                                                 *)

Tries == {0, 1, 2}
Queued == [cmd : Commands \cup {"rest", "welcome"}, by : Procs, orphan : BOOLEAN]
Answers == [cmd : Commands \cup {"rest", "welcome"}, by : Procs, port : Nat, cut : BOOLEAN]
Execs == [step : {"idle", "lock", "send", "read", "ok", "fail"}, cmd : Commands \cup {"none"},
          try : Tries, ans : Seq(Answers)]
IdleCalls == [step : {"idle"}, result : {"ok", "error"}]
BusyCalls == [step : {"endpoint", "post", "refresh", "enable", "print"}, try : Tries, port : Nat]

Typed ==
  /\ up \in BOOLEAN /\ shifted \in BOOLEAN /\ quiet \in [Callers -> BOOLEAN]
  /\ service \in Nat /\ minted \in Nat /\ local \in Nat
  /\ conn \in {"none", "live", "dead"}
  /\ inbox \in Seq(Answers) /\ queue \in Seq(Queued)
  /\ mu \in Procs \cup {None} /\ lmu \in Callers \cup {None}
  /\ exec \in [Procs -> Execs]
  /\ call \in [Callers -> IdleCalls \cup BusyCalls]
  /\ done \in [Callers -> Nat] /\ lost \in [Callers -> Nat]
  /\ calls \in 0..MaxCalls /\ probes \in 0..MaxProbes /\ faults \in 0..MaxFaults

\* No endpoint is known that was not generated.
Minted ==
  /\ service <= minted /\ local <= minted
  /\ \A i \in DOMAIN inbox : inbox[i].port <= minted
  /\ \A p \in Procs : \A i \in DOMAIN exec[p].ans : exec[p].ans[i].port <= minted

\* A caller has a command in progress while it refreshes the endpoint, and no other.
Doing ==
  /\ \A p \in Procs : /\ exec[p].step # "idle" => exec[p].cmd \in Commands /\ exec[p].try \in {1, 2}
                      /\ exec[p].step = "ok" => exec[p].ans # <<>>
                      /\ exec[p].step = "lock" => exec[p].try = 1
  /\ \A c \in Callers :
       /\ call[c].step \in {"enable", "print"} => exec[c].cmd = call[c].step /\ exec[c].step # "idle"
       /\ call[c].step \notin {"enable", "print"} => exec[c].step = "idle"
       /\ call[c].step \in {"refresh", "enable", "print"} => call[c].try = 1
       /\ call[c].step # "idle" => call[c].try # 0
  /\ \A p \in Pollers : exec[p].step # "idle" => exec[p].cmd = "probe"

Holders ==
  /\ \A p \in Procs : exec[p].step \in {"send", "read"} <=> mu = p
  /\ \A c \in Callers : call[c].step \in {"enable", "print"} <=> lmu = c

\* A call in progress was executed once for each reply that was lost.
Counted ==
  \A c \in Callers : /\ call[c].step # "idle" => done[c] = lost[c]
                     /\ done[c] <= 1 + lost[c]

\* p waits for the answer to its command.
Reads(p) == exec[p].step = "read"

\* Until something has put the answers out of step, one command at most is on its way or
\* answered and not yet read: that of the process that waits for its answer.
OneAtATime ==
  ~shifted =>
    /\ \A i \in DOMAIN queue :
         /\ queue[i].cmd # "rest"
         /\ ~queue[i].orphan =>
              /\ conn = "live"
              /\ Reads(queue[i].by) /\ queue[i].cmd = exec[queue[i].by].cmd
              /\ inbox = <<>>
              /\ \A j \in DOMAIN queue : ~queue[j].orphan => j = i
    /\ \A i \in DOMAIN inbox :
         Reads(inbox[i].by) /\ inbox[i].cmd = exec[inbox[i].by].cmd /\ ~inbox[i].cut
    /\ \A p \in Procs : exec[p].step = "ok" =>
         \A i \in DOMAIN exec[p].ans : LET a == exec[p].ans[i]
                                       IN  a.cmd = exec[p].cmd /\ a.by = p /\ ~a.cut

\* p's command was executed and answered.
Answered(p) == exec[p].step = "ok" \/ (Reads(p) /\ inbox # <<>>)

\* While a call is quiet, so is everything it depends on: its connection lives once
\* it has sent, the service stays enabled once it has been enabled, the answer to
\* print names its endpoint, and the endpoint it makes its second attempt with is that.
ServedFor(c) ==
  /\ up /\ ~shifted
  /\ call[c].step = "idle" => call[c].result = "ok"
  /\ Reads(c) => conn = "live"
  /\ exec[c].step = "send" /\ exec[c].try = 2 => conn = "none"
  /\ exec[c].step # "fail"
  /\ call[c].step = "enable" /\ Answered(c) => service # Disabled
  /\ call[c].step = "print" =>
       /\ service # Disabled
       /\ Reads(c) => \A i \in DOMAIN inbox : inbox[i].port = service
       /\ exec[c].step = "ok" => \A i \in DOMAIN exec[c].ans : exec[c].ans[i].port = service
  /\ call[c].step \in {"endpoint", "post"} /\ call[c].try = 2 =>
       /\ service # Disabled /\ local = service
       /\ call[c].step = "post" => call[c].port = service
       /\ lmu # None => call[lmu].step = "enable" /\ ~Answered(lmu)

Served == \A c \in Callers : quiet[c] => ServedFor(c)

IInv == Typed /\ Minted /\ Doing /\ Holders /\ Counted /\ OneAtATime /\ Served

-----------------------------------------------------------------------------
(* What the operators on the queue do                                      *)

\* The other elements keep their order.
LEMMA WithoutElements ==
  ASSUME NEW S, NEW q \in Seq(S), NEW i \in DOMAIN q
  PROVE  /\ Without(q, i) \in Seq(S)
         /\ DOMAIN Without(q, i) = 1..(Len(q) - 1)
         /\ \A j \in 1..(Len(q) - 1) : Without(q, i)[j] = q[IF j < i THEN j ELSE j + 1]
<1> DEFINE h == SubSeq(q, 1, i - 1)
           t == SubSeq(q, i + 1, Len(q))
<1>1. Len(q) \in Nat /\ i \in 1..Len(q) /\ \A j \in 1..Len(q) : q[j] \in S
  BY LenProperties
<1>2. h \in Seq(S) /\ Len(h) = i - 1 /\ \A j \in 1..(i - 1) : h[j] = q[j]
  <2>1. \A j \in 1..(i - 1) : q[j] \in S
    BY <1>1
  <2> QED
    BY <1>1, <2>1, SubSeqProperties
<1>3. t \in Seq(S) /\ Len(t) = Len(q) - i /\ \A j \in 1..(Len(q) - i) : t[j] = q[j + i]
  <2>1. \A j \in (i + 1)..Len(q) : q[j] \in S
    BY <1>1
  <2>2. /\ t \in Seq(S)
        /\ Len(t) = IF i + 1 <= Len(q) THEN Len(q) - (i + 1) + 1 ELSE 0
        /\ \A j \in 1..(Len(q) - (i + 1) + 1) : t[j] = q[(i + 1) + j - 1]
    BY <1>1, <2>1, SubSeqProperties
  <2> QED
    BY <1>1, <2>2
<1>4. /\ h \o t \in Seq(S) /\ Len(h \o t) = Len(h) + Len(t)
      /\ \A j \in 1..(Len(h) + Len(t)) : (h \o t)[j] = IF j <= Len(h) THEN h[j] ELSE t[j - Len(h)]
  BY <1>2, <1>3, ConcatProperties
<1>5. DOMAIN (h \o t) = 1..(Len(q) - 1)
  BY <1>1, <1>2, <1>3, <1>4, LenProperties
<1>6. ASSUME NEW j \in 1..(Len(q) - 1)
      PROVE  (h \o t)[j] = q[IF j < i THEN j ELSE j + 1]
  <2>1. CASE j < i
    BY <1>1, <1>2, <1>3, <1>4, <2>1
  <2>2. CASE ~(j < i)
    <3>0. Len(h) = i - 1 /\ Len(t) = Len(q) - i
      BY <1>2, <1>3
    <3> HIDE DEF h, t
    <3>1. j \in 1..(Len(h) + Len(t)) /\ ~(j <= Len(h)) /\ j - Len(h) = j - (i - 1)
      BY <1>1, <2>2, <3>0
    <3>2. j - (i - 1) \in 1..(Len(q) - i) /\ (j - (i - 1)) + i = j + 1
      BY <1>1, <2>2
    <3>3. t[j - (i - 1)] = q[(j - (i - 1)) + i]
      BY <1>3, <3>2
    <3>4. (h \o t)[j] = t[j - (i - 1)]
      <4>1. (h \o t)[j] = IF j <= Len(h) THEN h[j] ELSE t[j - Len(h)]
        BY <1>4, <3>1
      <4> QED
        BY <3>1, <4>1
    <3> QED
      BY <2>2, <3>2, <3>3, <3>4
  <2> QED
    BY <2>1, <2>2
<1> QED
  BY <1>4, <1>5, <1>6 DEF Without

LEMMA Elements ==
  ASSUME Typed
  PROVE  /\ Len(queue) \in Nat /\ DOMAIN queue = 1..Len(queue) /\ Len(inbox) \in Nat /\ DOMAIN inbox = 1..Len(inbox)
         /\ \A i \in DOMAIN queue : queue[i] \in Queued /\ queue[i].cmd \in Commands \cup {"rest", "welcome"}
                                    /\ queue[i].by \in Procs /\ queue[i].orphan \in BOOLEAN
         /\ \A i \in DOMAIN inbox : inbox[i] \in Answers /\ inbox[i].by \in Procs
<1>1. queue \in Seq(Queued) /\ inbox \in Seq(Answers)
  BY DEF Typed
<1>2. /\ Len(queue) \in Nat /\ DOMAIN queue = 1..Len(queue) /\ Len(inbox) \in Nat /\ DOMAIN inbox = 1..Len(inbox)
      /\ \A i \in DOMAIN queue : queue[i] \in Queued
      /\ \A i \in DOMAIN inbox : inbox[i] \in Answers
  BY <1>1, LenProperties
<1>3. \A x \in Queued : x.cmd \in Commands \cup {"rest", "welcome"} /\ x.by \in Procs /\ x.orphan \in BOOLEAN
  BY DEF Queued
<1>4. \A x \in Answers : x.by \in Procs
  BY DEF Answers
<1> QED
  BY <1>2, <1>3, <1>4

\* Nobody reads what comes over a connection that was dropped.
LEMMA Dropped ==
  ASSUME Typed, dropLocked
  PROVE  /\ conn' = "none" /\ inbox' = <<>> /\ inbox' \in Seq(Answers)
         /\ queue' \in Seq(Queued) /\ \A i \in DOMAIN queue' : queue'[i].orphan
         /\ DOMAIN queue' = DOMAIN queue /\ \A i \in DOMAIN queue : queue'[i].cmd = queue[i].cmd
<1>1. Len(queue) \in Nat /\ DOMAIN queue = 1..Len(queue) /\ \A i \in 1..Len(queue) : queue[i] \in Queued
  BY LenProperties DEF Typed
<1>2. \A i \in DOMAIN queue : queue'[i] = [queue[i] EXCEPT !.orphan = TRUE]
  BY DEF dropLocked
<1>3. \A i \in DOMAIN queue : queue'[i] \in Queued /\ queue'[i].orphan /\ queue'[i].cmd = queue[i].cmd
  BY <1>1, <1>2 DEF Queued
<1>4. DOMAIN queue' = DOMAIN queue
  BY DEF dropLocked
<1>5. queue' \in [1..Len(queue) -> Queued]
  BY <1>1, <1>3 DEF dropLocked
<1>6. queue' \in Seq(Queued)
  BY <1>1, <1>5, SeqDef
<1> QED
  BY <1>3, <1>4, <1>6, EmptySeq DEF dropLocked

-----------------------------------------------------------------------------
(* How a step moves a command and a call                                   *)

LEMMA SomeTries == 0 \in Tries /\ 1 \in Tries /\ 2 \in Tries
  BY DEF Tries

LEMMA SomeCommands == "enable" \in Commands /\ "print" \in Commands /\ "probe" \in Commands
  BY DEF Commands

LEMMA ExecRecord ==
  ASSUME NEW s \in {"idle", "lock", "send", "read", "ok", "fail"}, NEW cmd \in Commands \cup {"none"},
         NEW try \in Tries, NEW ans \in Seq(Answers)
  PROVE  [step |-> s, cmd |-> cmd, try |-> try, ans |-> ans] \in Execs
  BY DEF Execs

\* A command is its four fields, a call under way its three.
LEMMA ExecFields ==
  ASSUME NEW e \in Execs
  PROVE  e = [step |-> e.step, cmd |-> e.cmd, try |-> e.try, ans |-> e.ans]
  BY DEF Execs

LEMMA CallFields ==
  ASSUME NEW k \in BusyCalls
  PROVE  k = [step |-> k.step, try |-> k.try, port |-> k.port]
  BY DEF BusyCalls

\* p's command is at step s, with this attempt and answer; the others' are where they were.
ExecTo(p, s, cmd, try, ans) ==
  /\ exec' \in [Procs -> Execs]
  /\ exec'[p].step = s /\ exec'[p].cmd = cmd /\ exec'[p].try = try /\ exec'[p].ans = ans
  /\ \A q \in Procs \ {p} : exec'[q] = exec[q]

LEMMA ExecSteps ==
  ASSUME Typed, NEW p \in Procs, NEW s \in {"lock", "send", "read", "ok", "fail"},
         exec' = [exec EXCEPT ![p].step = s]
  PROVE  ExecTo(p, s, exec[p].cmd, exec[p].try, exec[p].ans)
<1>1. exec[p] \in Execs
  BY DEF Typed
<1>2. exec'[p] = [exec[p] EXCEPT !.step = s]
  BY DEF Typed
<1>3. exec'[p] = [step |-> s, cmd |-> exec[p].cmd, try |-> exec[p].try, ans |-> exec[p].ans]
  <2>1. exec[p] = [step |-> exec[p].step, cmd |-> exec[p].cmd, try |-> exec[p].try, ans |-> exec[p].ans]
    BY <1>1, ExecFields
  <2> QED
    BY <1>2, <2>1
<1>4. /\ exec[p].cmd \in Commands \cup {"none"}
      /\ exec[p].try \in Tries /\ exec[p].ans \in Seq(Answers)
  BY <1>1 DEF Execs
<1>5. exec'[p] \in Execs
  BY <1>3, <1>4, ExecRecord
<1> QED
  BY <1>3, <1>5 DEF ExecTo, Typed

LEMMA ExecRetries ==
  ASSUME Typed, NEW p \in Procs, exec' = [exec EXCEPT ![p].step = "send", ![p].try = 2]
  PROVE  ExecTo(p, "send", exec[p].cmd, 2, exec[p].ans)
<1>1. exec[p] \in Execs
  BY DEF Typed
<1>2. exec'[p] = [exec[p] EXCEPT !.step = "send", !.try = 2]
  BY DEF Typed
<1>3. exec'[p] = [step |-> "send", cmd |-> exec[p].cmd, try |-> 2, ans |-> exec[p].ans]
  <2> DEFINE e == exec[p]
             r == exec'[p]
  <2>1. e = [step |-> e.step, cmd |-> e.cmd, try |-> e.try, ans |-> e.ans]
    BY <1>1, ExecFields
  <2>2. r = [e EXCEPT !.step = "send", !.try = 2]
    BY <1>2
  <2> HIDE DEF e, r
  <2>3. r = [step |-> "send", cmd |-> e.cmd, try |-> 2, ans |-> e.ans]
    BY <2>1, <2>2
  <2> QED
    BY <2>3 DEF e, r
<1>4. exec[p].cmd \in Commands \cup {"none"} /\ exec[p].ans \in Seq(Answers)
  BY <1>1 DEF Execs
<1>5. exec'[p] \in Execs
  BY <1>3, <1>4, SomeTries, ExecRecord
<1> QED
  BY <1>3, <1>5 DEF ExecTo, Typed

LEMMA ExecReads ==
  ASSUME Typed, NEW p \in Procs, exec' = [exec EXCEPT ![p].step = "ok", ![p].ans = inbox]
  PROVE  ExecTo(p, "ok", exec[p].cmd, exec[p].try, inbox)
<1>1. exec[p] \in Execs /\ inbox \in Seq(Answers)
  BY DEF Typed
<1>2. exec'[p] = [exec[p] EXCEPT !.step = "ok", !.ans = inbox]
  BY DEF Typed
<1>3. exec'[p] = [step |-> "ok", cmd |-> exec[p].cmd, try |-> exec[p].try, ans |-> inbox]
  <2>1. exec[p] = [step |-> exec[p].step, cmd |-> exec[p].cmd, try |-> exec[p].try, ans |-> exec[p].ans]
    BY <1>1, ExecFields
  <2> QED
    BY <1>2, <2>1
<1>4. exec[p].cmd \in Commands \cup {"none"} /\ exec[p].try \in Tries
  BY <1>1 DEF Execs
<1>5. exec'[p] \in Execs
  BY <1>1, <1>3, <1>4, ExecRecord
<1> QED
  BY <1>3, <1>5 DEF ExecTo, Typed

LEMMA ExecBegins ==
  ASSUME Typed, NEW p \in Procs, NEW cmd \in Commands, exec' = [exec EXCEPT ![p] = Exec(cmd)]
  PROVE  ExecTo(p, "lock", cmd, 1, <<>>)
<1>1. <<>> \in Seq(Answers)
  BY EmptySeq
<1>2. exec'[p] = [step |-> "lock", cmd |-> cmd, try |-> 1, ans |-> <<>>]
  BY DEF Typed, Exec
<1>3. exec'[p] \in Execs
  BY <1>1, <1>2, SomeTries, ExecRecord
<1> QED
  BY <1>2, <1>3 DEF ExecTo, Typed

LEMMA ExecEnds ==
  ASSUME Typed, NEW p \in Procs, exec' = [exec EXCEPT ![p] = NoCommand]
  PROVE  ExecTo(p, "idle", "none", 0, <<>>)
<1>1. <<>> \in Seq(Answers)
  BY EmptySeq
<1>2. exec'[p] = [step |-> "idle", cmd |-> "none", try |-> 0, ans |-> <<>>]
  BY DEF Typed, NoCommand
<1>3. exec'[p] \in Execs
  BY <1>1, <1>2, SomeTries, ExecRecord
<1> QED
  BY <1>2, <1>3 DEF ExecTo, Typed

\* c's call is at step s; the others are where they were.
CallTo(c, s, try, port) ==
  /\ call' \in [Callers -> IdleCalls \cup BusyCalls]
  /\ call'[c].step = s /\ call'[c].try = try /\ call'[c].port = port
  /\ \A d \in Callers \ {c} : call'[d] = call[d]

\* c's call has returned.
CallEnds(c, result) ==
  /\ call' \in [Callers -> IdleCalls \cup BusyCalls]
  /\ call'[c].step = "idle" /\ call'[c].result = result
  /\ \A d \in Callers \ {c} : call'[d] = call[d]

\* A record with these fields is a call under way.
LEMMA CallRecord ==
  ASSUME NEW s \in {"endpoint", "post", "refresh", "enable", "print"}, NEW try \in Tries, NEW port \in Nat
  PROVE  [step |-> s, try |-> try, port |-> port] \in BusyCalls
  BY DEF BusyCalls

LEMMA CallSteps ==
  ASSUME Typed, NEW c \in Callers, call[c].step # "idle",
         NEW s \in {"endpoint", "post", "refresh", "enable", "print"},
         call' = [call EXCEPT ![c].step = s]
  PROVE  CallTo(c, s, call[c].try, call[c].port)
<1>1. call[c] \in BusyCalls
  BY DEF Typed, IdleCalls
<1>2. call'[c] = [call[c] EXCEPT !.step = s]
  BY DEF Typed
<1>3. call'[c] = [step |-> s, try |-> call[c].try, port |-> call[c].port]
  <2>1. call[c] = [step |-> call[c].step, try |-> call[c].try, port |-> call[c].port]
    BY <1>1, CallFields
  <2> QED
    BY <1>2, <2>1
<1>4. call[c].try \in Tries /\ call[c].port \in Nat
  BY <1>1 DEF BusyCalls
<1>5. call'[c] \in BusyCalls
  BY <1>1, <1>3, <1>4, SomeTries, CallRecord
<1> QED
  BY <1>3, <1>5 DEF CallTo, Typed

LEMMA CallReads ==
  ASSUME Typed, NEW c \in Callers, call[c].step # "idle",
         call' = [call EXCEPT ![c].step = "post", ![c].port = local]
  PROVE  CallTo(c, "post", call[c].try, local)
<1>1. call[c] \in BusyCalls /\ local \in Nat
  BY DEF Typed, IdleCalls
<1>2. call'[c] = [call[c] EXCEPT !.step = "post", !.port = local]
  BY DEF Typed
<1>3. call'[c] = [step |-> "post", try |-> call[c].try, port |-> local]
  <2>1. call[c] = [step |-> call[c].step, try |-> call[c].try, port |-> call[c].port]
    BY <1>1, CallFields
  <2> QED
    BY <1>2, <2>1
<1>4. call[c].try \in Tries
  BY <1>1 DEF BusyCalls
<1>5. call'[c] \in BusyCalls
  BY <1>1, <1>3, <1>4, SomeTries, CallRecord
<1> QED
  BY <1>3, <1>5 DEF CallTo, Typed

LEMMA CallRetries ==
  ASSUME Typed, NEW c \in Callers, call[c].step # "idle",
         call' = [call EXCEPT ![c].step = "endpoint", ![c].try = 2]
  PROVE  CallTo(c, "endpoint", 2, call[c].port)
<1>1. call[c] \in BusyCalls
  BY DEF Typed, IdleCalls
<1>2. call'[c] = [call[c] EXCEPT !.step = "endpoint", !.try = 2]
  BY DEF Typed
<1>3. call'[c] = [step |-> "endpoint", try |-> 2, port |-> call[c].port]
  <2> DEFINE k == call[c]
             r == call'[c]
  <2>1. k = [step |-> k.step, try |-> k.try, port |-> k.port]
    BY <1>1, CallFields
  <2>2. r = [k EXCEPT !.step = "endpoint", !.try = 2]
    BY <1>2
  <2> HIDE DEF k, r
  <2>3. r = [step |-> "endpoint", try |-> 2, port |-> k.port]
    BY <2>1, <2>2
  <2> QED
    BY <2>3 DEF k, r
<1>4. call[c].port \in Nat
  BY <1>1 DEF BusyCalls
<1>5. call'[c] \in BusyCalls
  BY <1>1, <1>3, <1>4, SomeTries, CallRecord
<1> QED
  BY <1>3, <1>5 DEF CallTo, Typed

LEMMA CallBegins ==
  ASSUME Typed, NEW c \in Callers,
         call' = [call EXCEPT ![c] = [step |-> "endpoint", try |-> 1, port |-> Disabled]]
  PROVE  CallTo(c, "endpoint", 1, Disabled)
<1>1. call'[c] = [step |-> "endpoint", try |-> 1, port |-> Disabled]
  BY DEF Typed
<1>2. call'[c] \in BusyCalls
  BY <1>1, SomeTries DEF BusyCalls, Disabled
<1> QED
  BY <1>1, <1>2 DEF CallTo, Typed

LEMMA Returned ==
  ASSUME Typed, NEW c \in Callers, NEW result \in {"ok", "error"}, Return(c, result)
  PROVE  CallEnds(c, result)
<1>1. call'[c] = [step |-> "idle", result |-> result]
  BY DEF Typed, Return
<1>2. call'[c] \in IdleCalls
  BY <1>1 DEF IdleCalls
<1> QED
  BY <1>1, <1>2 DEF CallEnds, Typed, Return

LEMMA FaultsBounded ==
  ASSUME Typed, Faulty
  PROVE  faults' \in 0..MaxFaults
  BY CallsAssumption DEF Typed, Faulty

-----------------------------------------------------------------------------
(* Every step keeps the invariant                                          *)

LEMMA InitHolds == Init => IInv
<1> SUFFICES ASSUME Init PROVE IInv
  OBVIOUS
<1> USE DEF Init
<1>1. <<>> \in Seq(Answers) /\ <<>> \in Seq(Queued) /\ DOMAIN <<>> = {}
  BY EmptySeq
<1>2. Typed
  <2>1. [step |-> "idle", cmd |-> "none", try |-> 0, ans |-> <<>>] \in Execs
    BY <1>1, SomeTries, ExecRecord
  <2>2. [step |-> "idle", result |-> "ok"] \in IdleCalls
    BY DEF IdleCalls
  <2>3. exec \in [Procs -> Execs] /\ call \in [Callers -> IdleCalls \cup BusyCalls]
    BY <2>1, <2>2 DEF NoCommand
  <2>4. /\ done \in [Callers -> Nat] /\ lost \in [Callers -> Nat] /\ quiet \in [Callers -> BOOLEAN]
        /\ calls \in 0..MaxCalls /\ probes \in 0..MaxProbes /\ faults \in 0..MaxFaults
    BY CallsAssumption
  <2>5. up \in BOOLEAN /\ shifted \in BOOLEAN /\ service \in Nat /\ minted \in Nat /\ local \in Nat
    OBVIOUS
  <2> QED
    BY <1>1, <2>3, <2>4, <2>5 DEF Typed
<1>3. Minted
  BY <1>1 DEF Minted, NoCommand
<1>4. Doing
  BY DEF Doing, NoCommand, Procs
<1>5. Holders
  BY CallsAssumption DEF Holders, NoCommand, Procs
<1>6. Counted
  <2>1. \A c \in Callers : done[c] = 0 /\ lost[c] = 0
    OBVIOUS
  <2>2. 0 \in Nat /\ 0 <= 1 + 0
    OBVIOUS
  <2>3. ASSUME NEW c \in Callers
        PROVE  /\ call[c].step # "idle" => done[c] = lost[c]
               /\ done[c] <= 1 + lost[c]
    BY <2>1, <2>2
  <2> QED
    BY <2>3 DEF Counted
<1>7. OneAtATime
  BY <1>1 DEF OneAtATime, NoCommand
<1>8. Served
  <2>1. \A c \in Callers : call[c].step = "idle" /\ call[c].result = "ok" /\ exec[c].step = "idle"
    BY DEF NoCommand, Procs
  <2> QED
    BY <2>1 DEF Served, ServedFor, Reads
<1> QED
  BY <1>2, <1>3, <1>4, <1>5, <1>6, <1>7, <1>8 DEF IInv

LEMMA LockKeeps ==
  ASSUME IInv, NEW p \in Procs, Lock(p)
  PROVE  IInv'
<1>1. ExecTo(p, "send", exec[p].cmd, exec[p].try, exec[p].ans)
  BY ExecSteps DEF IInv, Lock
<1> USE <1>1 DEF Lock, ExecTo, cc, link, hist
<1>2. Typed'
  BY DEF IInv, Typed
<1>3. Minted'
  BY DEF IInv, Minted
<1>4. Doing'
  BY DEF IInv, Doing, Procs
<1>5. Holders'
  BY CallsAssumption DEF IInv, Holders, Free, Procs
<1>6. Counted'
  BY DEF IInv, Counted
<1>7. OneAtATime'
  BY DEF IInv, OneAtATime, Reads
<1>8. Served'
  <2> SUFFICES ASSUME NEW c \in Callers, quiet'[c] PROVE ServedFor(c)'
    BY DEF Served
  <2>1. ServedFor(c)
    BY DEF IInv, Served
  <2> QED
    BY <2>1 DEF IInv, Doing, ServedFor, Answered, Reads
<1> QED
  BY <1>2, <1>3, <1>4, <1>5, <1>6, <1>7, <1>8 DEF IInv

\* A failure, wherever it happens, leaves the invariant's part on the terminal true.
LEMMA FailKeeps ==
  ASSUME IInv, NEW p \in Procs, exec[p].step \in {"send", "read"}, Fail(p)
  PROVE  /\ conn' \in {"none", conn} /\ inbox' \in Seq(Answers) /\ queue' \in Seq(Queued)
         /\ exec'[p].step = "send" => conn' = "none"
         /\ shifted' \in BOOLEAN /\ (conn # "live" => shifted' = shifted)
         /\ \A i \in DOMAIN inbox' : inbox'[i].port <= minted
         /\ mu' \in Procs \cup {None}
         /\ exec' \in [Procs -> Execs] /\ \A q \in Procs \ {p} : exec'[q] = exec[q]
         /\ exec'[p].step \in {"send", "fail"} /\ exec'[p].cmd = exec[p].cmd /\ exec'[p].ans = exec[p].ans
         /\ exec'[p].step = "fail" => exec[p].try # 1
         /\ exec'[p].try \in {1, 2}
         /\ \A q \in Procs : exec'[q].step \in {"send", "read"} <=> mu' = q
         /\ OneAtATime'
<1>1. exec'[p].step \in {"send", "fail"} /\ (exec'[p].step = "send" => mu' = mu) /\ (exec'[p].step = "fail" => mu' = None /\ exec[p].try # 1)
      /\ \E try \in {1, 2} : ExecTo(p, exec'[p].step, exec[p].cmd, try, exec[p].ans)
  <2>1. CASE MayRetry(p)
    <3>1. ExecTo(p, "send", exec[p].cmd, 2, exec[p].ans) /\ mu' = mu
      BY <2>1, ExecRetries DEF Fail, IInv
    <3> QED
      BY <3>1 DEF ExecTo
  <2>2. CASE ~MayRetry(p)
    <3>1. ExecTo(p, "fail", exec[p].cmd, exec[p].try, exec[p].ans) /\ mu' = None /\ exec[p].try # 1
      BY <2>2, ExecSteps DEF Fail, IInv, MayRetry
    <3>2. exec[p].try \in {1, 2}
      BY DEF IInv, Doing
    <3> QED
      BY <3>1, <3>2 DEF ExecTo
  <2> QED
    BY <2>1, <2>2
<1>2. /\ conn' \in {"none", conn} /\ (exec'[p].step = "send" => conn' = "none")
      /\ inbox' = <<>> /\ inbox' \in Seq(Answers) /\ queue' \in Seq(Queued)
      /\ shifted' \in BOOLEAN /\ (conn # "live" => shifted' = shifted)
      /\ ~shifted' => /\ ~shifted
                      /\ \A i \in DOMAIN queue' : queue'[i].orphan
                      /\ DOMAIN queue' = DOMAIN queue /\ \A i \in DOMAIN queue : queue'[i].cmd = queue[i].cmd
  <2>1. CASE MayRetry(p)
    BY <2>1, Dropped DEF Fail, IInv, Typed
  <2>2. CASE ~MayRetry(p)
    <3>1. /\ inbox' = <<>> /\ conn' = conn /\ queue' = queue /\ mu' = None
          /\ shifted' = (shifted \/ conn = "live")
      BY <2>2 DEF Fail
    <3>2. exec'[p].step = "fail"
      BY <2>2, ExecSteps DEF Fail, IInv, ExecTo
    <3>3. ~shifted /\ conn # "live" => \A i \in DOMAIN queue : queue[i].orphan
      BY DEF IInv, OneAtATime
    <3>4. shifted' \in BOOLEAN /\ (conn # "live" => shifted' = shifted) /\ (~shifted' => ~shifted /\ conn # "live")
      BY <3>1 DEF IInv, Typed
    <3> QED
      BY <3>1, <3>2, <3>3, <3>4, EmptySeq DEF IInv, Typed
  <2> QED
    BY <2>1, <2>2
<1>3. DOMAIN inbox' = {}
  BY <1>2, EmptySeq
<1>4. mu = p /\ \A q \in Procs \ {p} : exec[q].step \notin {"send", "read"}
  BY DEF IInv, Holders
<1>5. \A q \in Procs : exec'[q].step \in {"send", "read"} <=> mu' = q
  BY <1>1, <1>4, CallsAssumption DEF ExecTo, Procs
<1>6. OneAtATime'
  BY <1>1, <1>2, <1>3, <1>4 DEF IInv, OneAtATime, ExecTo, Reads
<1>7. mu' \in Procs \cup {None}
  BY <1>1, <1>4
<1> QED
  BY <1>1, <1>2, <1>3, <1>5, <1>6, <1>7 DEF ExecTo

\* Nothing is unread while the terminal's holder has not written its command.
LEMMA NothingUnread ==
  ASSUME IInv, ~shifted, NEW p \in Procs, exec[p].step = "send"
  PROVE  inbox = <<>> /\ DOMAIN inbox = {} /\ \A i \in DOMAIN queue : queue[i].orphan
<1>1. \A q \in Procs : ~Reads(q)
  BY DEF IInv, Holders, Reads
<1>2. DOMAIN inbox = 1..Len(inbox) /\ \A i \in 1..Len(inbox) : inbox[i].by \in Procs
  BY Elements DEF IInv
<1>3. DOMAIN queue = 1..Len(queue) /\ \A i \in 1..Len(queue) : queue[i].by \in Procs
  BY Elements DEF IInv
<1>4. DOMAIN inbox = {}
  BY <1>1, <1>2 DEF IInv, OneAtATime
<1>5. inbox = <<>>
  BY <1>2, <1>4, EmptySeq, LenProperties DEF IInv, Typed
<1> QED
  BY <1>1, <1>3, <1>4, <1>5 DEF IInv, OneAtATime

LEMMA SendKeeps ==
  ASSUME IInv, NEW p \in Procs, Send(p)
  PROVE  IInv'
<1> USE DEF cc, hist
<1>1. /\ exec[p].step = "send" /\ UNCHANGED <<cc, lmu, local, call, done, lost, calls, probes>>
      /\ mu = p /\ \A q \in Procs \ {p} : exec[q].step \notin {"send", "read"}
  BY DEF Send, IInv, Holders
<1>2. CASE /\ conn' = "live"
           /\ queue' = Append(queue, [cmd |-> exec[p].cmd, by |-> p, orphan |-> FALSE])
           /\ exec' = [exec EXCEPT ![p].step = "read"]
           /\ UNCHANGED <<mu, inbox, quiet, shifted, faults>>
  <2> DEFINE new == [cmd |-> exec[p].cmd, by |-> p, orphan |-> FALSE]
  <2>1. ExecTo(p, "read", exec[p].cmd, exec[p].try, exec[p].ans)
    BY <1>2, ExecSteps DEF IInv
  <2>2. new \in Queued
    BY <1>1 DEF IInv, Doing, Queued
  <2>3. /\ queue' \in Seq(Queued) /\ DOMAIN queue' = 1..(Len(queue) + 1) /\ DOMAIN queue = 1..Len(queue)
        /\ Len(queue) \in Nat
        /\ \A i \in 1..Len(queue) : queue'[i] = queue[i]
        /\ queue'[Len(queue) + 1] = new
    <3> HIDE DEF new
    <3>1. queue \in Seq(Queued) /\ queue' = Append(queue, new)
      BY <1>2 DEF IInv, Typed, new
    <3> QED
      BY <2>2, <3>1, AppendProperties, LenProperties
  <2> USE <1>1, <1>2, <2>1 DEF ExecTo
  <2>4. Typed'
    BY <2>3 DEF IInv, Typed
  <2>5. Minted'
    BY DEF IInv, Minted
  <2>6. Doing'
    BY DEF IInv, Doing, Procs
  <2>7. Holders'
    BY DEF IInv, Holders
  <2>8. Counted'
    BY DEF IInv, Counted
  <2>9. OneAtATime'
    <3> SUFFICES ASSUME ~shifted PROVE OneAtATime'
      BY DEF OneAtATime
    <3>1. inbox = <<>> /\ DOMAIN inbox = {} /\ \A i \in DOMAIN queue : queue[i].orphan
      BY NothingUnread
    <3>2. new.cmd \in Commands /\ new.cmd = exec'[p].cmd /\ new.by = p /\ new.orphan = FALSE /\ new.cmd # "rest"
      BY DEF IInv, Doing, Commands
    <3>3. \A i \in DOMAIN queue : queue'[i] = queue[i] /\ queue[i].cmd # "rest" /\ queue[i].orphan
      BY <2>3, <3>1 DEF IInv, OneAtATime
    <3>4. \A i \in DOMAIN queue' : i \in DOMAIN queue \/ i = Len(queue) + 1
      BY <2>3
    <3>5. \A q \in Procs : exec'[q].step = "ok" => q # p /\ exec'[q] = exec[q]
      OBVIOUS
    <3>6. /\ Reads(p)'
          /\ \A i \in DOMAIN queue' : queue'[i].cmd # "rest" /\ (~queue'[i].orphan => i = Len(queue) + 1)
      BY <2>3, <3>2, <3>3, <3>4 DEF Reads
    <3> HIDE DEF new
    <3> QED
      BY <2>3, <3>1, <3>2, <3>5, <3>6 DEF IInv, OneAtATime, Reads
  <2>10. Served'
    <3> SUFFICES ASSUME NEW c \in Callers, quiet'[c] PROVE ServedFor(c)'
      BY DEF Served
    <3>1. ServedFor(c)
      BY DEF IInv, Served
    <3>2. inbox = <<>> /\ DOMAIN inbox = {}
      BY <3>1, NothingUnread DEF ServedFor
    <3>3. lmu \in Callers \cup {None} /\ Callers \subseteq Procs
      BY DEF IInv, Typed, Procs
    <3>4. lmu # None /\ ~Answered(lmu) => ~Answered(lmu)'
      BY <3>2, <3>3 DEF Answered, Reads
    <3>5. Answered(c)' => Answered(c) /\ c # p
      BY <3>2, <3>3 DEF Answered, Reads
    <3>6. Reads(c)' => c = p
      BY <3>3 DEF Reads
    <3>7. exec'[c].step = "send" => FALSE
      BY <3>3
    <3>8. exec'[c].step \in {"ok", "fail"} => exec'[c] = exec[c]
      BY <3>3
    <3> QED
      BY <3>1, <3>2, <3>4, <3>5, <3>6, <3>7, <3>8 DEF ServedFor
  <2> QED
    BY <2>4, <2>5, <2>6, <2>7, <2>8, <2>9, <2>10 DEF IInv
<1>3. CASE /\ conn' = "live" /\ exec' = [exec EXCEPT ![p].step = "read"]
           /\ Faulty /\ Disturbed
           /\ queue' = queue \o <<[Command(p) EXCEPT !.cmd = "welcome"], Command(p)>>
           /\ shifted' = TRUE
           /\ UNCHANGED <<mu, inbox>>
  <2> DEFINE new == <<[Command(p) EXCEPT !.cmd = "welcome"], Command(p)>>
  <2>1. ExecTo(p, "read", exec[p].cmd, exec[p].try, exec[p].ans)
    BY <1>3, ExecSteps DEF IInv
  <2>2. queue' \in Seq(Queued)
    <3>1. Command(p) \in Queued /\ [Command(p) EXCEPT !.cmd = "welcome"] \in Queued
      BY <1>1 DEF IInv, Doing, Queued, Command
    <3>2. new \in Seq(Queued)
      BY <3>1
    <3> HIDE DEF new
    <3>3. queue \in Seq(Queued) /\ queue' = queue \o new
      BY <1>3 DEF IInv, Typed, new
    <3> QED
      BY <3>2, <3>3, ConcatProperties
  <2>3. faults' \in 0..MaxFaults /\ quiet' = [c \in Callers |-> FALSE]
    BY <1>3, FaultsBounded DEF Disturbed, IInv
  <2> USE <1>1, <1>3, <2>1 DEF ExecTo
  <2>4. Typed'
    BY <2>2, <2>3 DEF IInv, Typed
  <2>5. Minted'
    BY DEF IInv, Minted
  <2>6. Doing'
    BY DEF IInv, Doing, Procs
  <2>7. Holders'
    BY DEF IInv, Holders
  <2>8. Counted'
    BY DEF IInv, Counted
  <2>9. OneAtATime' /\ Served'
    BY <2>3 DEF OneAtATime, Served
  <2> QED
    BY <2>4, <2>5, <2>6, <2>7, <2>8, <2>9 DEF IInv
<1>4. CASE ~(conn = "live" \/ (conn = "none" /\ up)) /\ Fail(p) /\ UNCHANGED <<quiet, faults>>
  <2>1. /\ conn' \in {"none", conn} /\ inbox' \in Seq(Answers) /\ queue' \in Seq(Queued)
        /\ exec'[p].step = "send" => conn' = "none"
        /\ shifted' \in BOOLEAN /\ (conn # "live" => shifted' = shifted)
        /\ \A i \in DOMAIN inbox' : inbox'[i].port <= minted
        /\ mu' \in Procs \cup {None}
        /\ exec' \in [Procs -> Execs] /\ \A q \in Procs \ {p} : exec'[q] = exec[q]
        /\ exec'[p].step \in {"send", "fail"} /\ exec'[p].cmd = exec[p].cmd /\ exec'[p].ans = exec[p].ans
        /\ exec'[p].step = "fail" => exec[p].try # 1
        /\ exec'[p].try \in {1, 2}
        /\ \A q \in Procs : exec'[q].step \in {"send", "read"} <=> mu' = q
        /\ OneAtATime'
    BY <1>1, <1>4, FailKeeps
  <2> USE <1>1, <1>4, <2>1
  <2>2. Typed'
    BY DEF IInv, Typed
  <2>3. Minted'
    BY DEF IInv, Minted
  <2>4. Doing'
    BY DEF IInv, Doing, Procs
  <2>5. Holders'
    BY DEF IInv, Holders
  <2>6. Counted'
    BY DEF IInv, Counted
  <2>7. Served'
    <3> SUFFICES ASSUME NEW c \in Callers, quiet'[c] PROVE ServedFor(c)'
      BY DEF Served
    <3>1. ServedFor(c) /\ conn = "dead"
      BY DEF IInv, Served, ServedFor, Typed
    <3>2. lmu \in Callers \cup {None} /\ Callers \subseteq Procs
      BY DEF IInv, Typed, Procs
    <3>3. lmu # None /\ ~Answered(lmu) => ~Answered(lmu)'
      BY <3>2 DEF Answered, Reads
    <3>4. Answered(c)' => Answered(c) /\ c # p
      BY <3>2 DEF Answered, Reads
    <3>5. ~Reads(c)'
      BY <3>2 DEF Reads
    <3>6. c = p => exec[c].try = 1
      BY <3>1, <3>2 DEF ServedFor, IInv, Doing
    <3>7. exec'[c].step # "fail" /\ (exec'[c].step = "ok" => exec'[c] = exec[c])
      BY <3>1, <3>2, <3>6 DEF ServedFor
    <3>8. exec'[c].step = "send" => conn' = "none"
      BY <3>2
    <3>9. UNCHANGED <<up, shifted, call, service, local, lmu>>
      BY <3>1 DEF cc
    <3> HIDE <1>1, <1>4, <2>1
    <3> QED
      BY <3>1, <3>3, <3>4, <3>5, <3>7, <3>8, <3>9 DEF ServedFor
  <2> QED
    BY <2>1, <2>2, <2>3, <2>4, <2>5, <2>6, <2>7 DEF IInv
<1> QED
  BY <1>2, <1>3, <1>4 DEF Send, Command

LEMMA ReadKeeps ==
  ASSUME IInv, NEW p \in Procs, Read(p)
  PROVE  IInv'
<1>1. ExecTo(p, "ok", exec[p].cmd, exec[p].try, inbox)
  BY ExecReads DEF IInv, Read
<1>2. exec[p].step = "read" /\ mu = p /\ \A q \in Procs \ {p} : exec[q].step \notin {"send", "read"}
  BY DEF Read, IInv, Holders
<1>3. inbox' = <<>> /\ inbox' \in Seq(Answers) /\ DOMAIN inbox' = {}
  BY EmptySeq DEF Read
<1> USE <1>1, <1>2, <1>3 DEF Read, ExecTo, cc, hist
<1>4. Typed'
  BY DEF IInv, Typed
<1>5. Minted'
  BY DEF IInv, Minted
<1>6. Doing'
  BY DEF IInv, Doing, Procs
<1>7. Holders'
  BY CallsAssumption DEF IInv, Holders, Procs
<1>8. Counted'
  BY DEF IInv, Counted
<1>9. OneAtATime'
  <2> SUFFICES ASSUME ~shifted PROVE OneAtATime'
    BY DEF OneAtATime
  <2>1. \A i \in DOMAIN queue : queue[i].orphan
    BY Elements DEF IInv, OneAtATime
  <2>2. \A i \in DOMAIN inbox : inbox[i].by = p /\ inbox[i].cmd = exec[p].cmd /\ ~inbox[i].cut
    BY Elements DEF IInv, OneAtATime, Reads
  <2> QED
    BY <2>1, <2>2 DEF IInv, OneAtATime
<1>10. Served'
  <2> SUFFICES ASSUME NEW c \in Callers, quiet'[c] PROVE ServedFor(c)'
    BY DEF Served
  <2>1. ServedFor(c)
    BY DEF IInv, Served
  <2>2. lmu \in Callers \cup {None} /\ Callers \subseteq Procs
    BY DEF IInv, Typed, Procs
  <2>3. lmu # None /\ ~Answered(lmu) => ~Answered(lmu)'
    BY <2>2 DEF Answered, Reads
  <2>4. Answered(c)' => Answered(c)
    BY <2>2 DEF Answered, Reads
  <2>5. ~Reads(c)' /\ exec'[c].step # "send"
    BY <2>2 DEF Reads
  <2>6. exec'[c].step = "ok" => IF c = p THEN Reads(c) /\ exec'[c].ans = inbox ELSE exec'[c] = exec[c]
    BY <2>2 DEF Reads
  <2>7. exec'[c].step # "fail"
    BY <2>1, <2>2 DEF ServedFor
  <2>8. call[c].step = "print" /\ exec'[c].step = "ok" =>
          \A i \in DOMAIN exec'[c].ans : exec'[c].ans[i].port = service
    BY <2>1, <2>6 DEF ServedFor
  <2> HIDE <1>1, <1>2, <1>3 DEF Read, ExecTo
  <2>9. UNCHANGED <<up, shifted, call, conn, service, local, lmu>>
    BY DEF Read
  <2> QED
    BY <2>1, <2>3, <2>4, <2>5, <2>7, <2>8, <2>9 DEF ServedFor
<1> QED
  BY <1>4, <1>5, <1>6, <1>7, <1>8, <1>9, <1>10 DEF IInv

LEMMA NoAnswerKeeps ==
  ASSUME IInv, NEW p \in Procs, NoAnswer(p)
  PROVE  IInv'
<1>1. /\ exec[p].step = "read" /\ Fail(p) /\ UNCHANGED <<cc, lmu, local, call, done, lost, calls, probes>>
      /\ mu = p /\ \A q \in Procs \ {p} : exec[q].step \notin {"send", "read"}
  BY DEF NoAnswer, IInv, Holders
<1>2. /\ conn' \in {"none", conn} /\ inbox' \in Seq(Answers) /\ queue' \in Seq(Queued)
      /\ exec'[p].step = "send" => conn' = "none"
      /\ shifted' \in BOOLEAN /\ (conn # "live" => shifted' = shifted)
      /\ \A i \in DOMAIN inbox' : inbox'[i].port <= minted
      /\ mu' \in Procs \cup {None}
      /\ exec' \in [Procs -> Execs] /\ \A q \in Procs \ {p} : exec'[q] = exec[q]
      /\ exec'[p].step \in {"send", "fail"} /\ exec'[p].cmd = exec[p].cmd /\ exec'[p].ans = exec[p].ans
      /\ exec'[p].step = "fail" => exec[p].try # 1
      /\ exec'[p].try \in {1, 2}
      /\ \A q \in Procs : exec'[q].step \in {"send", "read"} <=> mu' = q
      /\ OneAtATime'
  BY <1>1, FailKeeps
<1> USE <1>1, <1>2 DEF cc
<1>3. faults' \in 0..MaxFaults /\ quiet' \in [Callers -> BOOLEAN]
  BY FaultsBounded DEF NoAnswer, Disturbed, IInv, Typed
<1>4. Typed'
  BY <1>3 DEF IInv, Typed
<1>5. Minted'
  BY DEF IInv, Minted
<1>6. Doing'
  BY DEF IInv, Doing, Procs
<1>7. Holders'
  BY DEF IInv, Holders
<1>8. Counted'
  BY DEF IInv, Counted
<1>9. Served'
  <2> SUFFICES ASSUME NEW c \in Callers, quiet'[c] PROVE ServedFor(c)'
    BY DEF Served
  <2>1. conn = "dead" /\ quiet[c]
    BY DEF NoAnswer, Disturbed
  <2>2. ServedFor(c)
    BY <2>1 DEF IInv, Served
  <2>3. lmu \in Callers \cup {None} /\ Callers \subseteq Procs
    BY DEF IInv, Typed, Procs
  <2>4. c # p
    BY <2>1, <2>2 DEF ServedFor, Reads
  <2>5. lmu # None /\ ~Answered(lmu) => ~Answered(lmu)'
    BY <2>3 DEF Answered, Reads
  <2>6. Answered(c)' => Answered(c)
    BY <2>3, <2>4 DEF Answered, Reads
  <2>7. ~Reads(c)' /\ exec'[c] = exec[c] /\ exec[c].step # "send"
    BY <2>3, <2>4 DEF Reads
  <2>8. UNCHANGED <<up, shifted, call, service, local, lmu>>
    BY <2>1
  <2> HIDE <1>1, <1>2
  <2> QED
    BY <2>2, <2>5, <2>6, <2>7, <2>8 DEF ServedFor
<1> QED
  BY <1>2, <1>4, <1>5, <1>6, <1>7, <1>8, <1>9 DEF IInv

\* The endpoints known so far stay below the next one.
LEMMA Executes ==
  ASSUME Typed, Minted, NEW q, Execute(q)
  PROVE  /\ service' \in Nat /\ minted' \in Nat /\ service' <= minted' /\ minted <= minted'
         /\ q.cmd = "enable" => service' # Disabled
         /\ q.cmd # "enable" => service' = service
<1>1. service \in Nat /\ minted \in Nat /\ service <= minted
  BY DEF Typed, Minted
<1> QED
  BY <1>1 DEF Execute, Disabled

\* An answer adds itself to the inbox, if its connection is there.
LEMMA Replies ==
  ASSUME Typed, NEW i \in DOMAIN queue, NEW cut \in BOOLEAN, service' \in Nat,
         inbox' = inbox \o Reply(queue[i], cut)
  PROVE  /\ inbox' \in Seq(Answers)
         /\ queue[i].orphan => inbox' = inbox
         /\ ~queue[i].orphan =>
              /\ Len(inbox') = Len(inbox) + 1 /\ DOMAIN inbox' = 1..(Len(inbox) + 1)
              /\ \A j \in DOMAIN inbox : inbox'[j] = inbox[j]
              /\ inbox'[Len(inbox) + 1]
                   = [cmd |-> queue[i].cmd, by |-> queue[i].by, port |-> service', cut |-> cut]
<1> DEFINE a == [cmd |-> queue[i].cmd, by |-> queue[i].by, port |-> service', cut |-> cut]
<1>1. inbox \in Seq(Answers) /\ Len(inbox) \in Nat /\ DOMAIN inbox = 1..Len(inbox)
  BY LenProperties DEF Typed
<1>2. a \in Answers
  BY Elements DEF Answers
<1> HIDE DEF a
<1>3. CASE queue[i].orphan
  <2>1. inbox' = inbox \o <<>>
    BY <1>3 DEF Reply
  <2> QED
    BY <1>1, <1>3, <2>1, ConcatEmptySeq
<1>4. CASE ~queue[i].orphan
  <2>1. inbox' = inbox \o <<a>>
    BY <1>4 DEF Reply, a
  <2>2. inbox' = Append(inbox, a)
    BY <1>1, <1>2, <2>1, AppendIsConcat
  <2>3. /\ inbox' \in Seq(Answers) /\ Len(inbox') = Len(inbox) + 1
        /\ \A j \in 1..Len(inbox) : inbox'[j] = inbox[j]
        /\ inbox'[Len(inbox) + 1] = a
    BY <1>1, <1>2, <2>2, AppendProperties
  <2>4. DOMAIN inbox' = 1..(Len(inbox) + 1)
    BY <2>3, LenProperties
  <2> QED
    BY <1>1, <1>4, <2>3, <2>4 DEF a
<1> QED
  BY <1>3, <1>4

LEMMA RepliesMinted ==
  ASSUME Typed, Minted, NEW i \in DOMAIN queue, NEW cut \in BOOLEAN, Execute(queue[i]),
         inbox' = inbox \o Reply(queue[i], cut), UNCHANGED <<local, exec>>
  PROVE  Minted'
<1>1. service' \in Nat /\ minted' \in Nat /\ service' <= minted' /\ minted <= minted' /\ minted \in Nat
  BY Executes DEF Typed
<1>2. local' <= minted'
  BY <1>1 DEF Typed, Minted
<1>3. ASSUME NEW j \in DOMAIN inbox' PROVE inbox'[j].port <= minted'
  <2>1. \A k \in DOMAIN inbox : inbox[k].port \in Nat /\ inbox[k].port <= minted
    BY Elements DEF Minted, Answers
  <2>2. \A k \in DOMAIN inbox : inbox[k].port <= minted'
    BY <1>1, <2>1
  <2>3. CASE queue[i].orphan
    BY <1>1, <1>3, <2>2, <2>3, Replies
  <2>4. CASE ~queue[i].orphan
    <3>1. /\ DOMAIN inbox' = 1..(Len(inbox) + 1)
          /\ \A k \in DOMAIN inbox : inbox'[k] = inbox[k]
          /\ inbox'[Len(inbox) + 1]
               = [cmd |-> queue[i].cmd, by |-> queue[i].by, port |-> service', cut |-> cut]
      BY <1>1, <2>4, Replies
    <3>2. Len(inbox) \in Nat /\ DOMAIN inbox = 1..Len(inbox)
      BY Elements
    <3>3. j \in DOMAIN inbox \/ j = Len(inbox) + 1
      BY <3>1, <3>2
    <3> QED
      BY <1>1, <2>2, <3>1, <3>3
  <2> QED
    BY <2>3, <2>4
<1>4. ASSUME NEW p \in Procs, NEW j \in DOMAIN exec[p].ans PROVE exec[p].ans[j].port <= minted'
  <2>1. exec[p].ans \in Seq(Answers)
    BY DEF Typed, Execs
  <2>2. exec[p].ans[j] \in Answers
    BY <2>1, LenProperties
  <2>3. exec[p].ans[j].port \in Nat /\ exec[p].ans[j].port <= minted
    BY <2>2 DEF Answers, Minted
  <2> QED
    BY <1>1, <2>3
<1> QED
  BY <1>1, <1>2, <1>3, <1>4 DEF Minted

LEMMA AnswerKeeps ==
  ASSUME IInv, NEW i \in DOMAIN queue, Answer(i)
  PROVE  IInv'
<1> DEFINE q == queue[i]
           cut == q.cmd = "rest"
<1>1. /\ up /\ Execute(q) /\ inbox' = inbox \o Reply(q, cut) /\ queue' = Without(queue, i) /\ cut \in BOOLEAN
      /\ UNCHANGED <<up, conn, mu, exec, lmu, local, call, done, lost, shifted, calls, probes, faults>>
      /\ quiet' = [c \in Callers |-> quiet[c] /\ (q.cmd = "enable" => q.by = c /\ ~q.orphan)]
  BY DEF Answer
<1>2. /\ service' \in Nat /\ minted' \in Nat
      /\ q.cmd = "enable" => service' # Disabled
      /\ q.cmd # "enable" => service' = service
  BY <1>1, Executes DEF IInv
<1>3. /\ Len(queue) \in Nat /\ DOMAIN queue = 1..Len(queue) /\ Len(inbox) \in Nat /\ DOMAIN inbox = 1..Len(inbox)
      /\ q.cmd \in Commands \cup {"rest", "welcome"} /\ q.by \in Procs /\ q.orphan \in BOOLEAN
      /\ queue \in Seq(Queued)
  BY Elements DEF IInv, Typed
<1>4. /\ queue' \in Seq(Queued) /\ DOMAIN queue' = 1..(Len(queue) - 1)
      /\ \A j \in 1..(Len(queue) - 1) : queue'[j] = queue[IF j < i THEN j ELSE j + 1]
  BY <1>1, <1>3, WithoutElements
<1>5. /\ inbox' \in Seq(Answers)
      /\ q.orphan => inbox' = inbox
      /\ ~q.orphan =>
           /\ Len(inbox') = Len(inbox) + 1 /\ DOMAIN inbox' = 1..(Len(inbox) + 1)
           /\ \A j \in DOMAIN inbox : inbox'[j] = inbox[j]
           /\ inbox'[Len(inbox) + 1] = [cmd |-> q.cmd, by |-> q.by, port |-> service', cut |-> cut]
  BY <1>1, <1>2, Replies DEF IInv
<1> HIDE DEF q, cut
<1> USE <1>1
<1>6. Typed'
  BY <1>2, <1>4, <1>5 DEF IInv, Typed
<1>7. Minted'
  BY RepliesMinted DEF IInv, q
<1>8. Doing'
  BY DEF IInv, Doing
<1>9. Holders'
  BY DEF IInv, Holders
<1>10. Counted'
  BY DEF IInv, Counted
<1>11. ~shifted /\ ~q.orphan =>
         /\ Reads(q.by) /\ q.cmd = exec[q.by].cmd /\ inbox = <<>> /\ DOMAIN inbox = {} /\ Len(inbox) = 0
         /\ ~cut
         /\ \A j \in DOMAIN queue : ~queue[j].orphan => j = i
  BY <1>3, EmptySeq DEF IInv, OneAtATime, q, cut
<1>12. ~shifted /\ ~q.orphan =>
         /\ DOMAIN inbox' = {1}
         /\ inbox'[1] = [cmd |-> q.cmd, by |-> q.by, port |-> service', cut |-> cut]
  <2>1. 1..(0 + 1) = {1} /\ 0 + 1 = 1
    OBVIOUS
  <2> QED
    BY <1>5, <1>11, <2>1
<1>13. OneAtATime'
  <2> SUFFICES ASSUME ~shifted PROVE OneAtATime'
    BY DEF OneAtATime
  <2>1. ASSUME NEW j \in DOMAIN queue'
        PROVE  \E k \in DOMAIN queue : k # i /\ queue'[j] = queue[k] /\ (j < i => k = j) /\ (~(j < i) => k = j + 1)
    <3>1. j \in 1..(Len(queue) - 1) /\ i \in 1..Len(queue) /\ Len(queue) \in Nat
      BY <1>3, <1>4
    <3>2. CASE j < i
      <4>1. j \in 1..Len(queue) /\ j # i
        BY <3>1, <3>2
      <4>2. j \in DOMAIN queue /\ queue'[j] = queue[j]
        BY <1>3, <1>4, <3>1, <3>2, <4>1
      <4> QED
        BY <3>2, <4>1, <4>2
    <3>3. CASE ~(j < i)
      <4>1. j + 1 \in 1..Len(queue) /\ j + 1 # i
        BY <3>1, <3>3
      <4>2. j + 1 \in DOMAIN queue /\ queue'[j] = queue[j + 1]
        BY <1>3, <1>4, <3>1, <3>3, <4>1
      <4> QED
        BY <3>3, <4>1, <4>2
    <3> QED
      BY <3>2, <3>3
  <2>2. CASE q.orphan
    <3>1. ASSUME NEW j \in DOMAIN queue'
          PROVE  /\ queue'[j].cmd # "rest"
                 /\ ~queue'[j].orphan =>
                      /\ conn = "live"
                      /\ Reads(queue'[j].by) /\ queue'[j].cmd = exec[queue'[j].by].cmd /\ inbox = <<>>
      BY <2>1 DEF IInv, OneAtATime
    <3>2. ASSUME NEW j \in DOMAIN queue', NEW m \in DOMAIN queue', ~queue'[j].orphan, ~queue'[m].orphan
          PROVE  j = m
      <4>1. PICK k \in DOMAIN queue : queue'[j] = queue[k] /\ k # i /\ (j < i => k = j) /\ (~(j < i) => k = j + 1)
        BY <2>1
      <4>2. PICK l \in DOMAIN queue : queue'[m] = queue[l] /\ l # i /\ (m < i => l = m) /\ (~(m < i) => l = m + 1)
        BY <2>1
      <4>3. k = l
        BY <3>2, <4>1, <4>2 DEF IInv, OneAtATime
      <4>4. j \in Int /\ m \in Int /\ i \in Int
        BY <1>3, <1>4
      <4> QED
        BY <4>1, <4>2, <4>3, <4>4
    <3> QED
      BY <1>5, <2>2, <3>1, <3>2 DEF IInv, OneAtATime, Reads
  <2>3. CASE ~q.orphan
    <3>1. \A j \in DOMAIN queue' : queue'[j].orphan /\ queue'[j].cmd # "rest"
      BY <1>11, <2>1, <2>3 DEF IInv, OneAtATime
    <3>2. \A j \in DOMAIN inbox' : Reads(inbox'[j].by) /\ inbox'[j].cmd = exec[inbox'[j].by].cmd /\ ~inbox'[j].cut
      BY <1>11, <1>12, <2>3
    <3> QED
      BY <3>1, <3>2 DEF IInv, OneAtATime, Reads
  <2> QED
    BY <2>2, <2>3
<1>14. Served'
  <2> SUFFICES ASSUME NEW c \in Callers, quiet'[c] PROVE ServedFor(c)'
    BY DEF Served
  <2>1. quiet[c] /\ (q.cmd = "enable" => q.by = c /\ ~q.orphan)
    OBVIOUS
  <2>2. ServedFor(c) /\ ~shifted
    BY <2>1 DEF IInv, Served, ServedFor
  <2>3. lmu \in Callers \cup {None} /\ Callers \subseteq Procs
    BY DEF IInv, Typed, Procs
  <2>4. ASSUME NEW d \in Procs, Reads(d), inbox' # <<>>, inbox = <<>>
        PROVE  ~q.orphan /\ q.by = d /\ q.cmd = exec[d].cmd
    <3>1. ~q.orphan
      BY <1>5, <2>4
    <3>2. Reads(q.by) /\ q.cmd = exec[q.by].cmd
      BY <1>11, <2>2, <3>1
    <3> QED
      BY <1>3, <2>4, <3>1, <3>2 DEF IInv, Holders, Reads
  <2>5. q.cmd = "enable" => call[c].step = "enable"
    <3>1. ASSUME q.cmd = "enable" PROVE Reads(c) /\ exec[c].cmd = "enable"
      BY <1>11, <2>1, <2>2, <3>1
    <3> QED
      BY <3>1 DEF IInv, Doing, Reads
  <2>6. call[c].step # "enable" => service' = service
    BY <1>2, <2>5
  <2>7. ASSUME NEW d \in Callers, call[d].step = "enable", Answered(d)', ~Answered(d)
        PROVE  q.cmd = "enable" /\ q.by = d
    <3>1. Reads(d) /\ inbox' # <<>> /\ inbox = <<>>
      BY <2>7 DEF Answered, Reads
    <3>2. exec[d].cmd = "enable"
      BY <2>7 DEF IInv, Doing
    <3> QED
      BY <2>3, <2>4, <3>1, <3>2
  <2>8. call[c].step = "enable" /\ Answered(c)' => service' # Disabled
    BY <1>2, <2>2, <2>7 DEF ServedFor
  <2>9. call[c].step = "print" /\ Reads(c) => \A j \in DOMAIN inbox' : inbox'[j].port = service
    <3>1. ASSUME call[c].step = "print", Reads(c), q.orphan
          PROVE  \A j \in DOMAIN inbox' : inbox'[j].port = service
      BY <1>5, <2>2, <3>1 DEF ServedFor
    <3>2. ASSUME call[c].step = "print", ~q.orphan
          PROVE  \A j \in DOMAIN inbox' : inbox'[j].port = service
      BY <1>12, <2>2, <2>6, <3>2
    <3> QED
      BY <3>1, <3>2
  <2>10. call[c].step \in {"endpoint", "post"} /\ call[c].try = 2 /\ lmu # None => ~Answered(lmu)'
    <3>1. ASSUME call[c].step \in {"endpoint", "post"}, call[c].try = 2, lmu # None, Answered(lmu)'
          PROVE  FALSE
      <4>1. lmu \in Callers /\ call[lmu].step = "enable" /\ ~Answered(lmu)
        BY <2>2, <2>3, <3>1 DEF ServedFor
      <4>2. q.cmd = "enable" /\ q.by = lmu
        BY <2>7, <3>1, <4>1
      <4> QED
        BY <2>1, <3>1, <4>1, <4>2
    <3> QED
      BY <3>1
  <2> QED
    BY <2>2, <2>6, <2>8, <2>9, <2>10 DEF ServedFor, Reads
<1> QED
  BY <1>6, <1>7, <1>8, <1>9, <1>10, <1>13, <1>14 DEF IInv

LEMMA AnswerInPartsKeeps ==
  ASSUME IInv, NEW i \in DOMAIN queue, AnswerInParts(i)
  PROVE  IInv'
<1>1. /\ Execute(queue[i]) /\ inbox' = inbox \o Reply(queue[i], TRUE)
      /\ queue' = [queue EXCEPT ![i].cmd = "rest"] /\ shifted' = TRUE /\ quiet' = [c \in Callers |-> FALSE]
      /\ UNCHANGED <<up, conn, mu, exec, lmu, local, call, done, lost, calls, probes>>
  BY DEF AnswerInParts, Disturbed
<1>2. faults' \in 0..MaxFaults
  BY FaultsBounded DEF AnswerInParts, IInv
<1>3. service' \in Nat /\ minted' \in Nat
  BY <1>1, Executes DEF IInv
<1>4. inbox' \in Seq(Answers)
  BY <1>1, <1>3, Replies DEF IInv
<1>5. queue' \in Seq(Queued)
  <2>1. queue \in Seq(Queued) /\ i \in 1..Len(queue) /\ queue[i] \in Queued
    BY Elements DEF IInv, Typed
  <2>2. [queue[i] EXCEPT !.cmd = "rest"] \in Queued
    BY <2>1 DEF Queued
  <2>3. queue' = [queue EXCEPT ![i] = [queue[i] EXCEPT !.cmd = "rest"]]
    BY <1>1
  <2> QED
    BY <2>1, <2>2, <2>3, ExceptSeq
<1> USE <1>1
<1>6. Typed'
  BY <1>2, <1>3, <1>4, <1>5 DEF IInv, Typed
<1>7. Minted'
  BY RepliesMinted DEF IInv
<1>8. Doing'
  BY DEF IInv, Doing
<1>9. Holders'
  BY DEF IInv, Holders
<1>10. Counted'
  BY DEF IInv, Counted
<1>11. OneAtATime'
  BY DEF OneAtATime
<1>12. Served'
  BY DEF Served
<1> QED
  BY <1>6, <1>7, <1>8, <1>9, <1>10, <1>11, <1>12 DEF IInv

LEMMA StopKeeps ==
  ASSUME IInv, Stop
  PROVE  IInv'
<1>1. /\ faults' \in 0..MaxFaults /\ quiet' = [c \in Callers |-> FALSE] /\ queue' = <<>> /\ queue' \in Seq(Queued)
      /\ DOMAIN queue' = {}
  BY FaultsBounded, EmptySeq DEF Stop, Disturbed, IInv
<1> USE <1>1 DEF Stop
<1>2. Typed'
  <2>1. service' \in Nat /\ conn' \in {"none", "live", "dead"} /\ quiet' \in [Callers -> BOOLEAN] /\ up' \in BOOLEAN
    BY DEF IInv, Typed, Disabled
  <2> QED
    BY <2>1 DEF IInv, Typed
<1>3. Minted'
  BY DEF IInv, Typed, Minted, Disabled
<1>4. Doing'
  BY DEF IInv, Doing
<1>5. Holders'
  BY DEF IInv, Holders
<1>6. Counted'
  BY DEF IInv, Counted
<1>7. OneAtATime'
  BY DEF IInv, OneAtATime, Reads
<1>8. Served'
  BY DEF Served
<1> QED
  BY <1>2, <1>3, <1>4, <1>5, <1>6, <1>7, <1>8 DEF IInv

LEMMA StartKeeps ==
  ASSUME IInv, Start
  PROVE  IInv'
<1> USE DEF Start, link, hist
<1>1. Typed'
  BY DEF IInv, Typed
<1>2. Minted'
  BY DEF IInv, Minted
<1>3. Doing' /\ Holders' /\ Counted'
  BY DEF IInv, Doing, Holders, Counted
<1>4. OneAtATime'
  BY DEF IInv, OneAtATime, Reads
<1>5. Served'
  BY DEF IInv, Served, ServedFor
<1> QED
  BY <1>1, <1>2, <1>3, <1>4, <1>5 DEF IInv

LEMMA BeginKeeps ==
  ASSUME IInv, NEW c \in Callers, Begin(c)
  PROVE  IInv'
<1>1. CallTo(c, "endpoint", 1, Disabled)
  BY CallBegins DEF IInv, Begin
<1>2. /\ call[c].step = "idle" /\ exec[c].step = "idle" /\ lmu # c /\ c # None
      /\ lmu \in Callers \cup {None} /\ Callers \subseteq Procs
  BY CallsAssumption DEF Begin, IInv, Doing, Holders, Procs, Typed
<1>3. /\ done' = [done EXCEPT ![c] = 0] /\ lost' = [lost EXCEPT ![c] = 0]
      /\ quiet' = [quiet EXCEPT ![c] = up /\ ~shifted] /\ calls' \in 0..MaxCalls
      /\ UNCHANGED <<up, service, minted, conn, inbox, queue, mu, exec, lmu, local, shifted, probes, faults>>
  BY CallsAssumption DEF Begin, IInv, Typed, cc, link
<1> USE <1>1, <1>2, <1>3 DEF CallTo
<1>4. Typed'
  <2>1. quiet' \in [Callers -> BOOLEAN] /\ done' \in [Callers -> Nat] /\ lost' \in [Callers -> Nat]
    BY DEF IInv, Typed
  <2> QED
    BY <2>1 DEF IInv, Typed
<1>5. Minted'
  BY DEF IInv, Minted
<1>6. Doing'
  BY DEF IInv, Doing
<1>7. Holders'
  BY DEF IInv, Holders
<1>8. Counted'
  <2>1. done'[c] = 0 /\ lost'[c] = 0 /\ 0 <= 1 + 0 /\ \A d \in Callers \ {c} : done'[d] = done[d] /\ lost'[d] = lost[d]
    BY DEF IInv, Typed
  <2> QED
    BY <2>1 DEF IInv, Counted
<1>9. OneAtATime'
  BY DEF IInv, OneAtATime, Reads
<1>10. Served'
  <2> SUFFICES ASSUME NEW d \in Callers, quiet'[d] PROVE ServedFor(d)'
    BY DEF Served
  <2>1. CASE d = c
    <3>1. up /\ ~shifted
      BY <2>1 DEF IInv, Typed
    <3> QED
      BY <2>1, <3>1 DEF ServedFor, Reads, Answered
  <2>2. CASE d # c
    <3>1. ServedFor(d)
      BY <2>2 DEF IInv, Served, Typed
    <3>2. lmu # None => call'[lmu] = call[lmu]
      OBVIOUS
    <3> QED
      BY <2>2, <3>1, <3>2 DEF ServedFor, Reads, Answered
  <2> QED
    BY <2>1, <2>2
<1> QED
  BY <1>4, <1>5, <1>6, <1>7, <1>8, <1>9, <1>10 DEF IInv

LEMMA EndpointKeeps ==
  ASSUME IInv, NEW c \in Callers, endpoint(c)
  PROVE  IInv'
<1>1. CallTo(c, "post", call[c].try, local)
  BY CallReads DEF IInv, endpoint
<1>2. /\ call[c].step = "endpoint" /\ lmu = None
      /\ UNCHANGED <<up, service, minted, conn, inbox, queue, mu, exec, lmu, local, done, lost, quiet, shifted,
                     calls, probes, faults>>
  BY DEF endpoint, cc, link, hist
<1> USE <1>1, <1>2 DEF CallTo
<1>3. Typed'
  BY DEF IInv, Typed
<1>4. Minted'
  BY DEF IInv, Minted
<1>5. Doing'
  BY DEF IInv, Doing
<1>6. Holders'
  BY DEF IInv, Holders
<1>7. Counted'
  BY DEF IInv, Counted
<1>8. OneAtATime'
  BY DEF IInv, OneAtATime, Reads
<1>9. Served'
  <2> SUFFICES ASSUME NEW d \in Callers, quiet'[d] PROVE ServedFor(d)'
    BY DEF Served
  <2>1. ServedFor(d)
    BY DEF IInv, Served
  <2>2. d # c => call'[d] = call[d]
    OBVIOUS
  <2> QED
    BY <2>1, <2>2 DEF ServedFor, Reads, Answered
<1> QED
  BY <1>3, <1>4, <1>5, <1>6, <1>7, <1>8, <1>9 DEF IInv

LEMMA TryFailedMoves ==
  ASSUME Typed, NEW c \in Callers, call[c].step = "post", TryFailed(c)
  PROVE  \/ call[c].try = 1 /\ CallTo(c, "refresh", 1, call[c].port)
         \/ call[c].try # 1 /\ CallEnds(c, "error")
<1>1. CASE call[c].try = 1
  BY <1>1, CallSteps DEF TryFailed
<1>2. CASE call[c].try # 1
  BY <1>2, Returned DEF TryFailed
<1> QED
  BY <1>1, <1>2

LEMMA PostKeeps ==
  ASSUME IInv, NEW c \in Callers, Post(c)
  PROVE  IInv'
<1>1. /\ call[c].step = "post" /\ done[c] = lost[c] /\ done[c] \in Nat /\ lost[c] \in Nat
      /\ exec[c].step = "idle" /\ lmu # c /\ lmu \in Callers \cup {None} /\ Callers \subseteq Procs /\ c # None
      /\ UNCHANGED <<up, service, minted, conn, inbox, queue, mu, exec, lmu, local, shifted, calls, probes>>
  BY CallsAssumption DEF Post, IInv, Typed, Counted, Doing, Holders, Procs, cc, link
<1>2. /\ call' \in [Callers -> IdleCalls \cup BusyCalls]
      /\ \A d \in Callers \ {c} : call'[d] = call[d]
      /\ call'[c].step \in {"idle", "refresh"}
      /\ call'[c].step = "refresh" => call'[c].try = 1
      /\ done' \in [Callers -> Nat] /\ lost' \in [Callers -> Nat]
      /\ \A d \in Callers \ {c} : done'[d] = done[d] /\ lost'[d] = lost[d] /\ quiet'[d] = quiet[d]
      /\ call'[c].step # "idle" => done'[c] = lost'[c]
      /\ done'[c] <= 1 + lost'[c]
      /\ quiet' \in [Callers -> BOOLEAN] /\ faults' \in 0..MaxFaults
      /\ quiet'[c] => /\ quiet[c]
                      /\ \/ Accepted(c) /\ call'[c].step = "idle" /\ call'[c].result = "ok"
                         \/ ~Accepted(c) /\ (call'[c].step = "idle" => call[c].try # 1)
  <2>1. CASE /\ Accepted(c)
             /\ done' = [done EXCEPT ![c] = @ + 1]
             /\ TrySucceeded(c)
             /\ UNCHANGED <<lost, quiet, faults>>
    <3>1. CallEnds(c, "ok")
      BY <2>1, Returned DEF TrySucceeded, IInv
    <3>2. done' \in [Callers -> Nat] /\ done'[c] = done[c] + 1 /\ \A d \in Callers \ {c} : done'[d] = done[d]
      BY <1>1, <2>1 DEF IInv, Typed
    <3> QED
      BY <1>1, <2>1, <3>1, <3>2 DEF CallEnds, IInv, Typed
  <2>2. CASE /\ Accepted(c) /\ Faulty
             /\ done' = [done EXCEPT ![c] = @ + 1] /\ lost' = [lost EXCEPT ![c] = @ + 1]
             /\ quiet' = [quiet EXCEPT ![c] = FALSE]
             /\ TryFailed(c)
    <3>1. \/ call[c].try = 1 /\ CallTo(c, "refresh", 1, call[c].port)
          \/ call[c].try # 1 /\ CallEnds(c, "error")
      BY <1>1, <2>2, TryFailedMoves DEF IInv
    <3>2. /\ done' \in [Callers -> Nat] /\ done'[c] = done[c] + 1 /\ \A d \in Callers \ {c} : done'[d] = done[d]
          /\ lost' \in [Callers -> Nat] /\ lost'[c] = lost[c] + 1 /\ \A d \in Callers \ {c} : lost'[d] = lost[d]
          /\ quiet' \in [Callers -> BOOLEAN] /\ quiet'[c] = FALSE
          /\ \A d \in Callers \ {c} : quiet'[d] = quiet[d]
      BY <1>1, <2>2 DEF IInv, Typed
    <3>3. done'[c] = lost'[c] /\ done'[c] <= 1 + lost'[c]
      BY <1>1, <3>2
    <3>4. faults' \in 0..MaxFaults
      BY <2>2, FaultsBounded DEF IInv
    <3> QED
      BY <3>1, <3>2, <3>3, <3>4 DEF CallEnds, CallTo
  <2>3. CASE ~Accepted(c) /\ TryFailed(c) /\ UNCHANGED <<done, lost, quiet, faults>>
    <3>1. \/ call[c].try = 1 /\ CallTo(c, "refresh", 1, call[c].port)
          \/ call[c].try # 1 /\ CallEnds(c, "error")
      BY <1>1, <2>3, TryFailedMoves DEF IInv
    <3>2. done'[c] = lost'[c] /\ done'[c] <= 1 + lost'[c]
      BY <1>1, <2>3
    <3> QED
      BY <2>3, <3>1, <3>2 DEF CallEnds, CallTo, IInv, Typed
  <2> QED
    BY <2>1, <2>2, <2>3 DEF Post
<1> USE <1>1, <1>2
<1>3. Typed'
  BY DEF IInv, Typed
<1>4. Minted'
  BY DEF IInv, Minted
<1>5. Doing'
  BY DEF IInv, Doing
<1>6. Holders'
  BY DEF IInv, Holders
<1>7. Counted'
  BY DEF IInv, Counted
<1>8. OneAtATime'
  BY DEF IInv, OneAtATime, Reads
<1>9. Served'
  <2> SUFFICES ASSUME NEW d \in Callers, quiet'[d] PROVE ServedFor(d)'
    BY DEF Served
  <2>1. quiet[d] /\ ServedFor(d)
    BY DEF IInv, Served
  <2>2. CASE d = c
    <3>1. ~Accepted(c) => call[c].try # 2
      BY <2>1, <2>2 DEF ServedFor, Accepted
    <3>2. call[c].try \in Tries /\ (call[c].try = 1 \/ call[c].try = 2 \/ call[c].try = 0)
      BY DEF IInv, Typed, IdleCalls, BusyCalls, Tries
    <3>3. call[c].try # 0
      BY DEF IInv, Doing
    <3>4. call'[c].step = "idle" => call'[c].result = "ok"
      BY <2>2, <3>1, <3>2, <3>3
    <3> QED
      BY <2>1, <2>2, <3>4 DEF ServedFor, Reads, Answered
  <2>3. CASE d # c
    BY <2>1, <2>3 DEF ServedFor, Reads, Answered
  <2> QED
    BY <2>2, <2>3
<1> QED
  BY <1>3, <1>4, <1>5, <1>6, <1>7, <1>8, <1>9 DEF IInv

LEMMA RefreshKeeps ==
  ASSUME IInv, NEW c \in Callers, Refresh(c)
  PROVE  IInv'
<1>1. /\ call[c].step = "refresh" /\ lmu = None /\ lmu' = c /\ c # None
      /\ exec[c].step = "idle" /\ call[c].try = 1 /\ Callers \subseteq Procs /\ c \in Procs /\ c \notin Pollers
      /\ UNCHANGED <<up, service, minted, conn, inbox, queue, mu, local, done, lost, quiet, shifted,
                     calls, probes, faults>>
  BY CallsAssumption DEF Refresh, IInv, Doing, Procs, cc, link, hist
<1>2. CallTo(c, "enable", 1, call[c].port)
  BY <1>1, CallSteps DEF IInv, Refresh
<1>3. ExecTo(c, "lock", "enable", 1, <<>>) /\ DOMAIN <<>> = {}
  <2>1. Typed /\ exec' = [exec EXCEPT ![c] = Exec("enable")]
    BY DEF IInv, Refresh
  <2>2. ExecTo(c, "lock", "enable", 1, <<>>)
    BY <1>1, <2>1, ExecBegins, SomeCommands
  <2> QED
    BY <2>2
<1> USE <1>1, <1>2, <1>3 DEF CallTo, ExecTo
<1>4. Typed'
  BY DEF IInv, Typed
<1>5. Minted'
  BY DEF IInv, Minted
<1>6. Doing'
  <2>1. ASSUME NEW p \in Procs
        PROVE  /\ exec'[p].step # "idle" => exec'[p].cmd \in Commands /\ exec'[p].try \in {1, 2}
               /\ exec'[p].step = "ok" => exec'[p].ans # <<>>
               /\ exec'[p].step = "lock" => exec'[p].try = 1
    BY SomeCommands DEF IInv, Doing
  <2>2. \A p \in Pollers : exec'[p].step # "idle" => exec'[p].cmd = "probe"
    BY DEF IInv, Doing, Procs
  <2>3. ASSUME NEW d \in Callers
        PROVE  /\ call'[d].step \in {"enable", "print"} => exec'[d].cmd = call'[d].step /\ exec'[d].step # "idle"
               /\ call'[d].step \notin {"enable", "print"} => exec'[d].step = "idle"
               /\ call'[d].step \in {"refresh", "enable", "print"} => call'[d].try = 1
               /\ call'[d].step # "idle" => call'[d].try # 0
    <3>1. CASE d = c
      BY <3>1
    <3>2. CASE d # c
      BY <3>2 DEF IInv, Doing
    <3> QED
      BY <3>1, <3>2
  <2> QED
    BY <2>1, <2>2, <2>3, Zenon DEF Doing
<1>7. Holders'
  <2>1. \A d \in Callers : lmu # d
    BY CallsAssumption, <1>1 DEF Procs
  <2> QED
    BY <2>1 DEF IInv, Holders
<1>8. Counted'
  BY DEF IInv, Counted
<1>9. OneAtATime'
  BY Elements DEF IInv, OneAtATime, Reads
<1>10. Served'
  <2> SUFFICES ASSUME NEW d \in Callers, quiet'[d] PROVE ServedFor(d)'
    BY DEF Served
  <2>1. ServedFor(d)
    BY DEF IInv, Served
  <2>2. ~Answered(c)'
    BY DEF Answered, Reads
  <2>3. CASE d = c
    BY <2>1, <2>2, <2>3 DEF ServedFor, Reads
  <2>4. CASE d # c
    <3>1. exec'[d] = exec[d] /\ call'[d] = call[d]
      BY <2>4
    <3> QED
      BY <2>1, <2>2, <3>1 DEF ServedFor, Reads, Answered
  <2> QED
    BY <2>3, <2>4
<1> QED
  BY <1>4, <1>5, <1>6, <1>7, <1>8, <1>9, <1>10 DEF IInv

LEMMA ProbeKeeps ==
  ASSUME IInv, NEW p \in Pollers, Probe(p)
  PROVE  IInv'
<1>1. /\ exec[p].step \in {"idle", "ok", "fail"} /\ p \in Procs /\ p \notin Callers /\ Callers \subseteq Procs
      /\ lmu \in Callers \cup {None} /\ p # None
      /\ UNCHANGED <<up, service, minted, conn, inbox, queue, mu, lmu, local, call, done, lost, quiet, shifted,
                     calls, faults>>
      /\ probes' \in 0..MaxProbes
  BY CallsAssumption DEF Probe, IInv, Typed, Procs, cc, link, hist
<1>2. ExecTo(p, "lock", "probe", 1, <<>>) /\ DOMAIN <<>> = {}
  <2>1. Typed /\ exec' = [exec EXCEPT ![p] = Exec("probe")]
    BY DEF IInv, Probe
  <2>2. ExecTo(p, "lock", "probe", 1, <<>>)
    BY <1>1, <2>1, ExecBegins, SomeCommands
  <2> QED
    BY <2>2
<1> USE <1>1, <1>2 DEF ExecTo
<1>3. Typed'
  BY DEF IInv, Typed
<1>4. Minted'
  BY DEF IInv, Minted
<1>5. Doing'
  <2>1. ASSUME NEW q \in Procs
        PROVE  /\ exec'[q].step # "idle" => exec'[q].cmd \in Commands /\ exec'[q].try \in {1, 2}
               /\ exec'[q].step = "ok" => exec'[q].ans # <<>>
               /\ exec'[q].step = "lock" => exec'[q].try = 1
    BY SomeCommands DEF IInv, Doing
  <2>2. \A q \in Pollers : exec'[q].step # "idle" => exec'[q].cmd = "probe"
    BY DEF IInv, Doing, Procs
  <2>3. \A d \in Callers : exec'[d] = exec[d]
    OBVIOUS
  <2> QED
    BY <2>1, <2>2, <2>3 DEF IInv, Doing
<1>6. Holders'
  BY DEF IInv, Holders
<1>7. Counted'
  BY DEF IInv, Counted
<1>8. OneAtATime'
  BY Elements DEF IInv, OneAtATime, Reads
<1>9. Served'
  <2> SUFFICES ASSUME NEW d \in Callers, quiet'[d] PROVE ServedFor(d)'
    BY DEF Served
  <2>1. ServedFor(d) /\ exec'[d] = exec[d]
    BY DEF IInv, Served
  <2>2. lmu # None => exec'[lmu] = exec[lmu]
    OBVIOUS
  <2> QED
    BY <2>1, <2>2 DEF ServedFor, Reads, Answered
<1> QED
  BY <1>3, <1>4, <1>5, <1>6, <1>7, <1>8, <1>9 DEF IInv

\* Who gives up has met a fault.
LEMMA GiveUpKeeps ==
  ASSUME IInv, NEW c \in Callers, call[c].step \in {"enable", "print"}, exec[c].step \in {"ok", "fail"},
         GiveUp(c), ~quiet[c], UNCHANGED <<cc, link, mu, hist, calls, probes, faults>>
  PROVE  IInv'
<1>1. /\ lmu = c /\ lmu' = None /\ c # None /\ Callers \subseteq Procs /\ c \in Procs /\ c \notin Pollers
      /\ UNCHANGED <<up, service, minted, conn, inbox, queue, mu, local, done, lost, quiet, shifted,
                     calls, probes, faults>>
  BY CallsAssumption DEF GiveUp, Unlock, IInv, Holders, Procs, cc, link, hist
<1>2. CallEnds(c, "error")
  BY Returned DEF IInv, GiveUp
<1>3. ExecTo(c, "idle", "none", 0, <<>>) /\ DOMAIN <<>> = {}
  <2>1. Typed /\ exec' = [exec EXCEPT ![c] = NoCommand]
    BY DEF IInv, GiveUp
  <2>2. ExecTo(c, "idle", "none", 0, <<>>)
    BY <1>1, <2>1, ExecEnds
  <2> QED
    BY <2>2
<1> USE <1>1, <1>2, <1>3 DEF CallEnds, ExecTo
<1>4. Typed'
  BY DEF IInv, Typed
<1>5. Minted'
  BY DEF IInv, Minted
<1>6. Doing'
  <2>1. ASSUME NEW p \in Procs
        PROVE  /\ exec'[p].step # "idle" => exec'[p].cmd \in Commands /\ exec'[p].try \in {1, 2}
               /\ exec'[p].step = "ok" => exec'[p].ans # <<>>
               /\ exec'[p].step = "lock" => exec'[p].try = 1
    BY DEF IInv, Doing
  <2>2. \A p \in Pollers : exec'[p].step # "idle" => exec'[p].cmd = "probe"
    BY DEF IInv, Doing, Procs
  <2>3. ASSUME NEW d \in Callers
        PROVE  /\ call'[d].step \in {"enable", "print"} => exec'[d].cmd = call'[d].step /\ exec'[d].step # "idle"
               /\ call'[d].step \notin {"enable", "print"} => exec'[d].step = "idle"
               /\ call'[d].step \in {"refresh", "enable", "print"} => call'[d].try = 1
               /\ call'[d].step # "idle" => call'[d].try # 0
    <3>1. CASE d = c
      BY <3>1
    <3>2. CASE d # c
      BY <3>2 DEF IInv, Doing
    <3> QED
      BY <3>1, <3>2
  <2> QED
    BY <2>1, <2>2, <2>3, Zenon DEF Doing
<1>7. Holders'
  BY CallsAssumption DEF IInv, Holders, Procs
<1>8. Counted'
  BY DEF IInv, Counted
<1>9. OneAtATime'
  BY Elements DEF IInv, OneAtATime, Reads
<1>10. Served'
  <2> SUFFICES ASSUME NEW d \in Callers, quiet'[d] PROVE ServedFor(d)'
    BY DEF Served
  <2>1. ServedFor(d) /\ d # c
    BY DEF IInv, Served
  <2>2. exec'[d] = exec[d] /\ call'[d] = call[d]
    BY <2>1
  <2> QED
    BY <2>1, <2>2 DEF ServedFor, Reads, Answered
<1> QED
  BY <1>4, <1>5, <1>6, <1>7, <1>8, <1>9, <1>10 DEF IInv

LEMMA EnabledKeeps ==
  ASSUME IInv, NEW c \in Callers, Enabled(c)
  PROVE  IInv'
<1>1. call[c].step = "enable" /\ UNCHANGED <<cc, link, mu, hist, calls, probes, faults>>
  BY DEF Enabled
<1>2. CASE exec[c].step = "fail" /\ GiveUp(c)
  <2>1. ~quiet[c]
    BY <1>2 DEF IInv, Served, ServedFor
  <2> QED
    BY <1>1, <1>2, <2>1, GiveUpKeeps
<1>3. CASE /\ exec[c].step = "ok"
           /\ exec' = [exec EXCEPT ![c] = Exec("print")]
           /\ call' = [call EXCEPT ![c].step = "print"]
           /\ UNCHANGED <<lmu, local>>
  <2>1. /\ lmu = c /\ lmu' = lmu /\ c # None /\ Callers \subseteq Procs /\ c \in Procs /\ c \notin Pollers
        /\ call[c].try = 1
        /\ UNCHANGED <<up, service, minted, conn, inbox, queue, mu, local, done, lost, quiet, shifted,
                       calls, probes, faults>>
    BY <1>1, <1>3, CallsAssumption DEF IInv, Doing, Holders, Procs, cc, link, hist
  <2>2. CallTo(c, "print", 1, call[c].port)
    BY <1>1, <1>3, <2>1, CallSteps DEF IInv
  <2>3. ExecTo(c, "lock", "print", 1, <<>>) /\ DOMAIN <<>> = {}
    <3>1. Typed /\ exec' = [exec EXCEPT ![c] = Exec("print")]
      BY <1>3 DEF IInv
    <3>2. ExecTo(c, "lock", "print", 1, <<>>)
      BY <2>1, <3>1, ExecBegins, SomeCommands
    <3> QED
      BY <3>2
  <2> USE <1>1, <1>3, <2>1, <2>2, <2>3 DEF CallTo, ExecTo
  <2>4. Typed'
    BY DEF IInv, Typed
  <2>5. Minted'
    BY DEF IInv, Minted
  <2>6. Doing'
    <3>1. ASSUME NEW p \in Procs
          PROVE  /\ exec'[p].step # "idle" => exec'[p].cmd \in Commands /\ exec'[p].try \in {1, 2}
                 /\ exec'[p].step = "ok" => exec'[p].ans # <<>>
                 /\ exec'[p].step = "lock" => exec'[p].try = 1
      BY SomeCommands DEF IInv, Doing
    <3>2. \A p \in Pollers : exec'[p].step # "idle" => exec'[p].cmd = "probe"
      BY DEF IInv, Doing, Procs
    <3>3. ASSUME NEW d \in Callers
          PROVE  /\ call'[d].step \in {"enable", "print"} => exec'[d].cmd = call'[d].step /\ exec'[d].step # "idle"
                 /\ call'[d].step \notin {"enable", "print"} => exec'[d].step = "idle"
                 /\ call'[d].step \in {"refresh", "enable", "print"} => call'[d].try = 1
                 /\ call'[d].step # "idle" => call'[d].try # 0
      <4>1. CASE d = c
        BY <4>1
      <4>2. CASE d # c
        BY <4>2 DEF IInv, Doing
      <4> QED
        BY <4>1, <4>2
    <3> QED
      BY <3>1, <3>2, <3>3, Zenon DEF Doing
  <2>7. Holders'
    BY DEF IInv, Holders
  <2>8. Counted'
    BY DEF IInv, Counted
  <2>9. OneAtATime'
    BY Elements DEF IInv, OneAtATime, Reads
  <2>10. Served'
    <3> SUFFICES ASSUME NEW d \in Callers, quiet'[d] PROVE ServedFor(d)'
      BY DEF Served
    <3>1. ServedFor(d) /\ Answered(c)
      BY DEF IInv, Served, Answered
    <3>2. CASE d = c
      BY <3>1, <3>2 DEF ServedFor, Reads
    <3>3. CASE d # c
      <4>1. exec'[d] = exec[d] /\ call'[d] = call[d]
        BY <3>3
      <4>2. ~(call[d].step \in {"endpoint", "post"} /\ call[d].try = 2)
        BY <3>1 DEF ServedFor
      <4> QED
        BY <3>1, <4>1, <4>2 DEF ServedFor, Reads, Answered
    <3> QED
      BY <3>2, <3>3
  <2> QED
    BY <2>4, <2>5, <2>6, <2>7, <2>8, <2>9, <2>10 DEF IInv
<1> QED
  BY <1>2, <1>3 DEF Enabled

\* What print was answered decodes to the endpoint in use and nothing else.
LEMMA PortsOfQuietCall ==
  ASSUME IInv, NEW c \in Callers, quiet[c], call[c].step = "print", exec[c].step = "ok"
  PROVE  Ports(exec[c].ans) = {service} /\ service # Disabled
<1> DEFINE ans == exec[c].ans
<1>1. c \in Procs /\ ServedFor(c) /\ exec[c].cmd = "print" /\ ~shifted /\ service # Disabled
  BY DEF IInv, Served, ServedFor, Doing, Procs
<1>2. ans # <<>> /\ ans \in Seq(Answers)
  BY <1>1 DEF IInv, Doing, Typed, Execs
<1>3. \A i \in DOMAIN ans : ans[i].cmd = "print" /\ ~ans[i].cut /\ ans[i].port = service
  BY <1>1 DEF IInv, OneAtATime, ServedFor
<1>4. PICK i \in DOMAIN ans : TRUE
  <2> HIDE DEF ans
  <2>1. Len(ans) \in Nat \ {0} /\ DOMAIN ans = 1..Len(ans)
    BY <1>2, EmptySeq, LenProperties
  <2>2. 1 \in DOMAIN ans
    BY <2>1
  <2> QED
    BY <2>2
<1> HIDE DEF ans
<1>5. {j \in DOMAIN ans : ans[j].cut} = {} /\ {j \in DOMAIN ans : ans[j].cmd = "print"} = DOMAIN ans
  BY <1>3
<1>6. {ans[j].port : j \in DOMAIN ans} = {service}
  BY <1>3, <1>4
<1>7. Ports(ans) = {service}
  BY <1>5, <1>6 DEF Ports
<1> QED
  BY <1>1, <1>7 DEF ans

LEMMA PrintedKeeps ==
  ASSUME IInv, NEW c \in Callers, Printed(c)
  PROVE  IInv'
<1>1. call[c].step = "print" /\ UNCHANGED <<cc, link, mu, hist, calls, probes, faults>>
  BY DEF Printed
<1>2. CASE exec[c].step = "fail" /\ GiveUp(c)
  <2>1. ~quiet[c]
    BY <1>2 DEF IInv, Served, ServedFor
  <2> QED
    BY <1>1, <1>2, <2>1, GiveUpKeeps
<1>3. CASE exec[c].step = "ok" /\ (Ports(exec[c].ans) = {} \/ Disabled \in Ports(exec[c].ans)) /\ GiveUp(c)
  <2>1. ~quiet[c]
    BY <1>1, <1>3, PortsOfQuietCall
  <2> QED
    BY <1>1, <1>3, <2>1, GiveUpKeeps
<1>4. ASSUME exec[c].step = "ok", NEW port \in Ports(exec[c].ans) \ {Disabled},
             local' = port, Unlock,
             call' = [call EXCEPT ![c].step = "endpoint", ![c].try = 2],
             exec' = [exec EXCEPT ![c] = NoCommand]
      PROVE  IInv'
  <2>1. /\ lmu = c /\ lmu' = None /\ c # None /\ Callers \subseteq Procs /\ c \in Procs /\ c \notin Pollers
        /\ UNCHANGED <<up, service, minted, conn, inbox, queue, mu, done, lost, quiet, shifted,
                       calls, probes, faults>>
    BY <1>1, <1>4, CallsAssumption DEF Unlock, IInv, Holders, Procs, cc, link, hist
  <2>2. CallTo(c, "endpoint", 2, call[c].port)
    BY <1>1, <1>4, CallRetries DEF IInv
  <2>3. ExecTo(c, "idle", "none", 0, <<>>) /\ DOMAIN <<>> = {}
    <3>1. Typed /\ exec' = [exec EXCEPT ![c] = NoCommand]
      BY <1>4 DEF IInv
    <3>2. ExecTo(c, "idle", "none", 0, <<>>)
      BY <2>1, <3>1, ExecEnds
    <3> QED
      BY <3>2
  <2>4. port \in Nat /\ port <= minted
    <3>1. exec[c].ans \in Seq(Answers)
      BY <2>1 DEF IInv, Typed, Execs
    <3>2. PICK i \in DOMAIN exec[c].ans : port = exec[c].ans[i].port
      BY <1>4 DEF Ports
    <3>3. exec[c].ans[i] \in Answers
      BY <3>1, LenProperties
    <3> QED
      BY <2>1, <3>2, <3>3 DEF Answers, IInv, Minted
  <2>5. local' = port /\ exec[c].step = "ok"
    BY <1>4
  <2> USE <1>1, <2>1, <2>2, <2>3, <2>4, <2>5 DEF CallTo, ExecTo
  <2>6. Typed'
    BY DEF IInv, Typed
  <2>7. Minted'
    BY DEF IInv, Minted
  <2>8. Doing'
    <3>1. ASSUME NEW p \in Procs
          PROVE  /\ exec'[p].step # "idle" => exec'[p].cmd \in Commands /\ exec'[p].try \in {1, 2}
                 /\ exec'[p].step = "ok" => exec'[p].ans # <<>>
                 /\ exec'[p].step = "lock" => exec'[p].try = 1
      BY DEF IInv, Doing
    <3>2. \A p \in Pollers : exec'[p].step # "idle" => exec'[p].cmd = "probe"
      BY DEF IInv, Doing, Procs
    <3>3. ASSUME NEW d \in Callers
          PROVE  /\ call'[d].step \in {"enable", "print"} => exec'[d].cmd = call'[d].step /\ exec'[d].step # "idle"
                 /\ call'[d].step \notin {"enable", "print"} => exec'[d].step = "idle"
                 /\ call'[d].step \in {"refresh", "enable", "print"} => call'[d].try = 1
                 /\ call'[d].step # "idle" => call'[d].try # 0
      <4>1. CASE d = c
        BY <4>1
      <4>2. CASE d # c
        BY <4>2 DEF IInv, Doing
      <4> QED
        BY <4>1, <4>2
    <3> QED
      BY <3>1, <3>2, <3>3, Zenon DEF Doing
  <2>9. Holders'
    BY CallsAssumption DEF IInv, Holders, Procs
  <2>10. Counted'
    BY DEF IInv, Counted
  <2>11. OneAtATime'
    BY Elements DEF IInv, OneAtATime, Reads
  <2>12. Served'
    <3> SUFFICES ASSUME NEW d \in Callers, quiet'[d] PROVE ServedFor(d)'
      BY DEF Served
    <3>1. ServedFor(d)
      BY DEF IInv, Served
    <3>2. CASE d = c
      <4>1. Ports(exec[c].ans) = {service} /\ service # Disabled
        BY <3>2, PortsOfQuietCall
      <4>2. port = service
        BY <1>4, <4>1
      <4> QED
        BY <3>1, <3>2, <4>1, <4>2 DEF ServedFor, Reads
    <3>3. CASE d # c
      <4>1. exec'[d] = exec[d] /\ call'[d] = call[d]
        BY <3>3
      <4>2. ~(call[d].step \in {"endpoint", "post"} /\ call[d].try = 2)
        BY <3>1 DEF ServedFor
      <4> QED
        BY <3>1, <4>1, <4>2 DEF ServedFor, Reads, Answered
    <3> QED
      BY <3>2, <3>3
  <2> QED
    BY <2>6, <2>7, <2>8, <2>9, <2>10, <2>11, <2>12 DEF IInv
<1> QED
  BY <1>2, <1>3, <1>4 DEF Printed

LEMMA StepHolds == IInv /\ [Next]_vars => IInv'
<1> SUFFICES ASSUME IInv, [Next]_vars PROVE IInv'
  OBVIOUS
<1>1. ASSUME NEW p \in Procs, Terminal(p) PROVE IInv'
  BY <1>1, LockKeeps, SendKeeps, ReadKeeps, NoAnswerKeeps DEF Terminal
<1>2. ASSUME NEW c \in Callers, Begin(c) \/ Caller(c) PROVE IInv'
  BY <1>2, BeginKeeps, EndpointKeeps, PostKeeps, RefreshKeeps, EnabledKeeps, PrintedKeeps DEF Caller
<1>3. ASSUME NEW p \in Pollers, Probe(p) PROVE IInv'
  BY <1>3, ProbeKeeps
<1>4. ASSUME NEW i \in DOMAIN queue, Answer(i) \/ AnswerInParts(i) PROVE IInv'
  BY <1>4, AnswerKeeps, AnswerInPartsKeeps
<1>5. CASE Stop \/ Start
  BY <1>5, StopKeeps, StartKeeps
<1>6. CASE UNCHANGED vars
  BY <1>6 DEF vars, cc, link, hist, IInv, Typed, Minted, Doing, Holders, Counted, OneAtATime, Reads,
     Served, ServedFor, Answered
<1> QED
  BY <1>1, <1>2, <1>3, <1>4, <1>5, <1>6 DEF Next

LEMMA Invariant == Spec => []IInv
<1> QED
  BY InitHolds, StepHolds, PTL DEF Spec

-----------------------------------------------------------------------------
(* The theorems                                                            *)

\* Every variable has its type, no endpoint is known that was not generated, and
\* who reads from the terminal or refreshes the endpoint holds the mutex.
THEOREM TypeCorrect == Spec => []TypeOK
<1>1. IInv => TypeOK
  <2> SUFFICES ASSUME IInv PROVE TypeOK
    OBVIOUS
  <2>1. service \in Ids /\ local \in Ids
    BY DEF IInv, Typed, Minted, Ids
  <2>2. ASSUME NEW i \in DOMAIN inbox
        PROVE  inbox[i].cmd \in Commands \cup {"rest", "welcome"} /\ inbox[i].port \in Ids
    <3>1. inbox[i] \in Answers
      BY Elements DEF IInv
    <3>2. inbox[i].cmd \in Commands \cup {"rest", "welcome"} /\ inbox[i].port \in Nat /\ inbox[i].port <= minted
      BY <3>1 DEF Answers, IInv, Minted
    <3> QED
      BY <3>2 DEF IInv, Typed, Ids
  <2> QED
    BY <2>1, <2>2 DEF IInv, Typed, Holders, TypeOK
<1> QED
  BY <1>1, Invariant, PTL

\* A command is answered with its own answer and nothing else, whatever a first attempt lost,
\* got late or sent twice, until an answer comes in parts, a welcome after its drain, or a
\* command is given up with its connection open.
THEOREM AnswersAreOwn == Spec => []AnswersOwn
<1>1. IInv => AnswersOwn
  BY DEF IInv, OneAtATime, AnswersOwn
<1> QED
  BY <1>1, Invariant, PTL

\* The robot executes a call twice only if a reply to it was lost.
THEOREM CallsExecuteOnce == Spec => []ExecutedOnce
<1>1. IInv => ExecutedOnce
  BY DEF IInv, Counted, ExecutedOnce
<1> QED
  BY <1>1, Invariant, PTL

\* A call that meets no fault and no enable but its own succeeds, also over an
\* endpoint and a connection that are both stale when it begins.
THEOREM QuietCallsSucceed == Spec => []QuietCallSucceeds
<1>1. IInv => QuietCallSucceeds
  BY DEF IInv, Served, ServedFor, QuietCallSucceeds
<1> QED
  BY <1>1, Invariant, PTL

=============================================================================
