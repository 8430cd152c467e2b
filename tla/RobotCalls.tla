------------------------------ MODULE RobotCalls ------------------------------
(***************************************************************************)
(* Calls to the robot's control_center: commands on its text terminal      *)
(* (robot.Client) and function calls over its local HTTP service           *)
(* (funcapi.Local), whose address and token are recycled by every restart  *)
(* of control_center and acquired anew over the terminal.                  *)
(*                                                                         *)
(* One terminal connection serves all goroutines under a mutex.  An answer *)
(* has no end mark: what has arrived when the connection falls idle is the *)
(* answer.  A command without an answer is sent once more on a new         *)
(* connection; a function call that fails is sent once more to the         *)
(* endpoint acquired anew.  A new connection opens with a welcome, drained *)
(* once for the idle time; the second attempt that fails drops nothing.    *)
(***************************************************************************)
EXTENDS Naturals, Sequences

CONSTANTS Callers,    \* goroutines that call functions (Local.Func)
          Pollers,    \* goroutines that use the terminal alone (Robot.Poll)
          None,       \* nobody holds a mutex
          MaxCalls,   \* bound on function calls
          MaxProbes,  \* bound on terminal probes
          MaxFaults   \* bound on restarts, late welcomes, late or broken answers, lost replies

ASSUME CallsAssumption ==
  /\ Callers \cap Pollers = {} /\ None \notin Callers \cup Pollers
  /\ MaxCalls \in Nat /\ MaxProbes \in Nat /\ MaxFaults \in Nat

Procs == Callers \cup Pollers
Disabled == 0     \* print shows port 0: the service is not enabled

VARIABLES
  up,        \* control_center runs
  service,   \* its endpoint: Disabled or the number of the port and token in use
  minted,    \* endpoints generated so far
  conn,      \* c.conn: "none", "live", or "dead": control_center has gone since
  inbox,     \* answers that have arrived on it and are not yet read
  queue,     \* commands control_center has yet to execute; orphans of closed connections too
  mu,        \* c.mu of the terminal client
  exec,      \* each process: the command in progress, its step and its answer
  lmu,       \* l.mu of the function API
  local,     \* the endpoint in l.BaseURL and l.Token
  call,      \* each caller: its step, the attempt, the endpoint it has read
  done,      \* history: each caller's executions of its present call
  lost,      \* history: replies to its present call that were lost
  quiet,     \* history: no fault and no enable but its own since its call began
  shifted,   \* history: an answer has come in two parts, a welcome after its drain, or
             \* a command was given up with its connection open: answers may be out of step
  calls, probes, faults

cc == <<up, service, minted>>
link == <<conn, inbox, queue>>
hist == <<done, lost, quiet, shifted>>
vars == <<cc, link, mu, exec, lmu, local, call, hist, calls, probes, faults>>

-----------------------------------------------------------------------------
(* The terminal client                                                     *)

NoCommand == [step |-> "idle", cmd |-> "none", try |-> 0, ans |-> <<>>]
Exec(cmd) == [step |-> "lock", cmd |-> cmd, try |-> 1, ans |-> <<>>]

\* Mutant of Free: the terminal is not locked.
FreeForAll == TRUE

Free == mu = None

Lock(p) ==
  /\ exec[p].step = "lock" /\ Free
  /\ mu' = p
  /\ exec' = [exec EXCEPT ![p].step = "send"]
  /\ UNCHANGED <<cc, link, lmu, local, call, hist, calls, probes, faults>>

\* Mutant of dropLocked: the connection is kept after a failure.
KeepConn == UNCHANGED link

\* dropLocked: what is still on its way is read by nobody.
dropLocked ==
  /\ conn' = "none" /\ inbox' = <<>>
  /\ queue' = [i \in DOMAIN queue |-> [queue[i] EXCEPT !.orphan = TRUE]]

\* Mutant of MayRetry: no second attempt.
NoRetry(p) == FALSE

MayRetry(p) == exec[p].try = 1

Faulty == faults < MaxFaults /\ faults' = faults + 1
Disturbed == quiet' = [c \in Callers |-> FALSE]

\* The second attempt, on a new connection, or the error.  The second failure leaves the
\* connection as it is, where the answer may still come; what had come has been read.
Fail(p) ==
  IF MayRetry(p)
  THEN /\ dropLocked
       /\ exec' = [exec EXCEPT ![p].step = "send", ![p].try = 2]
       /\ UNCHANGED <<mu, shifted>>
  ELSE /\ inbox' = <<>> /\ UNCHANGED <<conn, queue>>
       /\ exec' = [exec EXCEPT ![p].step = "fail"] /\ mu' = None
       /\ shifted' = (shifted \/ conn = "live")

Command(p) == [cmd |-> exec[p].cmd, by |-> p, orphan |-> FALSE]

\* ensureLocked dials and drains what comes within readIdle, which may not be the welcome:
\* drainLocked has one deadline and no result.  The command is written all the same.
Send(p) ==
  /\ exec[p].step = "send"
  /\ \/ /\ conn = "live" \/ (conn = "none" /\ up)
        /\ conn' = "live" /\ exec' = [exec EXCEPT ![p].step = "read"]
        /\ \/ /\ queue' = Append(queue, Command(p))
              /\ UNCHANGED <<quiet, shifted, faults>>
           \/ /\ conn = "none" /\ Faulty /\ Disturbed
              /\ queue' = queue \o <<[Command(p) EXCEPT !.cmd = "welcome"], Command(p)>>
              /\ shifted' = TRUE
        /\ UNCHANGED <<mu, inbox>>
     \/ /\ conn = "dead" \/ (conn = "none" /\ ~up)
        /\ Fail(p) /\ UNCHANGED <<quiet, faults>>
  /\ UNCHANGED <<cc, lmu, local, call, done, lost, calls, probes>>

\* readResponseLocked: all that has arrived until the line falls idle.
Read(p) ==
  /\ exec[p].step = "read" /\ conn = "live" /\ inbox # <<>>
  /\ exec' = [exec EXCEPT ![p].step = "ok", ![p].ans = inbox]
  /\ inbox' = <<>>
  /\ mu' = None
  /\ UNCHANGED <<cc, conn, queue, lmu, local, call, hist, calls, probes, faults>>

\* No byte within readIdle, or the connection has ended.
NoAnswer(p) ==
  /\ exec[p].step = "read"
  /\ \/ conn = "dead" /\ UNCHANGED <<faults, quiet>>
     \/ conn = "live" /\ inbox = <<>> /\ Faulty /\ Disturbed
  /\ Fail(p)
  /\ UNCHANGED <<cc, lmu, local, call, done, lost, calls, probes>>

-----------------------------------------------------------------------------
(* control_center                                                          *)

\* The oldest command of the connection, or of those whose connection is closed.
Oldest(i) == \A j \in 1..(i - 1) : queue[j].orphan # queue[i].orphan
Without(q, i) == SubSeq(q, 1, i - 1) \o SubSeq(q, i + 1, Len(q))

\* service_enable generates an endpoint; if there is one, it may keep it.
Execute(q) ==
  \/ q.cmd = "enable" /\ service' = minted + 1 /\ minted' = minted + 1
  \/ (q.cmd = "enable" => service # Disabled) /\ UNCHANGED <<service, minted>>

Reply(q, cut) ==
  IF q.orphan THEN <<>> ELSE <<[cmd |-> q.cmd, by |-> q.by, port |-> service', cut |-> cut]>>

Answer(i) ==
  /\ up /\ Oldest(i)
  /\ Execute(queue[i])
  /\ quiet' = [c \in Callers |-> quiet[c] /\ (queue[i].cmd = "enable" => queue[i].by = c /\ ~queue[i].orphan)]
  /\ inbox' = inbox \o Reply(queue[i], queue[i].cmd = "rest")
  /\ queue' = Without(queue, i)
  /\ UNCHANGED <<up, conn, mu, exec, lmu, local, call, done, lost, shifted, calls, probes, faults>>

\* The answer pauses for longer than readIdle: its rest comes later.
AnswerInParts(i) ==
  /\ up /\ Oldest(i) /\ ~queue[i].orphan /\ queue[i].cmd \notin {"rest", "welcome"} /\ Faulty /\ Disturbed
  /\ Execute(queue[i])
  /\ inbox' = inbox \o Reply(queue[i], TRUE)
  /\ queue' = [queue EXCEPT ![i].cmd = "rest"]
  /\ shifted' = TRUE
  /\ UNCHANGED <<up, conn, mu, exec, lmu, local, call, done, lost, calls, probes>>

\* control_center ends; connections, commands and the endpoint go with it.
Stop ==
  /\ up /\ Faulty /\ Disturbed
  /\ up' = FALSE /\ service' = Disabled
  /\ conn' = IF conn = "live" THEN "dead" ELSE conn
  /\ queue' = <<>>
  /\ UNCHANGED <<minted, inbox, mu, exec, lmu, local, call, done, lost, shifted, calls, probes>>

Start ==
  /\ ~up /\ up' = TRUE
  /\ UNCHANGED <<service, minted, link, mu, exec, lmu, local, call, hist, calls, probes, faults>>

-----------------------------------------------------------------------------
(* The function API                                                        *)

Begin(c) ==
  /\ call[c].step = "idle" /\ calls < MaxCalls
  /\ call' = [call EXCEPT ![c] = [step |-> "endpoint", try |-> 1, port |-> Disabled]]
  /\ done' = [done EXCEPT ![c] = 0] /\ lost' = [lost EXCEPT ![c] = 0]
  /\ quiet' = [quiet EXCEPT ![c] = up /\ ~shifted]
  /\ calls' = calls + 1
  /\ UNCHANGED <<cc, link, mu, exec, lmu, local, shifted, probes, faults>>

endpoint(c) ==
  /\ call[c].step = "endpoint" /\ lmu = None
  /\ call' = [call EXCEPT ![c].step = "post", ![c].port = local]
  /\ UNCHANGED <<cc, link, mu, exec, lmu, local, hist, calls, probes, faults>>

Return(c, result) == call' = [call EXCEPT ![c] = [step |-> "idle", result |-> result]]

\* try has failed: refresh and once more, or the end of the call.
TryFailed(c) == IF call[c].try = 1 THEN call' = [call EXCEPT ![c].step = "refresh"] ELSE Return(c, "error")

\* The HTTP request: served, served with the reply lost, or not accepted.
Accepted(c) == up /\ service # Disabled /\ call[c].port = service

\* Mutant of TrySucceeded: a call that was served is made again.
TryAgain(c) == TryFailed(c)

TrySucceeded(c) == Return(c, "ok")

Post(c) ==
  /\ call[c].step = "post"
  /\ \/ /\ Accepted(c)
        /\ done' = [done EXCEPT ![c] = @ + 1]
        /\ TrySucceeded(c)
        /\ UNCHANGED <<lost, quiet, faults>>
     \/ /\ Accepted(c) /\ Faulty
        /\ done' = [done EXCEPT ![c] = @ + 1] /\ lost' = [lost EXCEPT ![c] = @ + 1]
        /\ quiet' = [quiet EXCEPT ![c] = FALSE]
        /\ TryFailed(c)
     \/ ~Accepted(c) /\ TryFailed(c) /\ UNCHANGED <<done, lost, quiet, faults>>
  /\ UNCHANGED <<cc, link, mu, exec, lmu, local, shifted, calls, probes>>

\* refresh holds l.mu over both commands.
Refresh(c) ==
  /\ call[c].step = "refresh" /\ lmu = None
  /\ lmu' = c
  /\ call' = [call EXCEPT ![c].step = "enable"]
  /\ exec' = [exec EXCEPT ![c] = Exec("enable")]
  /\ UNCHANGED <<cc, link, mu, local, hist, calls, probes, faults>>

\* Mutant of Unlock: the mutex stays locked.
LeaveLocked == UNCHANGED lmu

Unlock == lmu' = None

GiveUp(c) == Unlock /\ Return(c, "error") /\ exec' = [exec EXCEPT ![c] = NoCommand] /\ UNCHANGED local

Enabled(c) ==
  /\ call[c].step = "enable"
  /\ \/ /\ exec[c].step = "ok"
        /\ exec' = [exec EXCEPT ![c] = Exec("print")]
        /\ call' = [call EXCEPT ![c].step = "print"]
        /\ UNCHANGED <<lmu, local>>
     \/ exec[c].step = "fail" /\ GiveUp(c)
  /\ UNCHANGED <<cc, link, mu, hist, calls, probes, faults>>

\* The ports the answer can decode to: the first object in it, unless cut.
Ports(ans) ==
  {ans[i].port : i \in {j \in DOMAIN ans : ans[j].cmd = "print"}}
    \cup {Disabled : i \in {j \in DOMAIN ans : ans[j].cut}}

Printed(c) ==
  /\ call[c].step = "print"
  /\ \/ /\ exec[c].step = "ok"
        /\ \E port \in Ports(exec[c].ans) \ {Disabled} :
             /\ local' = port
             /\ Unlock
             /\ call' = [call EXCEPT ![c].step = "endpoint", ![c].try = 2]
             /\ exec' = [exec EXCEPT ![c] = NoCommand]
     \/ exec[c].step = "ok" /\ (Ports(exec[c].ans) = {} \/ Disabled \in Ports(exec[c].ans)) /\ GiveUp(c)
     \/ exec[c].step = "fail" /\ GiveUp(c)
  /\ UNCHANGED <<cc, link, mu, hist, calls, probes, faults>>

-----------------------------------------------------------------------------
(* Robot.Poll and the like: one command, whatever comes of it.             *)

Probe(p) ==
  /\ exec[p].step \in {"idle", "ok", "fail"} /\ probes < MaxProbes
  /\ exec' = [exec EXCEPT ![p] = Exec("probe")]
  /\ probes' = probes + 1
  /\ UNCHANGED <<cc, link, mu, lmu, local, call, hist, calls, faults>>

\* Acquire has enabled the service and read endpoint 1.
Init ==
  /\ up = TRUE /\ service = 1 /\ minted = 1
  /\ conn = "live" /\ inbox = <<>> /\ queue = <<>>
  /\ mu = None /\ lmu = None /\ local = 1
  /\ exec = [p \in Procs |-> NoCommand]
  /\ call = [c \in Callers |-> [step |-> "idle", result |-> "ok"]]
  /\ done = [c \in Callers |-> 0] /\ lost = [c \in Callers |-> 0]
  /\ quiet = [c \in Callers |-> TRUE] /\ shifted = FALSE
  /\ calls = 0 /\ probes = 0 /\ faults = 0

Terminal(p) == Lock(p) \/ Send(p) \/ Read(p) \/ NoAnswer(p)
Caller(c) == endpoint(c) \/ Post(c) \/ Refresh(c) \/ Enabled(c) \/ Printed(c)

Next ==
  \/ \E p \in Procs : Terminal(p)
  \/ \E c \in Callers : Begin(c) \/ Caller(c)
  \/ \E p \in Pollers : Probe(p)
  \/ \E i \in DOMAIN queue : Answer(i) \/ AnswerInParts(i)
  \/ Stop \/ Start

Spec ==
  /\ Init /\ [][Next]_vars
  /\ \A p \in Procs : WF_vars(Terminal(p))
  /\ \A c \in Callers : WF_vars(Caller(c))
  /\ WF_vars(\E i \in DOMAIN queue : Answer(i))
  /\ WF_vars(Start)

-----------------------------------------------------------------------------
(* Properties                                                              *)

Commands == {"enable", "print", "probe"}
Ids == 0..(minted)

\* Each variable has its type, and who reads or writes holds the terminal.
TypeOK ==
  /\ up \in BOOLEAN /\ service \in Ids /\ minted \in Nat /\ local \in Ids
  /\ conn \in {"none", "live", "dead"}
  /\ mu \in Procs \cup {None} /\ lmu \in Callers \cup {None}
  /\ \A i \in DOMAIN inbox : inbox[i].cmd \in Commands \cup {"rest", "welcome"} /\ inbox[i].port \in Ids
  /\ \A p \in Procs : exec[p].step \in {"send", "read"} <=> mu = p
  /\ \A c \in Callers : call[c].step \in {"enable", "print"} <=> lmu = c
  /\ calls \in 0..MaxCalls /\ probes \in 0..MaxProbes /\ faults \in 0..MaxFaults

\* A command is answered with its own answer and nothing else, whatever a first attempt
\* lost, got late or sent twice, until something has put the answers out of step: an answer
\* in two parts, a welcome later than its drain, or a second attempt without an answer.
AnswersOwn ==
  \A p \in Procs : exec[p].step = "ok" /\ ~shifted
    => \A i \in DOMAIN exec[p].ans : exec[p].ans[i].cmd = exec[p].cmd /\ exec[p].ans[i].by = p

\* The robot executes a call twice only if a reply to it was lost; a stale
\* endpoint alone never makes it clean or move twice.
ExecutedOnce == \A c \in Callers : done[c] <= 1 + lost[c]

\* A call succeeds that meets no fault and no enable of another caller, or of a command
\* given up before; also the first one after a restart of control_center, when the
\* endpoint and the terminal connection to acquire it over are both stale.
QuietCallSucceeds ==
  \A c \in Callers : call[c].step = "idle" /\ quiet[c] => call[c].result = "ok"

\* Every call ends, although callers wait for l.mu while its holder waits for the
\* terminal's mutex and for control_center.
CallsEnd == \A c \in Callers : call[c].step # "idle" ~> call[c].step = "idle"
=============================================================================
