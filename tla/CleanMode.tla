------------------------------ MODULE CleanMode ------------------------------
(***************************************************************************)
(* The clean mode as the bridge shows it, and as the robot has it.         *)
(*                                                                         *)
(* The bridge caches the mode (b.mode) and keeps a change it has just made *)
(* visible until the robot reports it back (pending.Value).  Changes come  *)
(* from Home Assistant, one field at a time on top of the cached mode, and *)
(* from the web UI, which sends a whole mode; refreshes come from the poll *)
(* tick and from onConnect.  Each runs on its own goroutine and ends by    *)
(* publishing; only the cache and the pending value have a lock.           *)
(***************************************************************************)
EXTENDS Naturals, Sequences

CONSTANTS Fans, Waters,   \* the values of two fields of a mode
          DefaultMode,    \* the mode shown before the robot was first asked
          Refreshers,     \* goroutines that refresh: Run with its tick, onConnect
          Setters,        \* goroutines that change the mode
          ZeroMode,       \* Go's zero value of a mode, which no robot reports
          MaxSets,        \* bound on the changes made through the bridge
          MaxForeign,     \* bound on the changes made in the vendor app
          MaxFaults       \* bound on failing calls

Modes == [fan : Fans, water : Waters]

ASSUME ModeAssumption ==
  /\ DefaultMode \in Modes /\ ZeroMode \notin Modes
  /\ Refreshers \cap Setters = {}
  /\ MaxSets \in Nat /\ MaxForeign \in Nat /\ MaxFaults \in Nat

Actors == Refreshers \cup Setters

VARIABLES
  robot,     \* the mode the robot has persisted
  accepted,  \* modes the robot has accepted and not yet persisted, oldest first
  mode,      \* b.mode
  modeWant,  \* the pending value: last, want, from, active, and whether its window is open
  act,       \* each goroutine: its step and the mode it holds
  shown,     \* the mode last published to Home Assistant
  sets, foreign, faults   \* counters

vars == <<robot, accepted, mode, modeWant, act, shown, sets, foreign, faults>>

PCs == {"idle", "write", "store", "expect", "read", "resolve", "keep", "poll", "send"}

Pending == [last : Modes \cup {ZeroMode}, want : Modes \cup {ZeroMode},
            from : Modes \cup {ZeroMode}, active : BOOLEAN, open : BOOLEAN]

TypeOK ==
  /\ robot \in Modes /\ mode \in Modes /\ shown \in Modes
  /\ accepted \in Seq(Modes)
  /\ modeWant \in Pending
  /\ act \in [Actors -> [pc : PCs, m : Modes \cup {ZeroMode}]]
  /\ sets \in Nat /\ foreign \in Nat /\ faults \in Nat

\* The bridge starts on DefaultCleanMode, whatever the robot is set to.
Init ==
  /\ robot \in Modes
  /\ accepted = <<>>
  /\ mode = DefaultMode
  /\ modeWant = [last |-> ZeroMode, want |-> ZeroMode, from |-> ZeroMode,
                 active |-> FALSE, open |-> FALSE]
  /\ act = [a \in Actors |-> [pc |-> "idle", m |-> ZeroMode]]
  /\ shown = mode
  /\ sets = 0 /\ foreign = 0 /\ faults = 0

Fault == faults < MaxFaults /\ faults' = faults + 1

Step(a, from, to) == act[a].pc = from /\ act' = [act EXCEPT ![a].pc = to]
\* ... and takes hold of a mode, or (ZeroMode) of none.
StepWith(a, from, to, m) == act[a].pc = from /\ act' = [act EXCEPT ![a] = [pc |-> to, m |-> m]]

-----------------------------------------------------------------------------
(* pending.Value.                                                          *)

Expect(v, want) ==
  [v EXCEPT !.want = want, !.from = v.last, !.active = TRUE, !.open = TRUE]

\* Mutant of Holds: the window is not looked at.
HoldsForEver(v, actual) == v.active /\ actual = v.from

\* The change is still to be seen: the device has not moved and the window is open.
Holds(v, actual) == v.active /\ actual = v.from /\ v.open

Resolved(v, actual) == IF Holds(v, actual) THEN v.want ELSE actual
\* (What a value that is no longer held was to become is not looked at again.)
AfterResolve(v, actual) ==
  IF Holds(v, actual)
  THEN [v EXCEPT !.last = actual]
  ELSE [last |-> actual, want |-> ZeroMode, from |-> ZeroMode, active |-> FALSE, open |-> FALSE]

\* The window of a pending change elapses.
Elapse ==
  /\ modeWant.active /\ modeWant.open
  /\ modeWant' = [modeWant EXCEPT !.open = FALSE]
  /\ UNCHANGED <<robot, accepted, mode, act, shown, sets, foreign, faults>>

-----------------------------------------------------------------------------
(* SetCleanMode.                                                           *)

\* A select or fan-speed message: one field changes, on top of the cached mode.
BeginField(s) ==
  /\ sets < MaxSets
  /\ sets' = sets + 1
  /\ \E f \in Fans, w \in Waters :
       /\ f = mode.fan \/ w = mode.water
       /\ StepWith(s, "idle", "write", [fan |-> f, water |-> w])
  /\ UNCHANGED <<robot, accepted, mode, modeWant, shown, foreign, faults>>

\* PUT /clean-mode: a whole mode.
BeginWhole(s) ==
  /\ sets < MaxSets
  /\ sets' = sets + 1
  /\ \E m \in Modes : StepWith(s, "idle", "write", m)
  /\ UNCHANGED <<robot, accepted, mode, modeWant, shown, foreign, faults>>

\* The robot is written.  A call that fails may have reached it all the same.
Write(s) ==
  /\ \/ accepted' = Append(accepted, act[s].m) /\ Step(s, "write", "store") /\ UNCHANGED faults
     \/ accepted' \in {accepted, Append(accepted, act[s].m)} /\ StepWith(s, "write", "idle", ZeroMode) /\ Fault
  /\ UNCHANGED <<robot, mode, modeWant, shown, sets, foreign>>

\* The cache is set ...
Store(s) ==
  /\ Step(s, "store", "expect")
  /\ mode' = act[s].m
  /\ UNCHANGED <<robot, accepted, modeWant, shown, sets, foreign, faults>>

\* ... and then the change is held against what the robot reports.
ExpectMode(s) ==
  /\ StepWith(s, "expect", "poll", ZeroMode)
  /\ modeWant' = Expect(modeWant, act[s].m)
  /\ UNCHANGED <<robot, accepted, mode, shown, sets, foreign, faults>>

-----------------------------------------------------------------------------
(* refreshMode and publishState.                                           *)

BeginRefresh(r) ==
  /\ Step(r, "idle", "read")
  /\ UNCHANGED <<robot, accepted, mode, modeWant, shown, sets, foreign, faults>>

\* The robot is asked; without an answer the cache stays as it is.
Read(r) ==
  /\ \/ StepWith(r, "read", "resolve", robot) /\ UNCHANGED faults
     \/ Step(r, "read", "poll") /\ Fault
  /\ UNCHANGED <<robot, accepted, mode, modeWant, shown, sets, foreign>>

Resolve(r) ==
  /\ StepWith(r, "resolve", "keep", Resolved(modeWant, act[r].m))
  /\ modeWant' = AfterResolve(modeWant, act[r].m)
  /\ UNCHANGED <<robot, accepted, mode, shown, sets, foreign, faults>>

Cache(r) ==
  /\ StepWith(r, "keep", "poll", ZeroMode)
  /\ mode' = act[r].m
  /\ UNCHANGED <<robot, accepted, modeWant, shown, sets, foreign, faults>>

\* publishState polls the robot and then reads the cache; when the poll fails it publishes
\* that the robot is offline and no mode.
Poll(a) ==
  /\ \/ StepWith(a, "poll", "send", mode) /\ UNCHANGED faults
     \/ Step(a, "poll", "idle") /\ Fault
  /\ UNCHANGED <<robot, accepted, mode, modeWant, shown, sets, foreign>>

Send(a) ==
  /\ StepWith(a, "send", "idle", ZeroMode)
  /\ shown' = act[a].m
  /\ UNCHANGED <<robot, accepted, mode, modeWant, sets, foreign, faults>>

-----------------------------------------------------------------------------
(* The robot.                                                              *)

\* It persists the modes it accepted, in order; it may also drop one (busy, refused).
Persist ==
  /\ accepted # <<>>
  /\ accepted' = Tail(accepted)
  /\ \/ robot' = Head(accepted) /\ UNCHANGED faults
     \/ UNCHANGED robot /\ Fault
  /\ UNCHANGED <<mode, modeWant, act, shown, sets, foreign>>

\* The mode is changed in the vendor's app.
Foreign ==
  /\ foreign < MaxForeign
  /\ foreign' = foreign + 1
  /\ \E m \in Modes : robot' = m
  /\ UNCHANGED <<accepted, mode, modeWant, act, shown, sets, faults>>

SetStep(s) == Write(s) \/ Store(s) \/ ExpectMode(s) \/ Poll(s) \/ Send(s)
RefreshStep(r) == Read(r) \/ Resolve(r) \/ Cache(r) \/ Poll(r) \/ Send(r)

Next ==
  \/ \E s \in Setters : BeginField(s) \/ BeginWhole(s) \/ SetStep(s)
  \/ \E r \in Refreshers : BeginRefresh(r) \/ RefreshStep(r)
  \/ Persist \/ Foreign \/ Elapse

\* The poll tick comes again and again, goroutines run, time passes, the robot works.
Fairness ==
  /\ \A r \in Refreshers : WF_vars(BeginRefresh(r)) /\ WF_vars(RefreshStep(r))
  /\ \A s \in Setters : WF_vars(SetStep(s))
  /\ WF_vars(Persist) /\ WF_vars(Elapse)

Spec == Init /\ [][Next]_vars /\ Fairness

-----------------------------------------------------------------------------
(* Properties.                                                             *)

\* However changes, refreshes and failures interleave, the cache comes to agree with the
\* robot's own record, and Home Assistant comes to show it.
Converges == <>[](mode = robot /\ shown = robot)
=============================================================================
