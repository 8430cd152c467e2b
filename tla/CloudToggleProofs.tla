-------------------------- MODULE CloudToggleProofs --------------------------
(* Proofs about CloudToggle, for every set of requests and every bound.    *)
EXTENDS CloudToggle, TLAPS

-----------------------------------------------------------------------------
(* Lemmas about the operators of CloudToggle.                              *)

\* Both plans have fourteen steps, and there are five units.
LEMMA Lengths ==
  /\ Len(OffPlan) = 14
  /\ Len(OnPlan) = 14
  /\ Len(cloudServices) = 5
  /\ \A i \in 1..5 : cloudServices[i] \in Units
  BY DEF OffPlan, OnPlan, cloudServices, Units

\* Where a disable does what.
LEMMA OffSteps ==
  ASSUME NEW i \in 1..14, NEW op, NEW x, OffPlan[i] = <<op, x>>
  PROVE  /\ op = "backup" => (i = 1 /\ x = "ca") \/ (i = 8 /\ x = "resolv")
         /\ op = "put" => (i = 2 /\ x = "ca") \/ (i = 5 /\ x = "cert")
                          \/ (i = 6 /\ x = "key") \/ (i = 10 /\ x = "resolv")
         /\ op = "park" => (i = 3 /\ x = "cert") \/ (i = 4 /\ x = "key")
         /\ op = "hosts" => i = 7 /\ x = "add"
         /\ op = "remove" => i = 9
         /\ op = "flush" => i = 11
         /\ op = "restart" => i = 12
         /\ op = "units" => i = 13
         /\ op = "standins" => i = 14 /\ x = "start"
         /\ op \notin {"copyBack", "dropBackup", "dropStandIn", "restore"}
<1>1. /\ OffPlan[1] = <<"backup", "ca">> /\ OffPlan[2] = <<"put", "ca">>
      /\ OffPlan[3] = <<"park", "cert">> /\ OffPlan[4] = <<"park", "key">>
      /\ OffPlan[5] = <<"put", "cert">> /\ OffPlan[6] = <<"put", "key">>
      /\ OffPlan[7] = <<"hosts", "add">> /\ OffPlan[8] = <<"backup", "resolv">>
      /\ OffPlan[9] = <<"remove", "resolv">> /\ OffPlan[10] = <<"put", "resolv">>
      /\ OffPlan[11] = <<"flush", "names">> /\ OffPlan[12] = <<"restart", "app">>
      /\ OffPlan[13] = <<"units", "disable">> /\ OffPlan[14] = <<"standins", "start">>
  BY DEF OffPlan
<1>2. i \in {1, 2, 3, 4, 5, 6, 7, 8, 9, 10, 11, 12, 13, 14}
  OBVIOUS
<1> QED
  BY <1>1, <1>2

\* Where an enable does what.
LEMMA OnSteps ==
  ASSUME NEW i \in 1..14, NEW op, NEW x, OnPlan[i] = <<op, x>>
  PROVE  /\ op = "standins" => i = 1 /\ x = "stop"
         /\ op = "copyBack" => (i = 2 /\ x = "ca") \/ (i = 6 /\ x = "resolv")
         /\ op = "dropBackup" => (i = 3 /\ x = "ca") \/ (i = 7 /\ x = "resolv")
         /\ op = "hosts" => i = 4 /\ x = "drop"
         /\ op = "remove" => i = 5
         /\ op = "flush" => i = 8
         /\ op = "dropStandIn" => (i = 9 /\ x = "cert") \/ (i = 11 /\ x = "key")
         /\ op = "restore" => (i = 10 /\ x = "cert") \/ (i = 12 /\ x = "key")
         /\ op = "units" => i = 13
         /\ op = "restart" => i = 14
         /\ op \notin {"backup", "put", "park"}
<1>1. /\ OnPlan[1] = <<"standins", "stop">> /\ OnPlan[2] = <<"copyBack", "ca">>
      /\ OnPlan[3] = <<"dropBackup", "ca">> /\ OnPlan[4] = <<"hosts", "drop">>
      /\ OnPlan[5] = <<"remove", "resolv">> /\ OnPlan[6] = <<"copyBack", "resolv">>
      /\ OnPlan[7] = <<"dropBackup", "resolv">> /\ OnPlan[8] = <<"flush", "names">>
      /\ OnPlan[9] = <<"dropStandIn", "cert">> /\ OnPlan[10] = <<"restore", "cert">>
      /\ OnPlan[11] = <<"dropStandIn", "key">> /\ OnPlan[12] = <<"restore", "key">>
      /\ OnPlan[13] = <<"units", "enable">> /\ OnPlan[14] = <<"restart", "app">>
  BY DEF OnPlan
<1>2. i \in {1, 2, 3, 4, 5, 6, 7, 8, 9, 10, 11, 12, 13, 14}
  OBVIOUS
<1> QED
  BY <1>1, <1>2

\* A request in progress is at one of the fourteen steps of its plan.
LEMMA JobType ==
  ASSUME job \in [Reqs -> Jobs], NEW r \in Reqs
  PROVE  /\ job[r].on \in BOOLEAN
         /\ job[r].step \in 0..14
         /\ job[r].unit \in 1..5
         /\ job[r].errs \in BOOLEAN
         /\ job[r].step > 0 => job[r].step \in 1..14
  BY Lengths DEF Jobs

LEMMA IdleType == Idle \in Jobs
  BY Lengths DEF Idle, Jobs

-----------------------------------------------------------------------------
(* How a step moves its request.                                           *)

\* The request goes on at step k of its plan, with the errors e; the others stay.
Moved(r, k, e) ==
  /\ job' \in [Reqs -> Jobs]
  /\ \A s \in Reqs : s # r => job'[s] = job[s]
  /\ job'[r].on = job[r].on
  /\ job'[r].step = k
  /\ job'[r].errs = e

\* The request is over; the others stay.
Ended(r) ==
  /\ job' \in [Reqs -> Jobs]
  /\ \A s \in Reqs : s # r => job'[s] = job[s]
  /\ job'[r] = Idle

LEMMA AdvanceMoves ==
  ASSUME job \in [Reqs -> Jobs], NEW r \in Reqs, NEW n \in 1..3,
         job[r].step + n <= 14, Advance(r, n)
  PROVE  Moved(r, job[r].step + n, job[r].errs)
<1>1. job'[r] = [job[r] EXCEPT !.step = job[r].step + n]
  BY DEF Advance
<1>2. job[r].step + n \in 0..14
  BY JobType
<1>3. job'[r] \in Jobs
  BY <1>1, <1>2, Lengths DEF Jobs
<1> QED
  BY <1>1, <1>3 DEF Moved, Advance, Jobs

LEMMA NoteMoves ==
  ASSUME job \in [Reqs -> Jobs], NEW r \in Reqs, NEW n \in 1..3,
         job[r].step + n <= 14, Note(r, n)
  PROVE  Moved(r, job[r].step + n, TRUE)
<1>1. job'[r] = [job[r] EXCEPT !.step = job[r].step + n, !.errs = TRUE]
  BY DEF Note
<1>2. job[r].step + n \in 0..14
  BY JobType
<1>3. job'[r] \in Jobs
  BY <1>1, <1>2, Lengths DEF Jobs
<1> QED
  BY <1>1, <1>3 DEF Moved, Note, Jobs

LEMMA EndEnds ==
  ASSUME job \in [Reqs -> Jobs], NEW r \in Reqs, Fail(r) \/ Succeed(r)
  PROVE  Ended(r)
  BY IdleType DEF Ended, Fail, Succeed

LEMMA AtStep ==
  ASSUME job \in [Reqs -> Jobs], NEW r \in Reqs, NEW op, NEW x, At(r, op, x)
  PROVE  /\ job[r].step \in 1..14
         /\ job[r].on => OnPlan[job[r].step] = <<op, x>>
         /\ ~job[r].on => OffPlan[job[r].step] = <<op, x>>
  BY JobType DEF At, Plan

\* Where a request is when it can take the step.
LEMMA Where ==
  ASSUME job \in [Reqs -> Jobs], NEW r \in Reqs
  PROVE  /\ \A x : At(r, "backup", x) =>
              ~job[r].on /\ ((job[r].step = 1 /\ x = "ca") \/ (job[r].step = 8 /\ x = "resolv"))
         /\ \A x : At(r, "put", x) =>
              /\ ~job[r].on
              /\ \/ job[r].step = 2 /\ x = "ca"
                 \/ job[r].step = 5 /\ x = "cert"
                 \/ job[r].step = 6 /\ x = "key"
                 \/ job[r].step = 10 /\ x = "resolv"
         /\ \A x : At(r, "park", x) =>
              ~job[r].on /\ ((job[r].step = 3 /\ x = "cert") \/ (job[r].step = 4 /\ x = "key"))
         /\ At(r, "hosts", "add") => ~job[r].on /\ job[r].step = 7
         /\ At(r, "hosts", "drop") => job[r].on /\ job[r].step = 4
         /\ At(r, "remove", "resolv") => job[r].step = IF job[r].on THEN 5 ELSE 9
         /\ \A x : At(r, "copyBack", x) =>
              job[r].on /\ ((job[r].step = 2 /\ x = "ca") \/ (job[r].step = 6 /\ x = "resolv"))
         /\ \A x : At(r, "dropBackup", x) =>
              job[r].on /\ ((job[r].step = 3 /\ x = "ca") \/ (job[r].step = 7 /\ x = "resolv"))
         /\ At(r, "flush", "names") => job[r].step = IF job[r].on THEN 8 ELSE 11
         /\ \A x : At(r, "dropStandIn", x) =>
              job[r].on /\ ((job[r].step = 9 /\ x = "cert") \/ (job[r].step = 11 /\ x = "key"))
         /\ \A x : At(r, "restore", x) =>
              job[r].on /\ ((job[r].step = 10 /\ x = "cert") \/ (job[r].step = 12 /\ x = "key"))
         /\ At(r, "restart", "app") => job[r].step = IF job[r].on THEN 14 ELSE 12
         /\ At(r, "standins", "start") => ~job[r].on /\ job[r].step = 14
         /\ At(r, "standins", "stop") => job[r].on /\ job[r].step = 1
<1> DEFINE i == job[r].step
<1>1. ASSUME NEW op, NEW x, At(r, op, x)
      PROVE  /\ i \in 1..14
             /\ ~job[r].on /\ op = "backup" => (i = 1 /\ x = "ca") \/ (i = 8 /\ x = "resolv")
             /\ ~job[r].on /\ op = "put" => (i = 2 /\ x = "ca") \/ (i = 5 /\ x = "cert")
                                            \/ (i = 6 /\ x = "key") \/ (i = 10 /\ x = "resolv")
             /\ ~job[r].on /\ op = "park" => (i = 3 /\ x = "cert") \/ (i = 4 /\ x = "key")
             /\ ~job[r].on /\ op = "hosts" => i = 7 /\ x = "add"
             /\ ~job[r].on /\ op = "remove" => i = 9
             /\ ~job[r].on /\ op = "flush" => i = 11
             /\ ~job[r].on /\ op = "restart" => i = 12
             /\ ~job[r].on /\ op = "standins" => i = 14 /\ x = "start"
             /\ ~job[r].on => op \notin {"copyBack", "dropBackup", "dropStandIn", "restore"}
  <2>1. i \in 1..14
    BY <1>1, AtStep
  <2>2. CASE ~job[r].on
    <3>1. OffPlan[i] = <<op, x>>
      BY <1>1, <2>2, AtStep
    <3> HIDE DEF i
    <3> QED
      BY <2>1, <2>2, <3>1, OffSteps
  <2> QED
    BY <2>1, <2>2
<1>2. ASSUME NEW op, NEW x, At(r, op, x)
      PROVE  /\ job[r].on /\ op = "standins" => i = 1 /\ x = "stop"
             /\ job[r].on /\ op = "copyBack" => (i = 2 /\ x = "ca") \/ (i = 6 /\ x = "resolv")
             /\ job[r].on /\ op = "dropBackup" => (i = 3 /\ x = "ca") \/ (i = 7 /\ x = "resolv")
             /\ job[r].on /\ op = "hosts" => i = 4 /\ x = "drop"
             /\ job[r].on /\ op = "remove" => i = 5
             /\ job[r].on /\ op = "flush" => i = 8
             /\ job[r].on /\ op = "dropStandIn" => (i = 9 /\ x = "cert") \/ (i = 11 /\ x = "key")
             /\ job[r].on /\ op = "restore" => (i = 10 /\ x = "cert") \/ (i = 12 /\ x = "key")
             /\ job[r].on /\ op = "restart" => i = 14
             /\ job[r].on => op \notin {"backup", "put", "park"}
  <2>1. i \in 1..14
    BY <1>2, AtStep
  <2>2. CASE job[r].on
    <3>1. OnPlan[i] = <<op, x>>
      BY <1>2, <2>2, AtStep
    <3> HIDE DEF i
    <3> QED
      BY <2>1, <2>2, <3>1, OnSteps
  <2> QED
    BY <2>1, <2>2
<1> QED
  BY <1>1, <1>2

\* The units are the thirteenth step of both plans.
LEMMA WhereUnits ==
  ASSUME job \in [Reqs -> Jobs], NEW r \in Reqs,
         job[r].step > 0, Plan(job[r].on)[job[r].step][1] = "units"
  PROVE  job[r].step = 13
<1>1. job[r].step \in 1..14
  BY JobType
<1>2. \A k \in 1..14 : OffPlan[k][1] = "units" => k = 13
  BY DEF OffPlan
<1>3. \A k \in 1..14 : OnPlan[k][1] = "units" => k = 13
  BY DEF OnPlan
<1> QED
  BY <1>1, <1>2, <1>3, JobType DEF Plan

\* A step of a request in progress moves or ends that request and touches no other.
LEMMA StepMoves ==
  ASSUME job \in [Reqs -> Jobs], NEW r \in Reqs, Step(r)
  PROVE  /\ job[r].step > 0
         /\ Ended(r) \/ \E k \in 1..14, e \in BOOLEAN : Moved(r, k, e)
<1> DEFINE Goes == job[r].step \in 1..14 /\ (Ended(r) \/ \E k \in 1..14, e \in BOOLEAN : Moved(r, k, e))
<1> SUFFICES Goes
  OBVIOUS
<1>1. ASSUME NEW n \in 1..3, job[r].step \in 1..14, job[r].step + n <= 14,
             Advance(r, n) \/ Note(r, n)
      PROVE  Goes
  <2>1. job[r].step + n \in 1..14 /\ job[r].errs \in BOOLEAN /\ TRUE \in BOOLEAN
    BY <1>1, JobType
  <2> QED
    BY <1>1, <2>1, AdvanceMoves, NoteMoves
<1>2. ASSUME job[r].step \in 1..14, Fail(r) \/ Succeed(r)
      PROVE  Goes
  BY <1>2, EndEnds
<1>3. ASSUME NEW x, Park(r, x) \/ Put(r, x) \/ Backup(r, x) \/ CopyBack(r, x)
                    \/ DropBackup(r, x) \/ DropStandIn(r, x) \/ Restore(r, x)
      PROVE  Goes
  <2>1. /\ job[r].step \in 1..12
        /\ CopyBack(r, x) => job[r].step \in 1..6
    <3>1. /\ \/ At(r, "park", x) \/ At(r, "put", x) \/ At(r, "backup", x) \/ At(r, "copyBack", x)
             \/ At(r, "dropBackup", x) \/ At(r, "dropStandIn", x) \/ At(r, "restore", x)
          /\ CopyBack(r, x) => At(r, "copyBack", x)
      BY <1>3 DEF Park, Put, Backup, CopyBack, DropBackup, DropStandIn, Restore
    <3> QED
      BY <3>1, Where
  <2>2. \/ Advance(r, 1)
        \/ Fail(r)
        \/ job[r].step \in 1..6 /\ (Advance(r, 2) \/ Note(r, 2))
    BY <1>3, <2>1
    DEF Park, Put, Backup, CopyBack, DropBackup, DropStandIn, Restore, DoneOr
  <2> HIDE DEF Goes
  <2> QED
    BY <1>1, <1>2, <2>1, <2>2
<1>4. CASE AddHosts(r) \/ DropHosts(r) \/ RemoveResolv(r) \/ Flush(r)
  <2>1. /\ job[r].step \in 1..11
        /\ RemoveResolv(r) /\ job[r].on => job[r].step = 5
    <3>1. /\ \/ At(r, "hosts", "add") \/ At(r, "hosts", "drop") \/ At(r, "remove", "resolv")
             \/ At(r, "flush", "names")
          /\ RemoveResolv(r) => At(r, "remove", "resolv")
      BY <1>4 DEF AddHosts, DropHosts, RemoveResolv, Flush
    <3> QED
      BY <3>1, Where, JobType
  <2>2. \/ Advance(r, 1) \/ Note(r, 1)
        \/ Fail(r)
        \/ job[r].step = 5 /\ Advance(r, 3)
    BY <1>4, <2>1 DEF AddHosts, DropHosts, RemoveResolv, Flush, DoneOr
  <2>3. job[r].step \in 1..14 /\ job[r].step + 1 <= 14
    BY <2>1
  <2>4. job[r].step = 5 => job[r].step + 3 <= 14
    OBVIOUS
  <2> HIDE DEF Goes
  <2> QED
    BY <1>1, <1>2, <2>2, <2>3, <2>4
<1>5. CASE RestartApp(r) \/ StartStandIns(r) \/ StopStandIns(r)
  <2>1. /\ job[r].step \in 1..14
        /\ RestartApp(r) /\ ~job[r].on => job[r].step = 12
        /\ StopStandIns(r) => job[r].step = 1
    BY <1>5, Where, JobType DEF RestartApp, StartStandIns, StopStandIns
  <2>2. \/ job[r].step \in 1..12 /\ Advance(r, 1)
        \/ Fail(r) \/ Succeed(r)
    BY <1>5, <2>1 DEF RestartApp, StartStandIns, StopStandIns
  <2> HIDE DEF Goes
  <2> QED
    BY <1>1, <1>2, <2>1, <2>2
<1>6. CASE SetUnit(r)
  <2>1. job[r].step = 13
    BY <1>6, WhereUnits DEF SetUnit
  <2>2. \/ Advance(r, 1)
        \/ Fail(r)
        \/ \E bad \in BOOLEAN :
             /\ ~LastUnit(r)
             /\ job' = [job EXCEPT ![r].unit = job[r].unit + 1, ![r].errs = bad]
    BY <1>6, JobType DEF SetUnit
  <2>3. ASSUME NEW bad \in BOOLEAN, ~LastUnit(r),
               job' = [job EXCEPT ![r].unit = job[r].unit + 1, ![r].errs = bad]
        PROVE  Moved(r, 13, bad)
    <3>1. job[r].unit + 1 \in 1..5
      BY <2>3, JobType, Lengths DEF LastUnit
    <3>2. job'[r] = [job[r] EXCEPT !.unit = job[r].unit + 1, !.errs = bad]
      BY <2>3
    <3>3. job'[r] \in Jobs
      BY <3>1, <3>2, Lengths DEF Jobs
    <3> QED
      BY <2>1, <2>3, <3>2, <3>3 DEF Moved, Jobs
  <2> QED
    <3>1. CASE Advance(r, 1) \/ Fail(r)
      BY <1>1, <1>2, <2>1, <3>1
    <3>2. CASE ~(Advance(r, 1) \/ Fail(r))
      BY <2>1, <2>2, <2>3, <3>2
    <3> QED
      BY <3>1, <3>2
<1> QED
  <2> HIDE DEF Goes
  <2> QED
    BY <1>3, <1>4, <1>5, <1>6 DEF Step

-----------------------------------------------------------------------------
(* Type correctness.                                                       *)

LEMMA TypeInit == Init => TypeOK
<1> SUFFICES ASSUME Init PROVE TypeOK
  OBVIOUS
<1>1. FilesOK /\ AppOK
  BY DEF Init, FilesOK, AppOK, Contents
<1>2. MemOK
  BY DEF Init, MemOK
<1>3. job \in [Reqs -> Jobs]
  BY IdleType DEF Init
<1> QED
  BY <1>1, <1>2, <1>3 DEF TypeOK

\* The requests keep their shape.
LEMMA JobStep ==
  ASSUME job \in [Reqs -> Jobs], [Next]_vars
  PROVE  job' \in [Reqs -> Jobs]
<1>1. ASSUME NEW r \in Reqs, Step(r)
      PROVE  job' \in [Reqs -> Jobs]
  BY <1>1, StepMoves DEF Moved, Ended
<1>2. ASSUME NEW r \in Reqs, NEW on \in BOOLEAN, BeginToggle(r, on)
      PROVE  job' \in [Reqs -> Jobs]
  <2>1. [on |-> on, step |-> 1, unit |-> 1, errs |-> FALSE] \in Jobs
    BY <1>2, Lengths DEF Jobs
  <2> QED
    BY <1>2, <2>1 DEF BeginToggle
<1>3. CASE ForgetProcess
  BY <1>3, IdleType DEF ForgetProcess
<1>4. CASE UNCHANGED job
  BY <1>4
<1> QED
  BY <1>1, <1>2, <1>3, <1>4 DEF Next, Start, Exit, AppRestarts, PowerLoss, Tear, vars

\* The files keep their shape.
LEMMA FilesStep ==
  ASSUME TypeOK, [Next]_vars
  PROVE  FilesOK'
<1> USE DEF TypeOK, FilesOK, Contents, Items, Creds, Confs
<1>1. CASE UNCHANGED files
  BY <1>1 DEF files
<1>2. ASSUME NEW r \in Reqs, NEW x \in Items,
             Park(r, x) \/ Put(r, x) \/ Backup(r, x) \/ CopyBack(r, x)
             \/ DropBackup(r, x) \/ DropStandIn(r, x) \/ Restore(r, x)
      PROVE  FilesOK'
  BY <1>2 DEF Park, Put, Backup, CopyBack, DropBackup, DropStandIn, Restore, DoneOr
<1>3. ASSUME NEW r \in Reqs, AddHosts(r) \/ DropHosts(r) \/ RemoveResolv(r)
      PROVE  FilesOK'
  BY <1>3 DEF AddHosts, DropHosts, RemoveResolv, DoneOr
<1>4. ASSUME NEW r \in Reqs, Tear(r)
      PROVE  FilesOK'
  BY <1>4 DEF Tear
<1>5. ASSUME NEW r \in Reqs, Step(r)
      PROVE  FilesOK'
  <2> HIDE DEF TypeOK, FilesOK, Contents
  <2> QED
    BY <1>1, <1>2, <1>3, <1>5
    DEF Step, Flush, SetUnit, RestartApp, StartStandIns, StopStandIns
<1> QED
  <2> HIDE DEF TypeOK, FilesOK, Contents, Items, Creds, Confs
  <2> QED
    BY <1>1, <1>4, <1>5
    DEF Next, Start, Exit, AppRestarts, PowerLoss, BeginToggle, vars, files

\* control_center is left alone or reads the files as they are, or are after a torn write.
LEMMA AppStep ==
  ASSUME TypeOK, [Next]_vars
  PROVE  app' \in {app, Snapshot, Snapshot'}
<1>1. ASSUME NEW r \in Reqs, Step(r)
      PROVE  app' \in {app, Snapshot}
  BY <1>1
  DEF Step, Park, Put, Backup, CopyBack, DropBackup, DropStandIn, Restore, AddHosts, DropHosts,
      RemoveResolv, Flush, SetUnit, RestartApp, StartStandIns, StopStandIns
<1> QED
  BY <1>1 DEF Next, Start, Exit, AppRestarts, PowerLoss, Tear, Boot, BeginToggle, vars

\* The units, the server and the history keep their shape.
LEMMA MemStep ==
  ASSUME TypeOK, [Next]_vars
  PROVE  MemOK'
<1> USE DEF TypeOK, MemOK
<1>1. ASSUME NEW r \in Reqs, Step(r)
      PROVE  /\ enabled' \subseteq Units /\ active' \subseteq Units
             /\ drain' \in BOOLEAN /\ prune' \in BOOLEAN /\ UNCHANGED <<up, sim, toggles>>
             /\ outcome' \in {outcome, "on", "off"}
             /\ left' \subseteq Creds
             /\ faults' \in {faults, faults + 1}
  <2>1. CASE SetUnit(r)
    <3>1. cloudServices[job[r].unit] \in Units
      BY JobType, Lengths
    <3>2. /\ \/ enabled' = enabled \cup {cloudServices[job[r].unit]} /\ UNCHANGED active
             \/ /\ enabled' = enabled \ {cloudServices[job[r].unit]}
                /\ active' = active \ {cloudServices[job[r].unit]}
             \/ UNCHANGED units
          /\ UNCHANGED <<mem, outcome, left, toggles>>
          /\ faults' \in {faults, faults + 1}
      BY <2>1 DEF SetUnit, Advance, Fail, NoFault, Fault
    <3> QED
      BY <3>1, <3>2 DEF units, mem
  <2>2. CASE ~SetUnit(r)
    <3>1. UNCHANGED units
      BY <1>1, <2>2
      DEF Step, Park, Put, Backup, CopyBack, DropBackup, DropStandIn, Restore, AddHosts,
          DropHosts, RemoveResolv, Flush, RestartApp, StartStandIns, StopStandIns
    <3>2. /\ drain' \in BOOLEAN /\ prune' \in BOOLEAN /\ UNCHANGED <<up, sim>>
      BY <1>1, <2>2
      DEF Step, Park, Put, Backup, CopyBack, DropBackup, DropStandIn, Restore, AddHosts,
          DropHosts, RemoveResolv, Flush, RestartApp, StartStandIns, StopStandIns, mem
    <3>3. UNCHANGED toggles /\ outcome' \in {outcome, "on", "off"}
      BY <1>1, <2>2
      DEF Step, Park, Put, Backup, CopyBack, DropBackup, DropStandIn, Restore, AddHosts,
          DropHosts, RemoveResolv, Flush, RestartApp, StartStandIns, StopStandIns,
          DoneOr, Advance, Note, Fail, Succeed
    <3>4. left' \subseteq Creds
      BY <1>1, <2>2
      DEF Step, Park, Put, Backup, CopyBack, DropBackup, DropStandIn, Restore, AddHosts,
          DropHosts, RemoveResolv, Flush, RestartApp, StartStandIns, StopStandIns
    <3>5. faults' \in {faults, faults + 1}
      BY <1>1, <2>2
      DEF Step, Park, Put, Backup, CopyBack, DropBackup, DropStandIn, Restore, AddHosts,
          DropHosts, RemoveResolv, Flush, RestartApp, StartStandIns, StopStandIns,
          DoneOr, NoFault, Fault
    <3> QED
      BY <3>1, <3>2, <3>3, <3>4, <3>5 DEF units
  <2> QED
    BY <2>1, <2>2
<1>2. ASSUME NEW r \in Reqs, Step(r)
      PROVE  MemOK'
  BY <1>1, <1>2
<1>3. ASSUME NEW r \in Reqs, NEW on \in BOOLEAN, BeginToggle(r, on)
      PROVE  MemOK'
  BY <1>3 DEF BeginToggle, units, mem
<1>4. CASE Start
  <2>1. cloudEnabled \in BOOLEAN
    BY DEF cloudEnabled
  <2>2. /\ up' \in BOOLEAN /\ drain' \in BOOLEAN /\ prune' \in BOOLEAN /\ sim' \in BOOLEAN
        /\ faults' \in {faults, faults + 1}
        /\ UNCHANGED <<units, outcome, left, toggles>>
    BY <1>4, <2>1 DEF Start, Fault, NoFault
  <2> QED
    BY <2>2 DEF units
<1>5. ASSUME NEW r \in Reqs, Tear(r)
      PROVE  MemOK'
  <2>1. ForgetProcess /\ Boot /\ faults' = faults + 1
    BY <1>5 DEF Tear, Fault
  <2> QED
    <3>1. up' \in BOOLEAN /\ sim' \in BOOLEAN /\ drain' \in BOOLEAN /\ prune' \in BOOLEAN
      BY <2>1 DEF ForgetProcess
    <3>2. enabled' = enabled /\ active' \in {active, enabled} /\ UNCHANGED <<outcome, left, toggles>>
      BY <2>1 DEF Boot, units
    <3>3. faults' = faults + 1
      BY <2>1
    <3> QED
      BY <3>1, <3>2, <3>3
<1>6. CASE Exit \/ PowerLoss
  <2>1. /\ ForgetProcess
        /\ UNCHANGED <<units, outcome, left, toggles>> \/ Boot
        /\ faults' = faults + 1
    BY <1>6 DEF Exit, PowerLoss, Fault
  <2> QED
    <3>1. up' \in BOOLEAN /\ sim' \in BOOLEAN /\ drain' \in BOOLEAN /\ prune' \in BOOLEAN
      BY <2>1 DEF ForgetProcess
    <3>2. enabled' = enabled /\ active' \in {active, enabled} /\ UNCHANGED <<outcome, left, toggles>>
      BY <2>1 DEF Boot, units
    <3>3. faults' = faults + 1
      BY <2>1
    <3> QED
      BY <3>1, <3>2, <3>3
<1>7. CASE AppRestarts \/ UNCHANGED vars
  BY <1>7 DEF AppRestarts, units, mem, vars
<1> QED
  <2> HIDE DEF TypeOK, MemOK
  <2> QED
    BY <1>2, <1>3, <1>4, <1>5, <1>6, <1>7 DEF Next

LEMMA TypeStep == TypeOK /\ [Next]_vars => TypeOK'
<1> SUFFICES ASSUME TypeOK, [Next]_vars PROVE TypeOK'
  OBVIOUS
<1>1. FilesOK' /\ MemOK' /\ job' \in [Reqs -> Jobs]
  BY FilesStep, MemStep, JobStep DEF TypeOK
<1>2. AppOK'
  <2>1. /\ Snapshot \in [seen : [Items -> Contents], local : BOOLEAN]
        /\ Snapshot' \in [seen : [Items -> Contents], local : BOOLEAN]
    BY <1>1 DEF TypeOK, FilesOK, Snapshot
  <2> QED
    BY <2>1, AppStep DEF TypeOK, AppOK
<1> QED
  BY <1>1, <1>2 DEF TypeOK

\* The state of the toggle, with all failures and concurrent requests, keeps its shape.
THEOREM TypeCorrect == Spec => []TypeOK
  BY TypeInit, TypeStep, PTL DEF Spec

-----------------------------------------------------------------------------
(* One toggle at a time, and no file is torn.                              *)

CarefulUse == Serial /\ "tear" \notin Faults

\* At most one request is in progress.
Alone == \A s, t \in Reqs : job[s].step > 0 /\ job[t].step > 0 => s = t

\* What is set aside is the vendor's, and what is not set aside is in its place.
Reversible ==
  \A x \in Items : kept[x] \in {"none", "vendor"} /\ (kept[x] = "none" => at[x] = "vendor")

\* While names resolve to the local endpoint, the vendor's key is out of its place.
EndpointPrivate == hosts /\ at["resolv"] = "local" => at["key"] # "vendor"

\* A disable has set each item aside before it touches it, and has put the local key in
\* place before names resolve to the local endpoint.
OffProgress(r) ==
  ~job[r].on =>
    /\ job[r].step >= 2 => kept["ca"] = "vendor"
    /\ job[r].step >= 4 => kept["cert"] = "vendor"
    /\ job[r].step >= 5 => kept["key"] = "vendor"
    /\ job[r].step >= 7 => at["key"] = "local"
    /\ job[r].step >= 9 => kept["resolv"] = "vendor"

\* An enable drops a backup only after it is copied back, and past the flush names do not
\* resolve to the local endpoint any more.
OnProgress(r) ==
  job[r].on =>
    /\ job[r].step = 3 => at["ca"] = "vendor"
    /\ job[r].step = 7 => at["resolv"] = "vendor"
    /\ job[r].step \in 5..8 => ~hosts \/ job[r].errs
    /\ job[r].step >= 9 => ~hosts

Progress == \A r \in Reqs : OffProgress(r) /\ OnProgress(r)

\* The inductive invariant.
Careful ==
  /\ TypeOK
  /\ Alone
  /\ Reversible
  /\ EndpointPrivate
  /\ VendorKeyStaysPrivate
  /\ Progress

LEMMA ItemNames == Items = {"cert", "key", "ca", "resolv"}
  BY DEF Items, Creds, Confs

LEMMA CarefulInit == Init => Careful
<1> SUFFICES ASSUME Init PROVE Careful
  OBVIOUS
<1>1. \A r \in Reqs : job[r].step = 0 /\ job[r].on = FALSE
  BY DEF Init, Idle
<1>2. Alone /\ Progress
  BY <1>1 DEF Alone, Progress, OffProgress, OnProgress
<1>3. Reversible /\ EndpointPrivate /\ VendorKeyStaysPrivate
  BY DEF Init, Reversible, EndpointPrivate, VendorKeyStaysPrivate
<1> QED
  BY <1>2, <1>3, TypeInit DEF Careful

\* A step concerns its own request only, for no other is in progress.
LEMMA OthersIdle ==
  ASSUME Careful, NEW r \in Reqs, Step(r), OffProgress(r)', OnProgress(r)'
  PROVE  Alone' /\ Progress'
<1>1. job \in [Reqs -> Jobs]
  BY DEF Careful, TypeOK
<1>2. job[r].step > 0 /\ \A s \in Reqs : s # r => job'[s] = job[s]
  BY <1>1, StepMoves DEF Moved, Ended
<1>3. \A s \in Reqs : s # r => job'[s].step = 0
  BY <1>1, <1>2, JobType DEF Careful, Alone
<1>4. Alone'
  BY <1>3 DEF Alone
<1>5. \A s \in Reqs : s # r => OffProgress(s)' /\ OnProgress(s)'
  BY <1>3 DEF OffProgress, OnProgress
<1> QED
  BY <1>4, <1>5 DEF Progress

\* A request that is over leaves nothing to say of its progress.
LEMMA EndedProgress ==
  ASSUME NEW r \in Reqs, Ended(r)
  PROVE  OffProgress(r)' /\ OnProgress(r)'
<1>1. job'[r].on = FALSE /\ job'[r].step = 0
  BY DEF Ended, Idle
<1> QED
  BY <1>1 DEF OffProgress, OnProgress

\* What the invariant says of a request in progress, and of the files.
LEMMA CarefulFacts ==
  ASSUME Careful, NEW r \in Reqs
  PROVE  /\ at \in [Items -> Contents] /\ kept \in [Items -> Contents]
         /\ job \in [Reqs -> Jobs]
         /\ job[r].step \in 0..14 /\ job[r].errs \in BOOLEAN
         /\ hosts \in BOOLEAN
         /\ Reversible /\ EndpointPrivate /\ OffProgress(r) /\ OnProgress(r)
  BY JobType DEF Careful, TypeOK, FilesOK, Progress

LEMMA BackupSafe ==
  ASSUME Careful, NEW r \in Reqs, NEW x \in Confs, Backup(r, x)
  PROVE  Reversible' /\ EndpointPrivate' /\ OffProgress(r)' /\ OnProgress(r)'
<1> USE CarefulFacts
<1>1. ~job[r].on /\ ((job[r].step = 1 /\ x = "ca") \/ (job[r].step = 8 /\ x = "resolv"))
  BY Where DEF Backup
<1>2. /\ UNCHANGED <<at, hosts>>
      /\ \/ kept[x] # "none" /\ UNCHANGED kept /\ Moved(r, job[r].step + 1, job[r].errs)
         \/ kept' = [kept EXCEPT ![x] = "vendor"] /\ Moved(r, job[r].step + 1, job[r].errs)
         \/ UNCHANGED kept /\ Ended(r)
  BY <1>1, AdvanceMoves, EndEnds, ItemNames DEF Backup, DoneOr, Reversible, Confs
<1>3. Reversible' /\ EndpointPrivate'
  BY <1>2 DEF Reversible, EndpointPrivate
<1>4. CASE Ended(r)
  BY <1>3, <1>4, EndedProgress
<1>5. CASE Moved(r, job[r].step + 1, job[r].errs) /\ kept'[x] = "vendor"
  BY <1>1, <1>2, <1>3, <1>5, ItemNames DEF OffProgress, OnProgress, Moved
<1> QED
  BY <1>2, <1>4, <1>5, ItemNames DEF Reversible, Confs

LEMMA ParkSafe ==
  ASSUME Careful, NEW r \in Reqs, NEW x \in Creds, Park(r, x)
  PROVE  Reversible' /\ EndpointPrivate' /\ OffProgress(r)' /\ OnProgress(r)'
<1> USE CarefulFacts
<1>1. ~job[r].on /\ ((job[r].step = 3 /\ x = "cert") \/ (job[r].step = 4 /\ x = "key"))
  BY Where DEF Park
<1>2. /\ UNCHANGED hosts
      /\ \/ kept[x] = "vendor" /\ UNCHANGED <<at, kept>> /\ Moved(r, job[r].step + 1, job[r].errs)
         \/ /\ kept' = [kept EXCEPT ![x] = "vendor"] /\ at' = [at EXCEPT ![x] = "none"]
            /\ Moved(r, job[r].step + 1, job[r].errs)
         \/ UNCHANGED <<at, kept>> /\ Ended(r)
  BY <1>1, AdvanceMoves, EndEnds, ItemNames DEF Park, DoneOr, Reversible, Creds
<1>3. Reversible' /\ EndpointPrivate'
  BY <1>1, <1>2, ItemNames DEF Reversible, EndpointPrivate
<1>4. CASE Ended(r)
  BY <1>3, <1>4, EndedProgress
<1>5. CASE Moved(r, job[r].step + 1, job[r].errs)
  <2>1. job'[r].step = job[r].step + 1 /\ job'[r].on = job[r].on
    BY <1>5 DEF Moved
  <2>2. kept'[x] = "vendor" /\ \A y \in Items : y # x => kept'[y] = kept[y]
    BY <1>1, <1>2, <2>1, ItemNames DEF Ended, Idle, Creds
  <2> QED
    BY <1>1, <1>3, <2>1, <2>2, ItemNames DEF OffProgress, OnProgress
<1> QED
  BY <1>2, <1>4, <1>5

LEMMA PutSafe ==
  ASSUME Careful, NEW r \in Reqs, NEW x \in Items, Put(r, x)
  PROVE  Reversible' /\ EndpointPrivate' /\ OffProgress(r)' /\ OnProgress(r)'
<1> USE CarefulFacts
<1>1. /\ ~job[r].on
      /\ \/ job[r].step = 2 /\ x = "ca"
         \/ job[r].step = 5 /\ x = "cert"
         \/ job[r].step = 6 /\ x = "key"
         \/ job[r].step = 10 /\ x = "resolv"
  BY Where DEF Put
<1>2. /\ UNCHANGED <<kept, hosts>>
      /\ \/ at' = [at EXCEPT ![x] = "local"] /\ Moved(r, job[r].step + 1, job[r].errs)
         \/ UNCHANGED at /\ Ended(r)
  BY <1>1, AdvanceMoves, EndEnds DEF Put, DoneOr
<1>3. CASE UNCHANGED at /\ Ended(r)
  BY <1>2, <1>3, EndedProgress DEF Reversible, EndpointPrivate
<1>4. CASE at' = [at EXCEPT ![x] = "local"] /\ Moved(r, job[r].step + 1, job[r].errs)
  <2>1. kept[x] = "vendor"
    BY <1>1 DEF OffProgress
  <2>2. at'[x] = "local" /\ \A y \in Items : y # x => at'[y] = at[y]
    BY <1>4
  <2>3. Reversible'
    BY <1>2, <2>1, <2>2 DEF Reversible
  <2>4. x = "resolv" => at["key"] = "local"
    BY <1>1 DEF OffProgress
  <2>5. EndpointPrivate'
    BY <1>2, <2>2, <2>4, ItemNames DEF EndpointPrivate
  <2>6. job'[r].step = job[r].step + 1 /\ job'[r].on = job[r].on
    BY <1>4 DEF Moved
  <2>7. OffProgress(r)' /\ OnProgress(r)'
    BY <1>1, <1>2, <2>2, <2>6, ItemNames DEF OffProgress, OnProgress
  <2> QED
    BY <2>3, <2>5, <2>7
<1> QED
  BY <1>2, <1>3, <1>4

LEMMA HostsSafe ==
  ASSUME Careful, NEW r \in Reqs, AddHosts(r) \/ DropHosts(r)
  PROVE  Reversible' /\ EndpointPrivate' /\ OffProgress(r)' /\ OnProgress(r)'
<1> USE CarefulFacts
<1>1. CASE AddHosts(r)
  <2>1. ~job[r].on /\ job[r].step = 7
    BY <1>1, Where DEF AddHosts
  <2>2. /\ UNCHANGED <<at, kept>>
        /\ Moved(r, 8, job[r].errs) \/ (UNCHANGED hosts /\ Ended(r))
    BY <1>1, <2>1, AdvanceMoves, EndEnds DEF AddHosts, DoneOr
  <2>3. at["key"] = "local" /\ Reversible' /\ EndpointPrivate'
    BY <2>1, <2>2 DEF OffProgress, Reversible, EndpointPrivate
  <2>4. CASE Moved(r, 8, job[r].errs)
    BY <2>1, <2>2, <2>3, <2>4 DEF OffProgress, OnProgress, Moved
  <2> QED
    BY <2>2, <2>3, <2>4, EndedProgress
<1>2. CASE DropHosts(r)
  <2>1. job[r].on /\ job[r].step = 4
    BY <1>2, Where DEF DropHosts
  <2>2. /\ UNCHANGED <<at, kept>>
        /\ hosts' = FALSE \/ UNCHANGED hosts
        /\ job'[r].on = job[r].on /\ job'[r].step = 5
        /\ ~hosts' \/ job'[r].errs
    <3>1. CASE hosts' = FALSE /\ Advance(r, 1)
      <4>1. Moved(r, 5, job[r].errs)
        BY <2>1, <3>1, AdvanceMoves
      <4> QED
        BY <1>2, <3>1, <4>1 DEF DropHosts, Moved
    <3>2. CASE UNCHANGED hosts /\ Note(r, 1)
      <4>1. job'[r].on = job[r].on /\ job'[r].step = job[r].step + 1 /\ job'[r].errs = TRUE
        <5>1. job'[r] = [job[r] EXCEPT !.step = job[r].step + 1, !.errs = TRUE]
          BY <3>2 DEF Note
        <5>2. job[r] \in Jobs
          OBVIOUS
        <5> QED
          BY <5>1, <5>2 DEF Jobs
      <4> QED
        BY <1>2, <2>1, <3>2, <4>1 DEF DropHosts
    <3> QED
      BY <1>2, <3>1, <3>2 DEF DropHosts
  <2>3. Reversible' /\ EndpointPrivate'
    BY <2>2 DEF Reversible, EndpointPrivate
  <2> QED
    BY <2>1, <2>2, <2>3 DEF OffProgress, OnProgress
<1> QED
  BY <1>1, <1>2

LEMMA RemoveResolvSafe ==
  ASSUME Careful, NEW r \in Reqs, RemoveResolv(r)
  PROVE  Reversible' /\ EndpointPrivate' /\ OffProgress(r)' /\ OnProgress(r)'
<1> USE CarefulFacts
<1>1. job[r].step = IF job[r].on THEN 5 ELSE 9
  BY Where DEF RemoveResolv
<1>2. UNCHANGED <<kept, hosts>>
  BY DEF RemoveResolv
<1>3. /\ \/ at' = [at EXCEPT !["resolv"] = "none"] /\ kept["resolv"] # "none"
         \/ UNCHANGED at
      /\ \/ job[r].on /\ Moved(r, 6, job[r].errs)
         \/ job[r].on /\ Moved(r, 8, job[r].errs)
         \/ ~job[r].on /\ Moved(r, 10, job[r].errs)
         \/ Ended(r)
  <2>1. CASE job[r].on
    BY <1>1, <2>1, AdvanceMoves DEF RemoveResolv
  <2>2. CASE ~job[r].on
    <3>1. kept["resolv"] = "vendor"
      BY <1>1, <2>2 DEF OffProgress
    <3> QED
      BY <1>1, <2>2, <3>1, AdvanceMoves, EndEnds DEF RemoveResolv, DoneOr
  <2> QED
    BY <2>1, <2>2
<1>4. Reversible' /\ EndpointPrivate'
  BY <1>2, <1>3, ItemNames DEF Reversible, EndpointPrivate
<1>5. CASE Ended(r)
  BY <1>4, <1>5, EndedProgress
<1>6. CASE ~Ended(r)
  <2>1. \A y \in Items : y # "resolv" => at'[y] = at[y]
    BY <1>3
  <2> QED
    BY <1>1, <1>2, <1>3, <1>4, <1>6, <2>1, ItemNames DEF OffProgress, OnProgress, Moved
<1> QED
  BY <1>5, <1>6

LEMMA CopyBackSafe ==
  ASSUME Careful, NEW r \in Reqs, NEW x \in Confs, CopyBack(r, x)
  PROVE  Reversible' /\ EndpointPrivate' /\ OffProgress(r)' /\ OnProgress(r)'
<1> USE CarefulFacts
<1>1. job[r].on /\ ((job[r].step = 2 /\ x = "ca") \/ (job[r].step = 6 /\ x = "resolv"))
  BY Where DEF CopyBack
<1>2. /\ UNCHANGED <<kept, hosts>>
      /\ at' = [at EXCEPT ![x] = "vendor"] \/ UNCHANGED at
      /\ job'[r].on = job[r].on
      /\ \/ job'[r].step = job[r].step + 1 /\ at'[x] = "vendor"
         \/ job'[r].step = job[r].step + 2
      /\ job[r].errs => job'[r].errs
  <2>1. (kept[x] # "none" => kept[x] = "vendor") /\ x \in Items
    BY ItemNames DEF Reversible, Confs
  <2>2. CASE Advance(r, 1) /\ at' = [at EXCEPT ![x] = kept[x]] /\ kept[x] # "none"
    <3>1. Moved(r, job[r].step + 1, job[r].errs)
      BY <1>1, <2>2, AdvanceMoves
    <3> QED
      BY <2>1, <2>2, <3>1 DEF CopyBack, Moved
  <2>3. CASE Advance(r, 2) /\ UNCHANGED at
    <3>1. Moved(r, job[r].step + 2, job[r].errs)
      BY <1>1, <2>3, AdvanceMoves
    <3> QED
      BY <2>3, <3>1 DEF CopyBack, Moved
  <2>4. CASE Note(r, 2) /\ UNCHANGED at
    <3>1. job'[r].on = job[r].on /\ job'[r].step = job[r].step + 2 /\ job'[r].errs = TRUE
      <4>1. job'[r] = [job[r] EXCEPT !.step = job[r].step + 2, !.errs = TRUE]
        BY <2>4 DEF Note
      <4>2. job[r] \in Jobs
        OBVIOUS
      <4> QED
        BY <4>1, <4>2 DEF Jobs
    <3> QED
      BY <1>1, <2>4, <3>1 DEF CopyBack
  <2> QED
    BY <2>2, <2>3, <2>4 DEF CopyBack
<1>3. /\ \A y \in Items : at'[y] = at[y] \/ (y = x /\ at'[y] = "vendor")
      /\ x # "key" /\ x \in Items
  BY <1>2, ItemNames DEF Confs
<1>4. Reversible'
  BY <1>2, <1>3 DEF Reversible
<1>5. EndpointPrivate'
  BY <1>2, <1>3, ItemNames DEF EndpointPrivate
<1>6. OffProgress(r)' /\ OnProgress(r)'
  BY <1>1, <1>2 DEF OffProgress, OnProgress
<1> QED
  BY <1>4, <1>5, <1>6

LEMMA DropBackupSafe ==
  ASSUME Careful, NEW r \in Reqs, NEW x \in Confs, DropBackup(r, x)
  PROVE  Reversible' /\ EndpointPrivate' /\ OffProgress(r)' /\ OnProgress(r)'
<1> USE CarefulFacts
<1>1. job[r].on /\ ((job[r].step = 3 /\ x = "ca") \/ (job[r].step = 7 /\ x = "resolv"))
  BY Where DEF DropBackup
<1>2. /\ UNCHANGED <<at, hosts>>
      /\ Moved(r, job[r].step + 1, job[r].errs)
      /\ kept' = [kept EXCEPT ![x] = "none"] \/ UNCHANGED kept
  BY <1>1, AdvanceMoves DEF DropBackup
<1>3. at[x] = "vendor"
  BY <1>1 DEF OnProgress
<1>4. Reversible' /\ EndpointPrivate'
  BY <1>2, <1>3 DEF Reversible, EndpointPrivate
<1>5. OffProgress(r)' /\ OnProgress(r)'
  BY <1>1, <1>2 DEF OffProgress, OnProgress, Moved
<1> QED
  BY <1>4, <1>5

LEMMA CredentialSafe ==
  ASSUME Careful, NEW r \in Reqs, NEW x \in Creds, DropStandIn(r, x) \/ Restore(r, x)
  PROVE  Reversible' /\ EndpointPrivate' /\ OffProgress(r)' /\ OnProgress(r)'
<1> USE CarefulFacts
<1>1. job[r].on /\ job[r].step \in 9..12
  <2>1. At(r, "dropStandIn", x) \/ At(r, "restore", x)
    BY DEF DropStandIn, Restore
  <2> QED
    BY <2>1, Where
<1>2. ~hosts /\ hosts' = hosts
  <2>1. hosts' = hosts
    BY DEF DropStandIn, Restore
  <2> QED
    BY <1>1, <2>1 DEF OnProgress
<1>3. Ended(r) \/ Moved(r, job[r].step + 1, job[r].errs)
  BY <1>1, AdvanceMoves, EndEnds DEF DropStandIn, Restore, DoneOr
<1>4. \/ UNCHANGED <<at, kept>>
      \/ kept[x] # "none" /\ at' = [at EXCEPT ![x] = "none"] /\ UNCHANGED kept
      \/ /\ kept[x] # "none" /\ at' = [at EXCEPT ![x] = kept[x]]
         /\ kept' = [kept EXCEPT ![x] = "none"]
  BY DEF DropStandIn, Restore, DoneOr
<1>5. Reversible'
  BY <1>4, ItemNames DEF Reversible, Creds
<1>6. EndpointPrivate'
  BY <1>2 DEF EndpointPrivate
<1>7. CASE Moved(r, job[r].step + 1, job[r].errs)
  BY <1>1, <1>2, <1>5, <1>6, <1>7 DEF OffProgress, OnProgress, Moved
<1> QED
  BY <1>3, <1>5, <1>6, <1>7, EndedProgress

\* The steps that touch no file.
LEMMA OtherStepsSafe ==
  ASSUME Careful, NEW r \in Reqs,
         Flush(r) \/ SetUnit(r) \/ RestartApp(r) \/ StartStandIns(r) \/ StopStandIns(r)
  PROVE  Reversible' /\ EndpointPrivate' /\ OffProgress(r)' /\ OnProgress(r)'
<1> USE CarefulFacts
<1>1. UNCHANGED <<at, kept, hosts>>
  BY DEF Flush, SetUnit, RestartApp, StartStandIns, StopStandIns, files
<1>2. Reversible' /\ EndpointPrivate'
  BY <1>1 DEF Reversible, EndpointPrivate
<1>3. CASE Flush(r)
  <2>1. job[r].step = IF job[r].on THEN 8 ELSE 11
    BY <1>3, Where DEF Flush
  <2>2. \/ Ended(r)
        \/ ~job[r].errs /\ Moved(r, job[r].step + 1, job[r].errs)
        \/ ~job[r].on /\ Moved(r, job[r].step + 1, job[r].errs)
    BY <1>3, <2>1, AdvanceMoves, EndEnds DEF Flush, DoneOr
  <2>3. CASE ~Ended(r)
    BY <1>1, <1>2, <2>1, <2>2, <2>3 DEF OffProgress, OnProgress, Moved
  <2> QED
    BY <1>2, <2>3, EndedProgress
<1>4. CASE RestartApp(r) \/ StartStandIns(r) \/ StopStandIns(r)
  <2>1. /\ job[r].step \in {1, 12, 14}
        /\ job[r].step = 14 => Ended(r)
        /\ job[r].step = 1 => job[r].on
    BY <1>4, Where, EndEnds DEF RestartApp, StartStandIns, StopStandIns
  <2>2. Ended(r) \/ Moved(r, job[r].step + 1, job[r].errs)
    BY <1>4, <2>1, AdvanceMoves, EndEnds DEF RestartApp, StartStandIns, StopStandIns
  <2>3. CASE ~Ended(r)
    BY <1>1, <1>2, <2>1, <2>2, <2>3 DEF OffProgress, OnProgress, Moved
  <2> QED
    BY <1>2, <2>3, EndedProgress
<1>5. CASE SetUnit(r)
  <2>1. job[r].step = 13
    BY <1>5, WhereUnits DEF SetUnit
  <2>2. Ended(r) \/ (job'[r].on = job[r].on /\ job'[r].step \in 13..14)
    <3>1. \/ Advance(r, 1) \/ Fail(r)
          \/ \E bad : job' = [job EXCEPT ![r].unit = job[r].unit + 1, ![r].errs = bad]
      BY <1>5 DEF SetUnit
    <3>2. Advance(r, 1) => job'[r].on = job[r].on /\ job'[r].step = 14
      BY <2>1, AdvanceMoves DEF Moved
    <3>3. ASSUME NEW bad, job' = [job EXCEPT ![r].unit = job[r].unit + 1, ![r].errs = bad]
          PROVE  job'[r].on = job[r].on /\ job'[r].step = 13
      BY <2>1, <3>3 DEF Jobs
    <3> QED
      BY <3>1, <3>2, <3>3, EndEnds
  <2>3. CASE ~Ended(r)
    BY <1>1, <1>2, <2>1, <2>2, <2>3 DEF OffProgress, OnProgress
  <2> QED
    BY <1>2, <2>3, EndedProgress
<1> QED
  BY <1>3, <1>4, <1>5

\* control_center never meets the local endpoint with the vendor's key.
LEMMA AppSafe ==
  ASSUME Careful, EndpointPrivate', [Next]_vars
  PROVE  VendorKeyStaysPrivate'
<1>1. TypeOK
  BY DEF Careful
<1>2. app' \in {app, Snapshot, Snapshot'}
  BY <1>1, AppStep
<1>3. Snapshot.local => Snapshot.seen["key"] # "vendor"
  BY DEF Careful, EndpointPrivate, Snapshot
<1>4. Snapshot'.local => Snapshot'.seen["key"] # "vendor"
  BY DEF EndpointPrivate, Snapshot
<1> QED
  BY <1>2, <1>3, <1>4 DEF Careful, VendorKeyStaysPrivate

LEMMA CarefulStep ==
  ASSUME CarefulUse, Careful, [Next]_vars
  PROVE  Careful'
<1>1. ASSUME NEW r \in Reqs, Step(r)
      PROVE  Alone' /\ Progress' /\ Reversible' /\ EndpointPrivate'
  <2>1. Reversible' /\ EndpointPrivate' /\ OffProgress(r)' /\ OnProgress(r)'
    BY <1>1, BackupSafe, ParkSafe, PutSafe, HostsSafe, RemoveResolvSafe, CopyBackSafe,
       DropBackupSafe, CredentialSafe, OtherStepsSafe
    DEF Step
  <2> QED
    BY <1>1, <2>1, OthersIdle
<1>2. ASSUME NEW r \in Reqs, NEW on \in BOOLEAN, BeginToggle(r, on)
      PROVE  Alone' /\ Progress' /\ Reversible' /\ EndpointPrivate'
  <2>1. \A s \in Reqs : job[s].step = 0
    BY <1>2 DEF BeginToggle, CarefulUse, AllIdle
  <2>2. \A s \in Reqs : job'[s].step = IF s = r THEN 1 ELSE 0
    BY <1>2, <2>1, CarefulFacts DEF BeginToggle
  <2>3. Alone' /\ Progress'
    BY <2>2 DEF Alone, Progress, OffProgress, OnProgress
  <2>4. UNCHANGED <<at, kept, hosts>>
    BY <1>2 DEF BeginToggle, files
  <2> QED
    BY <2>3, <2>4 DEF Careful, Reversible, EndpointPrivate
<1>3. ASSUME UNCHANGED files, ForgetProcess \/ UNCHANGED job
      PROVE  Alone' /\ Progress' /\ Reversible' /\ EndpointPrivate'
  <2>1. Reversible' /\ EndpointPrivate'
    BY <1>3 DEF Careful, Reversible, EndpointPrivate, files
  <2>2. CASE ForgetProcess
    <3>1. \A s \in Reqs : job'[s].step = 0
      BY <2>2 DEF ForgetProcess, Idle
    <3>2. Alone' /\ Progress'
      BY <3>1 DEF Alone, Progress, OffProgress, OnProgress
    <3> QED
      BY <2>1, <3>2
  <2>3. CASE UNCHANGED job
    BY <1>3, <2>1, <2>3 DEF Careful, Alone, Progress, OffProgress, OnProgress, files
  <2> QED
    BY <1>3, <2>2, <2>3
<1>4. \A r \in Reqs : ~Tear(r)
  BY DEF Tear, Fault, CarefulUse
<1>5. Alone' /\ Progress' /\ Reversible' /\ EndpointPrivate'
  BY <1>1, <1>2, <1>3, <1>4 DEF Next, Start, Exit, AppRestarts, PowerLoss, vars
<1>6. TypeOK'
  BY TypeStep DEF Careful
<1> QED
  BY <1>5, <1>6, AppSafe DEF Careful

LEMMA AlwaysCareful == ASSUME CarefulUse PROVE Spec => []Careful
<1>1. Careful /\ [Next]_vars => Careful'
  BY CarefulStep
<1> QED
  BY <1>1, CarefulInit, PTL DEF Spec

-----------------------------------------------------------------------------
(* The safety properties.                                                  *)

\* One toggle at a time and no torn file: whatever fails or is interrupted, the vendor's
\* original of each item is in its place or set aside.
THEOREM ToggleIsReversible == ASSUME CarefulUse PROVE Spec => []VendorKept
<1>1. Careful => VendorKept
  BY DEF Careful, Reversible, VendorKept
<1> QED
  BY <1>1, AlwaysCareful, PTL

\* In the same environment a control_center that connects to the local endpoint has not
\* read the vendor's key.
THEOREM KeyStaysPrivate == ASSUME CarefulUse PROVE Spec => []VendorKeyStaysPrivate
<1>1. Careful => VendorKeyStaysPrivate
  BY DEF Careful
<1> QED
  BY <1>1, AlwaysCareful, PTL
-----------------------------------------------------------------------------
(* One toggle at a time: what each step has done when the next one begins. *)

\* What was found before the cloud was turned off, for a resolver or a CA perhaps cut short.
Originals == {"vendor", "torn"}

\* What is set aside was found there, and what is not set aside is in its place.
SetAside ==
  /\ \A x \in Creds : kept[x] = "vendor" \/ (kept[x] = "none" /\ at[x] = "vendor")
  /\ \A x \in Confs : kept[x] \in Originals \/ (kept[x] = "none" /\ at[x] \in Originals)

Restored(x) == kept[x] = "none" /\ at[x] = "vendor"

\* The files a disable leaves behind it ...
FilesOff(r) ==
  ~job[r].on =>
    /\ job[r].step >= 2 => kept["ca"] # "none"
    /\ job[r].step >= 3 => at["ca"] = "local"
    /\ job[r].step >= 4 => kept["cert"] # "none"
    /\ job[r].step >= 5 => kept["key"] # "none"
    /\ job[r].step >= 6 => at["cert"] = "local"
    /\ job[r].step >= 7 => at["key"] = "local"
    /\ job[r].step >= 8 => hosts
    /\ job[r].step >= 9 => kept["resolv"] # "none"
    /\ job[r].step >= 11 => at["resolv"] = "local"
    /\ job[r].step >= 13 => app = Snapshot

\* ... and an enable: up to the flush, unless an error is collected; the credential,
\* unless a stand-in could not be removed.
FilesOn(r) ==
  job[r].on =>
    /\ job[r].step = 3 => at["ca"] \in Originals
    /\ job[r].step \in 3..8 => job[r].errs \/ at["ca"] \in Originals
    /\ job[r].step \in 5..8 => job[r].errs \/ ~hosts
    /\ job[r].step = 6 => kept["resolv"] # "none"
    /\ job[r].step = 7 => at["resolv"] \in Originals
    /\ job[r].step \in 7..8 => job[r].errs \/ at["resolv"] \in Originals
    /\ job[r].step >= 9 => at["ca"] \in Originals /\ at["resolv"] \in Originals /\ ~hosts
    /\ "cert" \notin left =>
         /\ job[r].step = 10 => kept["cert"] = "none" \/ at["cert"] = "none"
         /\ job[r].step >= 11 => Restored("cert")
    /\ "key" \notin left =>
         /\ job[r].step = 12 => kept["key"] = "none" \/ at["key"] = "none"
         /\ job[r].step >= 13 => Restored("key")

\* The units before the one at hand are as the toggle wants them, unless one failed.
UnitsSoFar(r) ==
  /\ job[r].step < 13 => job[r].unit = 1
  /\ job[r].step = 13 =>
       job[r].errs \/ \A i \in 1..5 : i < job[r].unit =>
                         IF job[r].on THEN cloudServices[i] \in enabled
                                      ELSE cloudServices[i] \notin enabled \cup active
  /\ job[r].step = 14 => IF job[r].on THEN enabled = Units ELSE enabled = {} /\ active = {}

SoFar == \A r \in Reqs : FilesOff(r) /\ FilesOn(r) /\ UnitsSoFar(r)

\* A toggle that has reported is the last one, and over.
Reported == outcome # "none" => AllIdle

\* The inductive invariant.
Complete ==
  /\ TypeOK
  /\ Alone
  /\ SetAside
  /\ SoFar
  /\ Reported
  /\ ToggleComplete

\* No step fails: what is left is power lost, a file torn, a crash, a missing simulator.
StepsSucceed == Faults \cap {"file", "unlink", "unit", "app"} = {}

NoErrors == \A r \in Reqs : job[r].errs = FALSE
StandInsRun == up /\ AllIdle /\ ~cloudEnabled => drain /\ prune
StandIns == Complete /\ NoErrors /\ left = {} /\ StandInsRun

LEMMA CompleteInit == Init => Complete
<1> SUFFICES ASSUME Init PROVE Complete
  OBVIOUS
<1>1. \A r \in Reqs : job[r] = Idle
  BY DEF Init
<1>2. ASSUME NEW r \in Reqs
      PROVE  job[r].step = 0 /\ job[r].unit = 1 /\ ~job[r].on
  BY <1>1 DEF Idle
<1>3. Alone /\ SoFar
  BY <1>2 DEF Alone, SoFar, FilesOff, FilesOn, UnitsSoFar
<1>4. SetAside
  BY ItemNames DEF Init, SetAside, Originals, Creds, Confs
<1>5. Reported /\ ToggleComplete
  BY DEF Init, Reported, ToggleComplete
<1> QED
  BY <1>3, <1>4, <1>5, TypeInit DEF Complete

\* The request goes on at step k and at the same unit, with the errors it had ...
Going(r, k) == Moved(r, k, job[r].errs) /\ job'[r].unit = job[r].unit

\* ... or with one more.
Noted(r, k) ==
  /\ job'[r].on = job[r].on
  /\ job'[r].step = k
  /\ job'[r].errs
  /\ job'[r].unit = job[r].unit

LEMMA AdvanceGoes ==
  ASSUME job \in [Reqs -> Jobs], NEW r \in Reqs, NEW n \in 1..3,
         job[r].step + n <= 14, Advance(r, n)
  PROVE  Going(r, job[r].step + n)
<1>1. job'[r] = [job[r] EXCEPT !.step = job[r].step + n]
  BY DEF Advance
<1> QED
  BY <1>1, AdvanceMoves DEF Going, Jobs

LEMMA NoteGoes ==
  ASSUME job \in [Reqs -> Jobs], NEW r \in Reqs, NEW n \in 1..3,
         job[r].step + n <= 14, Note(r, n)
  PROVE  Noted(r, job[r].step + n)
<1>1. job'[r] = [job[r] EXCEPT !.step = job[r].step + n, !.errs = TRUE]
  BY DEF Note
<1> QED
  BY <1>1 DEF Noted, Jobs

\* What the invariant says of a request in progress, and of the files.
LEMMA CompleteFacts ==
  ASSUME Complete, NEW r \in Reqs
  PROVE  /\ at \in [Items -> Contents] /\ kept \in [Items -> Contents]
         /\ job \in [Reqs -> Jobs]
         /\ job[r].on \in BOOLEAN /\ job[r].step \in 0..14 /\ job[r].errs \in BOOLEAN
         /\ job[r].unit \in 1..5
         /\ SetAside /\ FilesOff(r) /\ FilesOn(r) /\ UnitsSoFar(r)
  BY JobType DEF Complete, TypeOK, FilesOK, SoFar

\* A request that is over has nothing to have done.
LEMMA EndedSoFar ==
  ASSUME NEW r \in Reqs, Ended(r)
  PROVE  FilesOff(r)' /\ FilesOn(r)' /\ UnitsSoFar(r)'
<1>1. job'[r].on = FALSE /\ job'[r].step = 0 /\ job'[r].unit = 1
  BY DEF Ended, Idle
<1> QED
  BY <1>1 DEF FilesOff, FilesOn, UnitsSoFar

\* Before the units nothing has been done about them.
LEMMA UnitsAhead ==
  ASSUME Complete, NEW r \in Reqs, job[r].step < 13, NEW k \in 1..13, Going(r, k) \/ Noted(r, k)
  PROVE  UnitsSoFar(r)'
<1>1. job[r].unit = 1
  BY CompleteFacts DEF UnitsSoFar
<1>2. job'[r].unit = 1 /\ job'[r].step = k
  BY <1>1 DEF Going, Noted, Moved
<1> QED
  BY <1>2 DEF UnitsSoFar

LEMMA BackupDone ==
  ASSUME Complete, NEW r \in Reqs, NEW x \in Confs, Backup(r, x)
  PROVE  SetAside' /\ FilesOff(r)' /\ FilesOn(r)' /\ UnitsSoFar(r)'
<1> USE CompleteFacts
<1>1. ~job[r].on /\ ((job[r].step = 1 /\ x = "ca") \/ (job[r].step = 8 /\ x = "resolv"))
  BY Where DEF Backup
<1>2. kept[x] \in Originals \/ (kept[x] = "none" /\ at[x] \in Originals)
  BY DEF SetAside
<1>3. /\ UNCHANGED <<at, hosts, app>>
      /\ \/ kept[x] # "none" /\ UNCHANGED kept /\ Going(r, job[r].step + 1)
         \/ kept' = [kept EXCEPT ![x] = at[x]] /\ at[x] \in Originals /\ Going(r, job[r].step + 1)
         \/ UNCHANGED kept /\ Ended(r)
  BY <1>1, <1>2, AdvanceGoes, EndEnds DEF Backup, DoneOr, Originals
<1>4. SetAside'
  BY <1>3, ItemNames DEF SetAside, Creds, Confs, Originals
<1>5. CASE Ended(r)
  BY <1>4, <1>5, EndedSoFar
<1>6. CASE ~Ended(r)
  <2>1. Going(r, job[r].step + 1)
    BY <1>3, <1>6
  <2>2. kept'[x] # "none" /\ \A y \in Items : y # x => kept'[y] = kept[y]
    BY <1>3, <1>6, ItemNames DEF Originals, Confs
  <2>3. UnitsSoFar(r)'
    BY <1>1, <2>1, UnitsAhead
  <2>4. FilesOff(r)' /\ FilesOn(r)'
    BY <1>1, <1>3, <2>1, <2>2, ItemNames DEF FilesOff, FilesOn, Going, Moved
  <2> QED
    BY <1>4, <2>3, <2>4
<1> QED
  BY <1>5, <1>6

LEMMA ParkDone ==
  ASSUME Complete, NEW r \in Reqs, NEW x \in Creds, Park(r, x)
  PROVE  SetAside' /\ FilesOff(r)' /\ FilesOn(r)' /\ UnitsSoFar(r)'
<1> USE CompleteFacts
<1>1. ~job[r].on /\ ((job[r].step = 3 /\ x = "cert") \/ (job[r].step = 4 /\ x = "key"))
  BY Where DEF Park
<1>2. kept[x] = "vendor" \/ (kept[x] = "none" /\ at[x] = "vendor")
  BY DEF SetAside
<1>3. /\ UNCHANGED <<hosts, app>>
      /\ \/ kept[x] = "vendor" /\ UNCHANGED <<at, kept>> /\ Going(r, job[r].step + 1)
         \/ /\ kept' = [kept EXCEPT ![x] = "vendor"] /\ at' = [at EXCEPT ![x] = "none"]
            /\ Going(r, job[r].step + 1)
         \/ UNCHANGED <<at, kept>> /\ Ended(r)
  BY <1>1, <1>2, AdvanceGoes, EndEnds DEF Park, DoneOr
<1>4. SetAside'
  BY <1>3, ItemNames DEF SetAside, Creds, Confs, Originals
<1>5. CASE Ended(r)
  BY <1>4, <1>5, EndedSoFar
<1>6. CASE ~Ended(r)
  <2>1. Going(r, job[r].step + 1)
    BY <1>3, <1>6
  <2>2. kept'[x] # "none" /\ \A y \in Items : y # x => kept'[y] = kept[y] /\ at'[y] = at[y]
    BY <1>3, <1>6, ItemNames DEF Creds
  <2>3. UnitsSoFar(r)'
    BY <1>1, <2>1, UnitsAhead
  <2>4. FilesOff(r)' /\ FilesOn(r)'
    BY <1>1, <1>3, <2>1, <2>2, ItemNames DEF FilesOff, FilesOn, Going, Moved
  <2> QED
    BY <1>4, <2>3, <2>4
<1> QED
  BY <1>5, <1>6

LEMMA PutDone ==
  ASSUME Complete, NEW r \in Reqs, NEW x \in Items, Put(r, x)
  PROVE  SetAside' /\ FilesOff(r)' /\ FilesOn(r)' /\ UnitsSoFar(r)'
<1> USE CompleteFacts
<1>1. /\ ~job[r].on
      /\ \/ job[r].step = 2 /\ x = "ca"
         \/ job[r].step = 5 /\ x = "cert"
         \/ job[r].step = 6 /\ x = "key"
         \/ job[r].step = 10 /\ x = "resolv"
  BY Where DEF Put
<1>2. /\ UNCHANGED <<kept, hosts, app>>
      /\ \/ at' = [at EXCEPT ![x] = "local"] /\ Going(r, job[r].step + 1)
         \/ UNCHANGED at /\ Ended(r)
  BY <1>1, AdvanceGoes, EndEnds DEF Put, DoneOr
<1>3. kept[x] # "none"
  BY <1>1 DEF FilesOff
<1>4. SetAside'
  BY <1>2, <1>3, ItemNames DEF SetAside, Creds, Confs, Originals
<1>5. CASE Ended(r)
  BY <1>4, <1>5, EndedSoFar
<1>6. CASE ~Ended(r)
  <2>1. Going(r, job[r].step + 1)
    BY <1>2, <1>6
  <2>2. at'[x] = "local" /\ \A y \in Items : y # x => at'[y] = at[y]
    BY <1>2, <1>6
  <2>3. UnitsSoFar(r)'
    BY <1>1, <2>1, UnitsAhead
  <2>4. FilesOff(r)' /\ FilesOn(r)'
    BY <1>1, <1>2, <2>1, <2>2, ItemNames DEF FilesOff, FilesOn, Going, Moved
  <2> QED
    BY <1>4, <2>3, <2>4
<1> QED
  BY <1>5, <1>6

LEMMA HostsDone ==
  ASSUME Complete, NEW r \in Reqs, AddHosts(r) \/ DropHosts(r)
  PROVE  SetAside' /\ FilesOff(r)' /\ FilesOn(r)' /\ UnitsSoFar(r)'
<1> USE CompleteFacts
<1>1. UNCHANGED <<at, kept, app>>
  BY DEF AddHosts, DropHosts
<1>2. SetAside'
  BY <1>1 DEF SetAside
<1>3. CASE AddHosts(r)
  <2>1. ~job[r].on /\ job[r].step = 7
    BY <1>3, Where DEF AddHosts
  <2>2. (hosts' = TRUE /\ Going(r, 8)) \/ Ended(r)
    BY <1>3, <2>1, AdvanceGoes, EndEnds DEF AddHosts, DoneOr
  <2>3. CASE hosts' = TRUE /\ Going(r, 8)
    <3>1. UnitsSoFar(r)'
      BY <2>1, <2>3, UnitsAhead
    <3>2. FilesOff(r)' /\ FilesOn(r)'
      BY <1>1, <2>1, <2>3 DEF FilesOff, FilesOn, Going, Noted, Moved
    <3> QED
      BY <1>2, <3>1, <3>2
  <2> QED
    BY <1>2, <2>2, <2>3, EndedSoFar
<1>4. CASE DropHosts(r)
  <2>1. job[r].on /\ job[r].step = 4
    BY <1>4, Where DEF DropHosts
  <2>2. \/ hosts' = FALSE /\ Going(r, 5)
        \/ Noted(r, 5)
    BY <1>4, <2>1, AdvanceGoes, NoteGoes DEF DropHosts
  <2>3. UnitsSoFar(r)'
    BY <2>1, <2>2, UnitsAhead
  <2>4. /\ job'[r].on = job[r].on /\ job'[r].step = 5
        /\ job[r].errs => job'[r].errs
        /\ job'[r].errs \/ ~hosts'
    BY <2>2 DEF Going, Noted, Moved
  <2>5. job[r].errs \/ at["ca"] \in Originals
    BY <2>1 DEF FilesOn
  <2>6. FilesOff(r)' /\ FilesOn(r)'
    BY <1>1, <2>1, <2>4, <2>5 DEF FilesOff, FilesOn
  <2> QED
    BY <1>2, <2>3, <2>6
<1> QED
  BY <1>3, <1>4

LEMMA RemoveResolvDone ==
  ASSUME Complete, NEW r \in Reqs, RemoveResolv(r)
  PROVE  SetAside' /\ FilesOff(r)' /\ FilesOn(r)' /\ UnitsSoFar(r)'
<1> USE CompleteFacts
<1>1. job[r].step = IF job[r].on THEN 5 ELSE 9
  BY Where DEF RemoveResolv
<1>2. UNCHANGED <<kept, hosts, app>>
  BY DEF RemoveResolv
<1>3. /\ \/ at' = [at EXCEPT !["resolv"] = "none"] /\ kept["resolv"] # "none"
         \/ UNCHANGED at
      /\ \/ job[r].on /\ kept["resolv"] # "none" /\ Going(r, 6)
         \/ job[r].on /\ kept["resolv"] = "none" /\ Going(r, 8)
         \/ ~job[r].on /\ Going(r, 10)
         \/ Ended(r)
  <2>1. CASE job[r].on
    BY <1>1, <2>1, AdvanceGoes DEF RemoveResolv
  <2>2. CASE ~job[r].on
    <3>1. kept["resolv"] # "none"
      BY <1>1, <2>2 DEF FilesOff
    <3> QED
      BY <1>1, <2>2, <3>1, AdvanceGoes, EndEnds DEF RemoveResolv, DoneOr
  <2> QED
    BY <2>1, <2>2
<1>4. \A y \in Items : y # "resolv" => at'[y] = at[y]
  BY <1>3
<1>5. SetAside'
  BY <1>2, <1>3, <1>4, ItemNames DEF SetAside, Creds, Confs, Originals
<1>6. CASE Ended(r)
  BY <1>5, <1>6, EndedSoFar
<1>7. CASE ~Ended(r)
  <2>1. UnitsSoFar(r)'
    BY <1>1, <1>3, <1>7, UnitsAhead
  <2>2. kept["resolv"] = "none" => at'["resolv"] \in Originals
    <3>1. kept["resolv"] \in Originals \/ at["resolv"] \in Originals
      BY DEF SetAside, Confs
    <3>2. kept["resolv"] = "none" => UNCHANGED at
      BY <1>3
    <3> QED
      BY <3>1, <3>2 DEF Originals
  <2>3. /\ job'[r].on = job[r].on /\ job'[r].errs = job[r].errs
        /\ job'[r].step = IF ~job[r].on THEN 10 ELSE IF kept["resolv"] = "none" THEN 8 ELSE 6
    BY <1>3, <1>7 DEF Going, Moved
  <2>4. at'["ca"] = at["ca"] /\ at'["cert"] = at["cert"] /\ at'["key"] = at["key"]
    BY <1>4, ItemNames
  <2>5. CASE job[r].on
    <3>1. job[r].errs \/ (at["ca"] \in Originals /\ ~hosts)
      BY <1>1, <2>5 DEF FilesOn
    <3> QED
      BY <1>2, <1>5, <2>1, <2>2, <2>3, <2>4, <2>5, <3>1 DEF FilesOff, FilesOn
  <2>6. CASE ~job[r].on
    <3>1. job[r].step = 9 /\ job'[r].step = 10 /\ job'[r].on = job[r].on
      BY <1>1, <2>3, <2>6
    <3>2. FilesOff(r)'
      BY <1>2, <2>4, <3>1 DEF FilesOff
    <3>3. FilesOn(r)'
      BY <2>6, <3>1 DEF FilesOn
    <3> QED
      BY <1>5, <2>1, <3>2, <3>3
  <2> QED
    BY <2>5, <2>6
<1> QED
  BY <1>6, <1>7

LEMMA CopyBackDone ==
  ASSUME Complete, NEW r \in Reqs, NEW x \in Confs, CopyBack(r, x)
  PROVE  SetAside' /\ FilesOff(r)' /\ FilesOn(r)' /\ UnitsSoFar(r)'
<1> USE CompleteFacts
<1>1. job[r].on /\ ((job[r].step = 2 /\ x = "ca") \/ (job[r].step = 6 /\ x = "resolv"))
  BY Where DEF CopyBack
<1>2. UNCHANGED <<kept, hosts, app>> /\ x \in Items
  BY ItemNames DEF CopyBack, Confs
<1>3. kept[x] \in Originals \/ (kept[x] = "none" /\ at[x] \in Originals)
  BY DEF SetAside
<1>4. /\ \A y \in Items : y # x => at'[y] = at[y]
      /\ \/ at'[x] \in Originals /\ Going(r, job[r].step + 1)
         \/ at'[x] = at[x] /\ at[x] \in Originals /\ x = "ca" /\ Going(r, job[r].step + 2)
         \/ at'[x] = at[x] /\ Noted(r, job[r].step + 2)
  <2>1. CASE kept[x] # "none" /\ at' = [at EXCEPT ![x] = kept[x]] /\ Advance(r, 1)
    <3>1. Going(r, job[r].step + 1)
      BY <1>1, <2>1, AdvanceGoes
    <3> QED
      BY <1>2, <1>3, <2>1, <3>1
  <2>2. CASE kept[x] = "none" /\ x = "ca" /\ Advance(r, 2) /\ UNCHANGED at
    <3>1. Going(r, job[r].step + 2)
      BY <1>1, <2>2, AdvanceGoes
    <3> QED
      BY <1>3, <2>2, <3>1 DEF Originals
  <2>3. CASE UNCHANGED at /\ Note(r, 2)
    <3>1. Noted(r, job[r].step + 2)
      BY <1>1, <2>3, NoteGoes
    <3> QED
      BY <2>3, <3>1
  <2> QED
    BY <2>1, <2>2, <2>3 DEF CopyBack
<1>5. SetAside'
  BY <1>2, <1>4, ItemNames DEF SetAside, Creds, Confs, Originals
<1>6. UnitsSoFar(r)'
  BY <1>1, <1>4, UnitsAhead
<1>7. /\ job'[r].on = job[r].on
      /\ job[r].errs => job'[r].errs
      /\ \/ job'[r].step = job[r].step + 1 /\ at'[x] \in Originals
         \/ job'[r].step = job[r].step + 2 /\ (job'[r].errs \/ at'[x] \in Originals)
  BY <1>4 DEF Going, Noted, Moved
<1>8. CASE job[r].step = 2
  BY <1>1, <1>2, <1>7, <1>8, <1>5, <1>6 DEF FilesOff, FilesOn
<1>9. CASE job[r].step = 6
  <2>1. x = "resolv" /\ at'["ca"] = at["ca"]
    BY <1>1, <1>4, <1>9, ItemNames
  <2>2. job[r].errs \/ (at["ca"] \in Originals /\ ~hosts)
    BY <1>1, <1>9 DEF FilesOn
  <2> QED
    BY <1>1, <1>2, <1>5, <1>6, <1>7, <1>9, <2>1, <2>2 DEF FilesOff, FilesOn
<1> QED
  BY <1>1, <1>8, <1>9

LEMMA DropBackupDone ==
  ASSUME Complete, NEW r \in Reqs, NEW x \in Confs, DropBackup(r, x)
  PROVE  SetAside' /\ FilesOff(r)' /\ FilesOn(r)' /\ UnitsSoFar(r)'
<1> USE CompleteFacts
<1>1. job[r].on /\ ((job[r].step = 3 /\ x = "ca") \/ (job[r].step = 7 /\ x = "resolv"))
  BY Where DEF DropBackup
<1>2. /\ UNCHANGED <<at, hosts, app>>
      /\ Going(r, job[r].step + 1)
      /\ kept' = [kept EXCEPT ![x] = "none"] \/ UNCHANGED kept
  BY <1>1, AdvanceGoes DEF DropBackup
<1>3. at[x] \in Originals
  BY <1>1 DEF FilesOn
<1>4. SetAside'
  BY <1>2, <1>3, ItemNames DEF SetAside, Creds, Confs
<1>5. UnitsSoFar(r)'
  BY <1>1, <1>2, UnitsAhead
<1>6. FilesOff(r)' /\ FilesOn(r)'
  BY <1>1, <1>2, <1>3 DEF FilesOff, FilesOn, Going, Noted, Moved
<1> QED
  BY <1>4, <1>5, <1>6

LEMMA DropStandInDone ==
  ASSUME Complete, NEW r \in Reqs, NEW x \in Creds, DropStandIn(r, x)
  PROVE  SetAside' /\ FilesOff(r)' /\ FilesOn(r)' /\ UnitsSoFar(r)'
<1> USE CompleteFacts
<1>1. job[r].on /\ ((job[r].step = 9 /\ x = "cert") \/ (job[r].step = 11 /\ x = "key"))
  BY Where DEF DropStandIn
<1>2. /\ UNCHANGED <<kept, hosts, app>>
      /\ Going(r, job[r].step + 1)
      /\ \/ kept[x] # "none" /\ at' = [at EXCEPT ![x] = "none"]
         \/ UNCHANGED at
      /\ left \subseteq left'
      /\ x \notin left' => kept[x] = "none" \/ at'[x] = "none"
  BY <1>1, AdvanceGoes, ItemNames DEF DropStandIn, Creds
<1>3. \A y \in Items : y # x => at'[y] = at[y]
  BY <1>2
<1>4. SetAside'
  BY <1>2, <1>3, ItemNames DEF SetAside, Creds, Confs, Originals
<1>5. UnitsSoFar(r)'
  BY <1>1, <1>2, UnitsAhead
<1>6. FilesOff(r)' /\ FilesOn(r)'
  BY <1>1, <1>2, <1>3, ItemNames DEF FilesOff, FilesOn, Going, Noted, Moved, Restored
<1> QED
  BY <1>4, <1>5, <1>6

LEMMA RestoreDone ==
  ASSUME Complete, NEW r \in Reqs, NEW x \in Creds, Restore(r, x)
  PROVE  SetAside' /\ FilesOff(r)' /\ FilesOn(r)' /\ UnitsSoFar(r)'
<1> USE CompleteFacts
<1>1. job[r].on /\ ((job[r].step = 10 /\ x = "cert") \/ (job[r].step = 12 /\ x = "key"))
  BY Where DEF Restore
<1>2. kept[x] = "vendor" \/ Restored(x)
  BY DEF SetAside, Restored
<1>3. /\ UNCHANGED <<hosts, app, left>>
      /\ \/ /\ at' = [at EXCEPT ![x] = "vendor"] /\ kept' = [kept EXCEPT ![x] = "none"]
            /\ Going(r, job[r].step + 1)
         \/ /\ kept[x] = "none" \/ at[x] # "none"
            /\ UNCHANGED <<at, kept>> /\ Going(r, job[r].step + 1)
         \/ UNCHANGED <<at, kept>> /\ Ended(r)
  BY <1>1, <1>2, AdvanceGoes, EndEnds DEF Restore, DoneOr, Restored
<1>4. \A y \in Items : y # x => at'[y] = at[y] /\ kept'[y] = kept[y]
  BY <1>3
<1>5. SetAside'
  BY <1>3, <1>4, ItemNames DEF SetAside, Creds, Confs, Originals
<1>6. CASE Ended(r)
  BY <1>5, <1>6, EndedSoFar
<1>7. CASE ~Ended(r)
  <2>1. UnitsSoFar(r)'
    BY <1>1, <1>3, <1>7, UnitsAhead
  <2>2. x \notin left => Restored(x)'
    <3>1. x \notin left => kept[x] = "none" \/ at[x] = "none"
      BY <1>1 DEF FilesOn
    <3> QED
      BY <1>2, <1>3, <1>7, <3>1, ItemNames DEF Restored, Creds
  <2>3. job'[r].on = job[r].on /\ job'[r].errs = job[r].errs /\ job'[r].step = job[r].step + 1
    BY <1>3, <1>7 DEF Going, Moved
  <2>4. /\ at'["ca"] = at["ca"] /\ at'["resolv"] = at["resolv"]
        /\ x = "key" => at'["cert"] = at["cert"] /\ kept'["cert"] = kept["cert"]
    BY <1>1, <1>4, ItemNames
  <2>5. at["ca"] \in Originals /\ at["resolv"] \in Originals /\ ~hosts
    BY <1>1 DEF FilesOn
  <2>6. "cert" \notin left /\ job[r].step = 12 => Restored("cert")
    BY <1>1 DEF FilesOn
  <2>7. FilesOff(r)' /\ FilesOn(r)'
    BY <1>1, <1>3, <2>2, <2>3, <2>4, <2>5, <2>6 DEF FilesOff, FilesOn, Restored
  <2> QED
    BY <1>5, <2>1, <2>7
<1> QED
  BY <1>6, <1>7

\* The steps that touch neither files nor units.
LEMMA OtherStepsDone ==
  ASSUME Complete, NEW r \in Reqs,
         Flush(r) \/ RestartApp(r) \/ StartStandIns(r) \/ StopStandIns(r)
  PROVE  SetAside' /\ FilesOff(r)' /\ FilesOn(r)' /\ UnitsSoFar(r)'
<1> USE CompleteFacts
<1>1. UNCHANGED <<at, kept, hosts, left>>
  BY DEF Flush, RestartApp, StartStandIns, StopStandIns, files
<1>2. SetAside'
  BY <1>1 DEF SetAside
<1>3. CASE Ended(r)
  BY <1>2, <1>3, EndedSoFar
<1>4. CASE Flush(r) /\ ~Ended(r)
  <2>1. job[r].step = IF job[r].on THEN 8 ELSE 11
    BY <1>4, Where DEF Flush
  <2>2. Going(r, job[r].step + 1) /\ (job[r].on => ~job[r].errs)
    BY <1>4, <2>1, AdvanceGoes, EndEnds DEF Flush, DoneOr
  <2>3. UnitsSoFar(r)'
    BY <2>1, <2>2, UnitsAhead
  <2>4. FilesOff(r)' /\ FilesOn(r)'
    BY <1>1, <2>1, <2>2 DEF FilesOff, FilesOn, Going, Moved
  <2> QED
    BY <1>2, <2>3, <2>4
<1>5. CASE RestartApp(r) /\ ~Ended(r)
  <2>1. job[r].step = (IF job[r].on THEN 14 ELSE 12) /\ ~job[r].on
    BY <1>5, Where, EndEnds DEF RestartApp
  <2>2. Going(r, 13) /\ app' = Snapshot
    BY <1>5, <2>1, AdvanceGoes, EndEnds DEF RestartApp
  <2>3. Snapshot' = Snapshot
    BY <1>1 DEF Snapshot
  <2>4. UnitsSoFar(r)'
    BY <2>1, <2>2, UnitsAhead
  <2>5. ~job'[r].on /\ job'[r].step = 13
    BY <2>1, <2>2 DEF Going, Moved
  <2>6. FilesOff(r)' /\ FilesOn(r)'
    BY <1>1, <2>1, <2>2, <2>3, <2>5 DEF FilesOff, FilesOn
  <2> QED
    BY <1>2, <2>4, <2>6
<1>6. CASE StopStandIns(r)
  <2>1. job[r].on /\ job[r].step = 1
    BY <1>6, Where DEF StopStandIns
  <2>2. Going(r, 2)
    BY <1>6, <2>1, AdvanceGoes DEF StopStandIns
  <2>3. UnitsSoFar(r)'
    BY <2>1, <2>2, UnitsAhead
  <2>4. FilesOff(r)' /\ FilesOn(r)'
    BY <2>1, <2>2 DEF FilesOff, FilesOn, Going, Moved
  <2> QED
    BY <1>2, <2>3, <2>4
<1>7. StartStandIns(r) => Ended(r)
  BY EndEnds DEF StartStandIns
<1> QED
  BY <1>3, <1>4, <1>5, <1>6, <1>7

\* The five units of a toggle are all there are.
LEMMA AllUnits == Units = {cloudServices[i] : i \in 1..5}
<1>1. /\ cloudServices[1] = "debug_log_push" /\ cloudServices[2] = "frpc"
      /\ cloudServices[3] = "update-robotic" /\ cloudServices[4] = "upload-recorder"
      /\ cloudServices[5] = "upload_image"
  BY DEF cloudServices
<1>2. \A i \in 1..5 : i \in {1, 2, 3, 4, 5}
  OBVIOUS
<1> QED
  BY <1>1, <1>2 DEF Units

\* What setting one unit does.
LEMMA SetUnitSteps ==
  ASSUME Complete, NEW r \in Reqs, SetUnit(r)
  PROVE  /\ job[r].step = 13 /\ UNCHANGED <<files, app, left>>
         /\ \/ Ended(r)
            \/ /\ job'[r].on = job[r].on
               /\ \/ job[r].unit < 5 /\ job'[r].step = 13 /\ job'[r].unit = job[r].unit + 1
                  \/ job[r].unit = 5 /\ job'[r].step = 14 /\ ~job[r].errs /\ ~job'[r].errs
               /\ job'[r].errs \/ ~job[r].errs
               /\ \/ job'[r].errs
                  \/ IF job[r].on
                     THEN enabled' = enabled \cup {cloudServices[job[r].unit]}
                     ELSE /\ enabled' = enabled \ {cloudServices[job[r].unit]}
                          /\ active' = active \ {cloudServices[job[r].unit]}
<1> USE CompleteFacts
<1> DEFINE u == cloudServices[job[r].unit]
           Set == IF job[r].on THEN enabled' = enabled \cup {u}
                               ELSE enabled' = enabled \ {u} /\ active' = active \ {u}
           Next1(bad) == job' = [job EXCEPT ![r].unit = @ + 1, ![r].errs = bad]
<1>1. job[r].step = 13
  BY WhereUnits DEF SetUnit
<1>2. UNCHANGED <<files, app, left>>
  BY DEF SetUnit
<1>3. LastUnit(r) <=> job[r].unit = 5
  BY Lengths DEF LastUnit
<1>4. \/ Fail(r)
      \/ Set /\ ~LastUnit(r) /\ Next1(job[r].errs)
      \/ Set /\ LastUnit(r) /\ ~job[r].errs /\ Advance(r, 1)
      \/ ~LastUnit(r) /\ Next1(TRUE)
  BY DEF SetUnit
<1>5. CASE Fail(r)
  BY <1>1, <1>2, <1>5, EndEnds
<1>6. CASE Set /\ ~LastUnit(r) /\ Next1(job[r].errs)
  <2>1. job'[r] = [job[r] EXCEPT !.unit = job[r].unit + 1, !.errs = job[r].errs]
    BY <1>6
  <2>2. /\ job'[r].on = job[r].on /\ job'[r].step = 13
        /\ job'[r].unit = job[r].unit + 1 /\ job'[r].errs = job[r].errs
    BY <1>1, <2>1 DEF Jobs
  <2>3. job[r].unit < 5
    BY <1>3, <1>6
  <2> QED
    BY <1>1, <1>2, <1>6, <2>2, <2>3
<1>7. CASE Set /\ LastUnit(r) /\ ~job[r].errs /\ Advance(r, 1)
  <2>1. Going(r, 14)
    BY <1>1, <1>7, AdvanceGoes
  <2>2. job'[r].on = job[r].on /\ job'[r].step = 14 /\ job'[r].errs = job[r].errs
    BY <2>1 DEF Going, Moved
  <2> QED
    BY <1>1, <1>2, <1>3, <1>7, <2>2
<1>8. CASE ~LastUnit(r) /\ Next1(TRUE)
  <2>1. job'[r] = [job[r] EXCEPT !.unit = job[r].unit + 1, !.errs = TRUE]
    BY <1>8
  <2>2. /\ job'[r].on = job[r].on /\ job'[r].step = 13
        /\ job'[r].unit = job[r].unit + 1 /\ job'[r].errs
    BY <1>1, <2>1 DEF Jobs
  <2>3. job[r].unit < 5
    BY <1>3, <1>8
  <2> QED
    BY <1>1, <1>2, <2>2, <2>3
<1> QED
  BY <1>4, <1>5, <1>6, <1>7, <1>8

LEMMA SetUnitDone ==
  ASSUME Complete, NEW r \in Reqs, SetUnit(r)
  PROVE  SetAside' /\ FilesOff(r)' /\ FilesOn(r)' /\ UnitsSoFar(r)'
<1> USE CompleteFacts
<1>1. job[r].step = 13 /\ UNCHANGED <<at, kept, hosts, app, left>>
  BY SetUnitSteps DEF files
<1>2. SetAside' /\ Snapshot' = Snapshot
  BY <1>1 DEF SetAside, Snapshot
<1>3. CASE Ended(r)
  BY <1>2, <1>3, EndedSoFar
<1>4. CASE ~Ended(r)
  <2> DEFINE n == job[r].unit
  <2>1. /\ job'[r].on = job[r].on
        /\ \/ n < 5 /\ job'[r].step = 13 /\ job'[r].unit = n + 1
           \/ n = 5 /\ job'[r].step = 14 /\ ~job[r].errs /\ ~job'[r].errs
        /\ job'[r].errs \/ ~job[r].errs
        /\ \/ job'[r].errs
           \/ IF job[r].on THEN enabled' = enabled \cup {cloudServices[n]}
              ELSE enabled' = enabled \ {cloudServices[n]} /\ active' = active \ {cloudServices[n]}
    BY <1>4, SetUnitSteps
  <2>2. n \in 1..5
    OBVIOUS
  <2>3. job[r].errs \/ \A i \in 1..5 : i < n =>
                          IF job[r].on THEN cloudServices[i] \in enabled
                                       ELSE cloudServices[i] \notin enabled \cup active
    BY <1>1 DEF UnitsSoFar
  <2> HIDE DEF n
  <2>4. ASSUME ~job'[r].errs, NEW i \in 1..5, i <= n
        PROVE  IF job[r].on THEN cloudServices[i] \in enabled'
                            ELSE cloudServices[i] \notin enabled' \cup active'
    <3>1. i < n => IF job[r].on THEN cloudServices[i] \in enabled
                                ELSE cloudServices[i] \notin enabled \cup active
      BY <2>1, <2>3, <2>4
    <3>2. i < n \/ i = n
      BY <2>2, <2>4
    <3> QED
      BY <2>1, <2>4, <3>1, <3>2
  <2>5. enabled' \subseteq Units /\ active' \subseteq Units
    BY MemStep, <1>4 DEF Complete, TypeOK, Next, Step, MemOK
  <2>6. UnitsSoFar(r)'
    <3>1. CASE job'[r].step = 13
      <4>1. job'[r].unit = n + 1
        BY <2>1, <3>1
      <4> QED
        BY <2>1, <2>2, <2>4, <3>1, <4>1 DEF UnitsSoFar
    <3>2. CASE job'[r].step = 14
      <4>1. n = 5 /\ ~job'[r].errs
        BY <2>1, <3>2
      <4>2. \A i \in 1..5 : IF job[r].on THEN cloudServices[i] \in enabled'
                                         ELSE cloudServices[i] \notin enabled' \cup active'
        BY <2>4, <4>1
      <4>3. IF job[r].on THEN enabled' = Units ELSE enabled' = {} /\ active' = {}
        BY <2>5, <4>2, AllUnits
      <4> QED
        BY <2>1, <3>2, <4>3 DEF UnitsSoFar
    <3> QED
      BY <2>1, <3>1, <3>2
  <2>7. job'[r].step >= 13
    BY <2>1
  <2>8. FilesOff(r)' /\ FilesOn(r)'
    BY <1>1, <1>2, <2>1, <2>7 DEF FilesOff, FilesOn, Restored
  <2> QED
    BY <1>2, <2>6, <2>8
<1> QED
  BY <1>3, <1>4

\* A step that reports a success is the last one of its request.
LEMMA Reports ==
  ASSUME Complete, NEW r \in Reqs, Step(r), outcome' # outcome
  PROVE  /\ Ended(r)
         /\ UNCHANGED <<at, kept, hosts, enabled, active, left>>
         /\ job[r].step = 14
         /\ \/ job[r].on /\ outcome' = "on" /\ app' = Snapshot /\ UNCHANGED <<drain, prune>>
            \/ ~job[r].on /\ outcome' = "off" /\ app' = app /\ drain' /\ prune'
<1> USE CompleteFacts
<1>1. \/ RestartApp(r) /\ job[r].on /\ Succeed(r) /\ app' = Snapshot
      \/ StartStandIns(r) /\ Succeed(r)
  BY DEF Step, Park, Put, Backup, CopyBack, DropBackup, DropStandIn, Restore, AddHosts,
         DropHosts, RemoveResolv, Flush, SetUnit, RestartApp, StartStandIns, StopStandIns,
         DoneOr, Advance, Note, Fail
<1>2. Ended(r) /\ outcome' = IF job[r].on THEN "on" ELSE "off"
  BY <1>1, EndEnds DEF Succeed
<1>3. CASE RestartApp(r) /\ job[r].on /\ app' = Snapshot
  BY <1>2, <1>3, Where DEF RestartApp, files, units, mem
<1>4. CASE StartStandIns(r)
  BY <1>2, <1>4, Where DEF StartStandIns, files, units
<1> QED
  BY <1>1, <1>3, <1>4

\* What it reports it has done, and no other request is in progress.
LEMMA ReportsTruly ==
  ASSUME Complete, NEW r \in Reqs, Step(r)
  PROVE  Reported' /\ ToggleComplete'
<1> USE CompleteFacts
<1>1. job[r].step > 0
  BY StepMoves
<1>2. outcome = "none"
  BY <1>1 DEF Complete, Reported, AllIdle
<1>3. CASE outcome' = outcome
  BY <1>2, <1>3 DEF Reported, ToggleComplete
<1>4. CASE outcome' # outcome
  <2>1. /\ Ended(r)
        /\ UNCHANGED <<at, kept, hosts, enabled, active, left>>
        /\ job[r].step = 14
        /\ \/ job[r].on /\ outcome' = "on" /\ app' = Snapshot
           \/ ~job[r].on /\ outcome' = "off" /\ app' = app
    BY <1>4, Reports
  <2>2. Snapshot' = Snapshot
    BY <2>1 DEF Snapshot
  <2>3. AllIdle'
    <3>1. \A s \in Reqs : s # r => job[s].step = 0
      BY <1>1, CompleteFacts DEF Complete, Alone
    <3>2. \A s \in Reqs : job'[s].step = 0
      BY <2>1, <3>1 DEF Ended, Idle
    <3> QED
      BY <3>2 DEF AllIdle
  <2>4. CASE job[r].on
    <3>1. /\ at["ca"] \in Originals /\ at["resolv"] \in Originals /\ ~hosts
          /\ "cert" \notin left => Restored("cert")
          /\ "key" \notin left => Restored("key")
      BY <2>1, <2>4 DEF FilesOn
    <3>2. enabled = Units
      BY <2>1, <2>4 DEF UnitsSoFar
    <3>3. outcome' = "on" /\ app' = Snapshot'
      BY <2>1, <2>2, <2>4
    <3>4. ToggleComplete'
      BY <2>1, <3>1, <3>2, <3>3 DEF ToggleComplete, Restored, Originals, Creds, Confs
    <3> QED
      BY <2>3, <3>4 DEF Reported
  <2>5. CASE ~job[r].on
    <3>1. /\ \A x \in Items : at[x] = "local" /\ kept[x] # "none"
          /\ hosts /\ app = Snapshot
      BY <2>1, <2>5, ItemNames DEF FilesOff
    <3>2. enabled = {} /\ active = {}
      BY <2>1, <2>5 DEF UnitsSoFar
    <3>3. outcome' = "off" /\ app' = Snapshot'
      BY <2>1, <2>2, <2>5, <3>1
    <3>4. ToggleComplete'
      BY <2>1, <3>1, <3>2, <3>3 DEF ToggleComplete
    <3> QED
      BY <2>3, <3>4 DEF Reported
  <2> QED
    BY <2>4, <2>5
<1> QED
  BY <1>3, <1>4

\* While no request is in progress, what was reported stays true.
LEMMA StaysComplete ==
  ASSUME Complete, UNCHANGED <<files, enabled, outcome, left>>,
         \/ UNCHANGED <<active, app>>
         \/ UNCHANGED active /\ app' = Snapshot
         \/ Boot,
         AllIdle' \/ UNCHANGED job
  PROVE  Reported' /\ ToggleComplete'
<1>1. UNCHANGED <<at, kept, hosts>> /\ Snapshot' = Snapshot
  BY DEF files, Snapshot
<1>2. app' = app \/ app' = Snapshot'
  BY <1>1 DEF Boot
<1>3. active = {} /\ enabled = {} => active' = {}
  BY DEF Boot
<1>4. ToggleComplete'
  BY <1>1, <1>2, <1>3 DEF Complete, ToggleComplete
<1>5. Reported'
  BY DEF Complete, Reported, AllIdle
<1> QED
  BY <1>4, <1>5

\* A file cut short is one of those the request was about to write.
LEMMA TearDone ==
  ASSUME Complete, NEW r \in Reqs, Tear(r)
  PROVE  SetAside' /\ Reported' /\ ToggleComplete'
<1> USE CompleteFacts
<1>1. PICK x \in Items :
        \/ /\ At(r, "backup", x)
           /\ kept[x] = "none"
           /\ kept' = [kept EXCEPT ![x] = "torn"]
           /\ UNCHANGED <<at, hosts>>
        \/ /\ At(r, "put", x) \/ (At(r, "copyBack", x) /\ kept[x] # "none")
           /\ at' = [at EXCEPT ![x] = "torn"]
           /\ UNCHANGED <<kept, hosts>>
        \/ /\ At(r, "hosts", "add") \/ At(r, "hosts", "drop")
           /\ hosts' = FALSE
           /\ UNCHANGED <<at, kept>>
  BY DEF Tear
<1>2. SetAside'
  <2>1. CASE At(r, "backup", x) /\ kept[x] = "none" /\ kept' = [kept EXCEPT ![x] = "torn"] /\ UNCHANGED at
    <3>1. x \in Confs
      BY <2>1, Where DEF Confs
    <3> QED
      BY <2>1, <3>1, ItemNames DEF SetAside, Originals, Creds, Confs
  <2>2. CASE /\ At(r, "put", x) \/ (At(r, "copyBack", x) /\ kept[x] # "none")
             /\ at' = [at EXCEPT ![x] = "torn"] /\ UNCHANGED kept
    <3>1. kept[x] # "none"
      BY <2>2, Where DEF FilesOff
    <3> QED
      BY <2>2, <3>1, ItemNames DEF SetAside, Originals, Creds, Confs
  <2>3. CASE UNCHANGED <<at, kept>>
    BY <2>3 DEF SetAside
  <2> QED
    BY <1>1, <2>1, <2>2, <2>3
<1>3. job[r].step > 0
  BY <1>1, AtStep
<1>4. outcome = "none" /\ outcome' = outcome
  BY <1>3 DEF Complete, Reported, AllIdle, Tear, Boot
<1> QED
  BY <1>2, <1>4 DEF Reported, ToggleComplete

LEMMA CompleteStep ==
  ASSUME Serial, Complete, [Next]_vars
  PROVE  Complete'
<1> DEFINE Rest == Alone' /\ SetAside' /\ SoFar' /\ Reported' /\ ToggleComplete'
<1> SUFFICES Rest
  BY TypeStep DEF Complete
<1>1. ASSUME NEW r \in Reqs, Step(r)
      PROVE  Rest
  <2>1. SetAside' /\ FilesOff(r)' /\ FilesOn(r)' /\ UnitsSoFar(r)'
    BY <1>1, BackupDone, ParkDone, PutDone, HostsDone, RemoveResolvDone, CopyBackDone,
       DropBackupDone, DropStandInDone, RestoreDone, OtherStepsDone, SetUnitDone
    DEF Step
  <2>2. job[r].step > 0 /\ \A s \in Reqs : s # r => job'[s] = job[s]
    BY <1>1, StepMoves, CompleteFacts DEF Moved, Ended
  <2>3. \A s \in Reqs : s # r => job'[s] = Idle \/ job'[s].step = 0
    BY <2>2, CompleteFacts DEF Complete, Alone
  <2>4. Alone'
    BY <2>3 DEF Alone, Idle
  <2>5. ASSUME NEW s \in Reqs, s # r
        PROVE  FilesOff(s)' /\ FilesOn(s)' /\ UnitsSoFar(s)'
    <3>1. job'[s] = job[s] /\ job'[s].step = 0 /\ job[s].unit = 1
      BY <2>2, <2>5, CompleteFacts DEF Complete, Alone, UnitsSoFar
    <3> QED
      BY <3>1 DEF FilesOff, FilesOn, UnitsSoFar
  <2>6. SoFar'
    BY <2>1, <2>5 DEF SoFar
  <2> QED
    BY <1>1, <2>1, <2>4, <2>6, ReportsTruly
<1>2. ASSUME NEW r \in Reqs, NEW on \in BOOLEAN, BeginToggle(r, on)
      PROVE  Rest
  <2>1. \A s \in Reqs : job[s].step = 0
    BY <1>2 DEF BeginToggle, AllIdle
  <2>2. ASSUME NEW s \in Reqs
        PROVE  job'[s].step = (IF s = r THEN 1 ELSE 0) /\ job'[s].unit = 1
    <3>1. CASE s = r
      BY <1>2, <3>1, CompleteFacts DEF BeginToggle
    <3>2. CASE s # r
      BY <1>2, <2>1, <3>2, CompleteFacts DEF BeginToggle, UnitsSoFar
    <3> QED
      BY <3>1, <3>2
  <2>3. Alone' /\ SoFar'
    BY <2>2 DEF Alone, SoFar, FilesOff, FilesOn, UnitsSoFar
  <2>4. SetAside'
    BY <1>2 DEF BeginToggle, files, Complete, SetAside
  <2>5. Reported' /\ ToggleComplete'
    BY <1>2 DEF BeginToggle, Reported, ToggleComplete
  <2> QED
    BY <2>3, <2>4, <2>5
<1>3. ASSUME ForgetProcess
      PROVE  Alone' /\ SoFar' /\ AllIdle'
  <2>1. \A s \in Reqs : job'[s] = Idle
    BY <1>3 DEF ForgetProcess
  <2>2. ASSUME NEW s \in Reqs
        PROVE  job'[s].step = 0 /\ job'[s].unit = 1 /\ ~job'[s].on
    BY <2>1 DEF Idle
  <2> QED
    BY <2>2 DEF Alone, SoFar, FilesOff, FilesOn, UnitsSoFar, AllIdle
<1>4. ASSUME NEW r \in Reqs, Tear(r)
      PROVE  Rest
  BY <1>3, <1>4, TearDone DEF Tear
<1>5. CASE Exit \/ PowerLoss
  <2>1. /\ ForgetProcess /\ UNCHANGED <<files, enabled, outcome, left>>
        /\ UNCHANGED <<active, app>> \/ Boot
    BY <1>5 DEF Exit, PowerLoss, Boot, units
  <2>2. SetAside'
    BY <2>1 DEF files, Complete, SetAside
  <2>3. Alone' /\ SoFar' /\ AllIdle'
    BY <1>3, <2>1
  <2>4. Reported' /\ ToggleComplete'
    BY <2>1, <2>3, StaysComplete
  <2> QED
    BY <2>2, <2>3, <2>4
<1>6. CASE Start \/ AppRestarts \/ UNCHANGED vars
  <2>1. /\ UNCHANGED <<files, enabled, outcome, left, job>>
        /\ UNCHANGED active /\ app' \in {app, Snapshot}
    BY <1>6 DEF Start, AppRestarts, vars, units
  <2>2. SetAside' /\ Alone'
    BY <2>1 DEF files, Complete, SetAside, Alone
  <2>3. SoFar'
    <3>1. Snapshot' = Snapshot
      BY <2>1 DEF files, Snapshot
    <3> SUFFICES ASSUME NEW r \in Reqs PROVE FilesOff(r)' /\ FilesOn(r)' /\ UnitsSoFar(r)'
      BY DEF SoFar
    <3>2. FilesOff(r)'
      BY <2>1, <3>1, CompleteFacts DEF FilesOff, files
    <3>3. FilesOn(r)' /\ UnitsSoFar(r)'
      BY <2>1, CompleteFacts DEF FilesOn, UnitsSoFar, Restored, files
    <3> QED
      BY <3>2, <3>3
  <2>4. Reported' /\ ToggleComplete'
    <3>1. UNCHANGED job /\ (UNCHANGED <<active, app>> \/ (UNCHANGED active /\ app' = Snapshot))
      BY <2>1
    <3> QED
      BY <2>1, <3>1, StaysComplete
  <2> QED
    BY <2>2, <2>3, <2>4
<1> HIDE DEF Rest
<1> QED
  BY <1>1, <1>2, <1>4, <1>5, <1>6 DEF Next

LEMMA AlwaysComplete == ASSUME Serial PROVE Spec => []Complete
<1>1. Complete /\ [Next]_vars => Complete'
  BY CompleteStep
<1> QED
  BY <1>1, CompleteInit, PTL DEF Spec

\* One toggle at a time, whatever fails, tears or is interrupted: a toggle that reported
\* success has done all of it, until the next one is requested; an enable has restored the
\* certificate and the key too, save where os.Remove failed on the stand-in.
THEOREM SuccessIsComplete == ASSUME Serial PROVE Spec => []ToggleComplete
<1>1. Complete => ToggleComplete
  BY DEF Complete
<1> QED
  BY <1>1, AlwaysComplete, PTL

\* When no step fails a request goes on without errors until it reports a success.
LEMMA GoesOn ==
  ASSUME StepsSucceed, Complete, NoErrors, NEW r \in Reqs, Step(r)
  PROVE  /\ ~job'[r].errs
         /\ outcome' # outcome \/ job'[r].step > 0
<1> USE CompleteFacts
<1>1. ~job[r].errs
  BY DEF NoErrors
<1>2. ~Fault("file") /\ ~Fault("unlink") /\ ~Fault("unit") /\ ~Fault("app")
  BY DEF StepsSucceed, Fault
<1>3. job[r].step \in 1..14
  BY StepMoves
<1>4. outcome = "none"
  BY <1>3 DEF Complete, Reported, AllIdle
<1>5. ASSUME NEW n \in 1..3, Advance(r, n)
      PROVE  ~job'[r].errs /\ job'[r].step > 0
  <2>1. job'[r] = [job[r] EXCEPT !.step = job[r].step + n]
    BY <1>5 DEF Advance
  <2> QED
    BY <1>1, <1>3, <2>1 DEF Jobs
<1>6. ASSUME Succeed(r)
      PROVE  ~job'[r].errs /\ outcome' # outcome
  BY <1>4, <1>6 DEF Succeed, Idle
<1>7. CASE SetUnit(r)
  <2>1. \/ job' = [job EXCEPT ![r].unit = @ + 1, ![r].errs = job[r].errs]
        \/ Advance(r, 1)
    BY <1>1, <1>2, <1>7 DEF SetUnit
  <2>2. CASE job' = [job EXCEPT ![r].unit = @ + 1, ![r].errs = job[r].errs]
    <3>1. job'[r] = [job[r] EXCEPT !.unit = job[r].unit + 1, !.errs = job[r].errs]
      BY <2>2
    <3> QED
      BY <1>1, <1>3, <3>1 DEF Jobs
  <2> QED
    BY <1>5, <2>1, <2>2
<1>8. ASSUME NEW x \in Confs, CopyBack(r, x)
      PROVE  Advance(r, 1) \/ Advance(r, 2)
  <2>1. x = "resolv" => kept[x] # "none"
    BY <1>8, Where DEF CopyBack, FilesOn
  <2> QED
    BY <1>2, <1>8, <2>1 DEF CopyBack, Confs
<1>9. CASE Flush(r)
  <2>1. Advance(r, 1)
    BY <1>1, <1>2, <1>9 DEF Flush, DoneOr
  <2> QED
    BY <1>5, <2>1
<1>10. CASE RestartApp(r)
  BY <1>2, <1>5, <1>6, <1>10 DEF RestartApp
<1>11. CASE StartStandIns(r)
  BY <1>6, <1>11 DEF StartStandIns
<1>12. ASSUME NEW x, Park(r, x) \/ DropStandIn(r, x) \/ Restore(r, x) \/ Backup(r, x)
                     \/ DropBackup(r, x) \/ Put(r, x)
       PROVE  Advance(r, 1)
  BY <1>2, <1>12 DEF Park, DropStandIn, Restore, Backup, DropBackup, Put, DoneOr
<1>13. ASSUME AddHosts(r) \/ DropHosts(r) \/ RemoveResolv(r) \/ StopStandIns(r)
       PROVE  Advance(r, 1) \/ Advance(r, 3)
  BY <1>2, <1>13 DEF AddHosts, DropHosts, RemoveResolv, StopStandIns, DoneOr
<1>14. CASE Advance(r, 1) \/ Advance(r, 2) \/ Advance(r, 3)
  BY <1>5, <1>14
<1> QED
  BY <1>7, <1>8, <1>9, <1>10, <1>11, <1>12, <1>13, <1>14 DEF Step

LEMMA StandInsInit == Init => StandIns
<1> SUFFICES ASSUME Init PROVE StandIns
  OBVIOUS
<1>1. ASSUME NEW r \in Reqs
      PROVE  job[r].errs = FALSE
  BY DEF Init, Idle
<1>2. NoErrors
  BY <1>1 DEF NoErrors
<1>3. StandInsRun /\ left = {}
  BY DEF Init, StandInsRun
<1> QED
  BY <1>2, <1>3, CompleteInit DEF StandIns

\* When os.Remove does not fail no stand-in is left.
LEMMA NothingLeft ==
  ASSUME StepsSucceed, left = {}, [Next]_vars
  PROVE  left' = {}
<1>1. ~Fault("unlink")
  BY DEF StepsSucceed, Fault
<1>2. ASSUME NEW r \in Reqs, Step(r)
      PROVE  left' = {}
  BY <1>1, <1>2
  DEF Step, Park, Put, Backup, CopyBack, DropBackup, DropStandIn, Restore, AddHosts,
      DropHosts, RemoveResolv, Flush, SetUnit, RestartApp, StartStandIns, StopStandIns
<1> QED
  BY <1>2 DEF Next, Start, Exit, AppRestarts, PowerLoss, Tear, Boot, BeginToggle, vars

LEMMA StandInsStep ==
  ASSUME Serial, StepsSucceed, StandIns, [Next]_vars
  PROVE  StandIns'
<1>1. Complete /\ NoErrors /\ left = {} /\ StandInsRun
  BY DEF StandIns
<1> SUFFICES NoErrors' /\ StandInsRun'
  BY <1>1, CompleteStep, NothingLeft DEF StandIns
<1>2. ASSUME NEW r \in Reqs, Step(r)
      PROVE  NoErrors' /\ StandInsRun'
  <2>1. ~job'[r].errs /\ (outcome' # outcome \/ job'[r].step > 0)
    BY <1>1, <1>2, GoesOn
  <2>2. job' \in [Reqs -> Jobs] /\ \A s \in Reqs : s # r => job'[s] = job[s]
    BY <1>1, <1>2, StepMoves, CompleteFacts DEF Moved, Ended
  <2>3. NoErrors'
    <3> SUFFICES ASSUME NEW s \in Reqs PROVE job'[s].errs = FALSE
      BY DEF NoErrors
    <3>1. CASE s = r
      BY <2>1, <2>2, <3>1 DEF Jobs
    <3>2. CASE s # r
      BY <1>1, <2>2, <3>2 DEF NoErrors
    <3> QED
      BY <3>1, <3>2
  <2>4. CASE job'[r].step > 0
    <3>1. ~AllIdle'
      BY <2>4 DEF AllIdle
    <3> QED
      BY <2>3, <3>1 DEF StandInsRun
  <2>5. CASE outcome' # outcome
    <3>1. /\ UNCHANGED <<at, kept>> /\ job[r].step = 14
          /\ job[r].on \/ (drain' /\ prune')
      BY <1>1, <1>2, <2>5, Reports
    <3>2. job[r].on => Restored("cert")
      BY <1>1, <3>1, CompleteFacts DEF FilesOn
    <3>3. job[r].on => cloudEnabled'
      BY <3>1, <3>2 DEF Restored, cloudEnabled
    <3> QED
      BY <2>3, <3>1, <3>3 DEF StandInsRun
  <2> QED
    BY <2>1, <2>4, <2>5
<1>3. ASSUME NEW r \in Reqs, NEW on \in BOOLEAN, BeginToggle(r, on)
      PROVE  NoErrors' /\ StandInsRun'
  <2>1. ASSUME NEW s \in Reqs
        PROVE  /\ job'[s].errs = FALSE
               /\ s = r => job'[s].step = 1
    <3>1. CASE s = r
      BY <1>1, <1>3, <3>1, CompleteFacts DEF BeginToggle
    <3>2. CASE s # r
      BY <1>1, <1>3, <3>2, CompleteFacts DEF BeginToggle, NoErrors
    <3> QED
      BY <3>1, <3>2
  <2>2. job'[r].step = 1
    BY <2>1
  <2>3. ~AllIdle'
    BY <2>2 DEF AllIdle
  <2> QED
    BY <2>1, <2>3 DEF NoErrors, StandInsRun
<1>4. ASSUME ForgetProcess
      PROVE  NoErrors' /\ StandInsRun'
  <2>1. \A s \in Reqs : job'[s] = Idle
    BY <1>4 DEF ForgetProcess
  <2>2. NoErrors'
    BY <2>1 DEF NoErrors, Idle
  <2>3. ~up'
    BY <1>4 DEF ForgetProcess
  <2> QED
    BY <2>2, <2>3 DEF StandInsRun
<1>5. CASE Start
  <2>1. UNCHANGED <<job, at, kept>> /\ drain' = ~cloudEnabled /\ prune' = ~cloudEnabled
    BY <1>5 DEF Start, files
  <2>2. NoErrors'
    BY <1>1, <2>1 DEF NoErrors
  <2>3. cloudEnabled' = cloudEnabled
    BY <2>1 DEF cloudEnabled
  <2>4. StandInsRun'
    BY <2>1, <2>3 DEF StandInsRun
  <2> QED
    BY <2>2, <2>4
<1>6. CASE AppRestarts \/ UNCHANGED vars
  <2>1. UNCHANGED <<job, at, kept, up, drain, prune>>
    BY <1>6 DEF AppRestarts, vars, files, mem
  <2> QED
    BY <1>1, <2>1 DEF NoErrors, StandInsRun, AllIdle, cloudEnabled
<1> QED
  BY <1>2, <1>3, <1>4, <1>5, <1>6 DEF Next, Tear, Exit, PowerLoss

\* One toggle at a time and no failing step, but power lost at any instant, files torn by
\* it, crashes and a missing simulator: a running server whose cloud is off and that is
\* toggling nothing stands in for the units that do not run.
THEOREM StandInsTakeOver == ASSUME Serial, StepsSucceed PROVE Spec => []StandInsActive
<1>1. StandIns /\ [Next]_vars => StandIns'
  BY StandInsStep
<1>2. StandIns => StandInsActive
  BY DEF StandIns, StandInsRun, StandInsActive
<1> QED
  BY <1>1, <1>2, StandInsInit, PTL DEF Spec
=============================================================================
