-------------------------- MODULE SlotUpdateProofs --------------------------
(* Proofs about SlotUpdate, for every set of builds and of requests, every *)
(* bound, and every environment the hypotheses of a theorem allow.         *)
EXTENDS SlotUpdate, TLAPS

-----------------------------------------------------------------------------
(* Lemmas about the operators of SlotUpdate.                               *)

\* There are two slots.
LEMMA SlotNames ==
  /\ slotA \in Slots
  /\ slotB \in Slots
  /\ slotA # slotB
  /\ \A s \in Slots : s = slotA \/ s = slotB
  /\ "none" \notin Slots /\ "empty" \notin Slots /\ "file" \notin Slots
  /\ "absent" \notin Slots /\ "loop" \notin Slots /\ "gone" \notin Slots
  BY DEF Slots, slotA, slotB

\* The slot of an update is one of the two, and not the active one.
LEMMA OtherSlot == \A s \in Slots : other(s) \in Slots /\ other(s) # s /\ other(other(s)) = s
  BY SlotNames DEF other

\* No request is in progress in a new process.
LEMMA NoJobType == NoJob \in Jobs
  BY ConstantsAssumption, SlotNames DEF NoJob, Jobs, JobPCs

\* Reading through a slot yields a slot's content or nothing.
LEMMA ContentType ==
  ASSUME TypeOK, NEW s \in Slots
  PROVE  /\ Dest(s) \in Slots
         /\ Content(s) \in Builds \cup {None, Torn}
  BY DEF TypeOK, DiskOK, Dest, Content

\* What binPath leads to is a build, a torn file or nothing.
LEMMA AtLinkType ==
  ASSUME TypeOK
  PROVE  /\ AtLink \in Builds \cup {None, Torn}
         /\ AtLink \in Builds => link \in Slots \cup {"file"}
  BY ContentType, ConstantsAssumption DEF AtLink, TypeOK, DiskOK

-----------------------------------------------------------------------------
(* Type correctness.                                                       *)

\* The loop relinks only after it found a marker, whose content its shell variable holds.
TypeInv == TypeOK /\ (boot = "relink" => shSlot # "none")

LEMMA TypeInvInit == Init => TypeInv
<1> SUFFICES ASSUME Init PROVE TypeInv
  OBVIOUS
<1>1. DiskOK
  BY SlotNames, ConstantsAssumption DEF Init, DiskOK
<1>2. ProcOK /\ boot # "relink"
  BY SlotNames, ConstantsAssumption DEF Init, ProcOK
<1>3. CountersOK
  BY SlotNames, ConstantsAssumption DEF Init, CountersOK
<1>4. job \in [Reqs -> Jobs] /\ cli = "idle"
  BY NoJobType DEF Init
<1> QED
  BY <1>1, <1>2, <1>3, <1>4 DEF TypeInv, TypeOK

\* The disk keeps its shape.
LEMMA DiskStep ==
  ASSUME TypeInv, Next
  PROVE  DiskOK'
<1> USE ConstantsAssumption, SlotNames, OtherSlot
<1> USE DEF TypeInv, TypeOK, DiskOK, Jobs
<1>1. CASE UNCHANGED disk
  BY <1>1 DEF disk
<1>2. CASE Confirm
  BY <1>2 DEF Confirm
<1>3. ASSUME NEW r \in Reqs,
             \/ AdoptRename(r) \/ AdoptLink(r) \/ OpenMarker(r)
             \/ FillMarker(r) \/ Switch(r) \/ SetWebAside(r) \/ PutWeb(r)
      PROVE  DiskOK'
  BY <1>3 DEF AdoptRename, AdoptLink, OpenMarker, FillMarker, Switch, SetWebAside, PutWeb
<1>4. ASSUME NEW r \in Reqs, OpenSlot(r)
      PROVE  DiskOK'
  BY <1>4 DEF OpenSlot
<1>5. ASSUME NEW r \in Reqs, FillSlot(r)
      PROVE  DiskOK'
  BY <1>5 DEF FillSlot
<1>6. CASE Relink \/ ClearMarker \/ CliRelink \/ CliClear
  BY <1>6 DEF Relink, ClearMarker, CliRelink, CliClear, BootStep, ProcOK
<1> QED
  <2> HIDE DEF TypeInv, TypeOK, DiskOK, Jobs
  <2> QED
    BY <1>1, <1>2, <1>3, <1>4, <1>5, <1>6
    DEF Next, StartWeb, StartHeadless, BadBuildExits, BeginInstall, Step, Inspect, ExtractWeb,
        Restart, Loop, PowerOn, Spawn, CheckMarker, PowerLoss, ProcessExit, CliRollback, CliRead

\* The loop and the process keep their shape.
LEMMA ProcStep ==
  ASSUME TypeInv, Next
  PROVE  ProcOK' /\ (boot' = "relink" => shSlot' # "none")
<1> USE ConstantsAssumption, SlotNames, AtLinkType, ContentType
<1> USE DEF TypeInv, TypeOK, ProcOK
<1>1. CASE UNCHANGED procv
  BY <1>1 DEF procv
<1>2. CASE StartWeb \/ StartHeadless \/ BadBuildExits \/ Confirm
  BY <1>2 DEF StartWeb, StartHeadless, BadBuildExits, Confirm, Die
<1>3. ASSUME NEW r \in Reqs, AdoptRename(r)
      PROVE  ProcOK' /\ (boot' = "relink" => shSlot' # "none")
  BY <1>3 DEF AdoptRename
<1>4. ASSUME Exec, boot' = boot \/ boot' = "child", Executable
      PROVE  ProcOK' /\ (boot' = "relink" => shSlot' # "none")
  BY <1>4 DEF Exec, Executable
<1>5. ASSUME Die, boot' = "check" \/ boot' = "off"
      PROVE  ProcOK' /\ (boot' = "relink" => shSlot' # "none")
  BY <1>5 DEF Die
<1>6. CASE PowerOn \/ CheckMarker \/ Relink \/ ClearMarker \/ (Spawn /\ ~Executable)
  BY <1>6 DEF PowerOn, CheckMarker, Relink, ClearMarker, Spawn, BootStep, DiskOK
<1> QED
  <2> HIDE DEF TypeInv, TypeOK, ProcOK
  <2> QED
    BY <1>1, <1>2, <1>3, <1>4, <1>5, <1>6
    DEF Next, BeginInstall, Step, InstallStep, Inspect, AdoptLink, OpenSlot, FillSlot, OpenMarker,
        FillMarker, Switch, ExtractWeb, SetWebAside, PutWeb, Restart, Loop, Spawn, PowerLoss,
        ProcessExit, CliRollback, CliRead, CliRelink, CliClear, CliRead, CliRelink, CliClear

\* The counters and the history keep their shape.
LEMMA CountersStep ==
  ASSUME TypeInv, Next
  PROVE  CountersOK'
<1> USE DEF StartWeb, StartHeadless, BadBuildExits, Confirm, BeginInstall, Step, InstallStep,
  Inspect, AdoptRename, AdoptLink, OpenSlot, FillSlot, OpenMarker, FillMarker, Switch, ExtractWeb,
  SetWebAside, PutWeb, Restart, Loop, BootStep, PowerOn, Spawn, CheckMarker, Relink, ClearMarker,
  PowerLoss, ProcessExit, CliRollback, CliRead,
        CliRelink, CliClear, Next
<1>1. installs' \in {installs, installs + 1}
  BY DEF others
<1>2. faults' \in {faults, faults + 1}
  BY DEF Fault, NoFault
<1>3. confirmed' \subseteq confirmed \cup Slots
  OBVIOUS
<1> QED
  BY <1>1, <1>2, <1>3 DEF TypeInv, TypeOK, CountersOK

\* The requests keep their shape.
LEMMA JobStep ==
  ASSUME TypeInv, Next
  PROVE  job' \in [Reqs -> Jobs]
<1>1. CASE UNCHANGED job
  BY <1>1 DEF TypeInv, TypeOK
<1>2. CASE job' = [r \in Reqs |-> NoJob]
  BY <1>2, NoJobType
<1>3. ASSUME NEW r \in Reqs, Fail(r)
      PROVE  job' \in [Reqs -> Jobs]
  BY <1>3, NoJobType DEF Fail, TypeInv, TypeOK
<1>4. ASSUME NEW r \in Reqs, NEW p \in JobPCs, Goto(r, p)
      PROVE  job' \in [Reqs -> Jobs]
  BY <1>4 DEF Goto, TypeInv, TypeOK, Jobs
<1>5. ASSUME NEW r \in Reqs, NEW c \in Slots, job' = [job EXCEPT ![r].pc = "open", ![r].cur = c]
      PROVE  job' \in [Reqs -> Jobs]
  BY <1>5 DEF TypeInv, TypeOK, Jobs, JobPCs
<1>6. ASSUME NEW r \in Reqs, NEW b \in Builds, NEW w \in BOOLEAN, BeginInstall(r, b, w)
      PROVE  job' \in [Reqs -> Jobs]
  BY <1>6, SlotNames DEF BeginInstall, TypeInv, TypeOK, Jobs, JobPCs
<1>7. ASSUME NEW r \in Reqs, Step(r)
      PROVE  job' \in [Reqs -> Jobs]
  <2>1. CASE Inspect(r) \/ AdoptRename(r) \/ AdoptLink(r)
    BY <2>1, <1>3, <1>4, <1>5, SlotNames DEF Inspect, AdoptRename, AdoptLink, JobPCs
  <2>2. CASE OpenSlot(r) \/ FillSlot(r) \/ OpenMarker(r) \/ FillMarker(r)
    BY <2>2, <1>3, <1>4 DEF OpenSlot, FillSlot, OpenMarker, FillMarker, JobPCs
  <2>3. CASE Switch(r)
    BY <2>3, <1>3, <1>4 DEF Switch, JobPCs
  <2>4. CASE ExtractWeb(r) \/ SetWebAside(r) \/ PutWeb(r)
    BY <2>4, <1>3, <1>4 DEF ExtractWeb, SetWebAside, PutWeb, JobPCs
  <2>5. CASE Restart(r)
    BY <2>5, <1>2 DEF Restart, Exec, Die
  <2> QED
    BY <1>7, <2>1, <2>2, <2>3, <2>4, <2>5 DEF Step
<1> QED
  <2> QED
    BY <1>1, <1>2, <1>6, <1>7
    DEF Next, StartWeb, StartHeadless, BadBuildExits, Confirm, Loop, BootStep, PowerOn, Spawn,
        CheckMarker, Relink, ClearMarker, PowerLoss, ProcessExit, CliRollback, CliRead,
        CliRelink, CliClear, Exec, Die, procv

\* The rollback from the command line keeps its shape.
LEMMA CliStep ==
  ASSUME TypeInv, Next
  PROVE  cli' \in Slots \cup {"idle", "clear"}
<1>1. CASE CliRead \/ CliRelink \/ CliClear \/ PowerLoss
  BY <1>1 DEF CliRead, CliRelink, CliClear, PowerLoss
<1>2. ASSUME ~(CliRead \/ CliRelink \/ CliClear \/ PowerLoss)
      PROVE  cli' = cli
  BY <1>2 DEF StartWeb, StartHeadless, BadBuildExits, Confirm, BeginInstall, Step, InstallStep,
    Inspect, AdoptRename, AdoptLink, OpenSlot, FillSlot, OpenMarker, FillMarker, Switch, ExtractWeb,
    SetWebAside, PutWeb, Restart, Loop, BootStep, PowerOn, Spawn, CheckMarker, Relink, ClearMarker,
    ProcessExit, CliRollback, Next, others
<1> QED
  BY <1>1, <1>2 DEF TypeInv, TypeOK

LEMMA TypeInvStep ==
  ASSUME TypeInv, [Next]_vars
  PROVE  TypeInv'
<1>1. CASE Next
  BY <1>1, DiskStep, ProcStep, CountersStep, JobStep, CliStep DEF TypeInv, TypeOK
<1>2. CASE UNCHANGED vars
  BY <1>2 DEF vars, disk, procv, others, TypeInv, TypeOK, DiskOK, ProcOK, CountersOK
<1> QED
  BY <1>1, <1>2

\* The state of the disk, of the loop, of the process and of the requests keeps its
\* shape in every environment, crashes and concurrent updates included.
THEOREM TypeCorrect == Spec => []TypeOK
<1>1. Init => TypeInv
  BY TypeInvInit
<1>2. TypeInv /\ [Next]_vars => TypeInv'
  BY TypeInvStep
<1>3. TypeInv => TypeOK
  BY DEF TypeInv
<1> QED
  BY <1>1, <1>2, <1>3, PTL DEF Spec

-----------------------------------------------------------------------------
(* The running executable is intact, and a good build is always on disk:   *)
(* with updates requested concurrently and at any time, crashes anywhere   *)
(* and every call failing, once the update that adopts the installer's     *)
(* plain file has run alone.                                               *)

\* Only a serving process has requests in progress, the file a request is writing is not
\* the running one, and the running one holds the running build.
Intact ==
  /\ TypeInv
  /\ link \in Slots \cup {"loop"}
  /\ \A s \in Slots : slot[s] \notin Slots
  /\ proc # "off" => image \in Slots /\ slot[image] = running
  /\ proc = "serving" => running \in GoodBuilds
  /\ \A r \in Reqs : /\ job[r].pc # "idle" => proc = "serving"
                     /\ job[r].pc \notin {"adopt", "adoptLink"}
                     /\ job[r].pc = "fill" => other(job[r].cur) # image
  /\ KeepsAGoodBuild

\* Without symlinks among the slots, a slot is read and written directly.
LEMMA DirectSlots ==
  ASSUME TypeOK, \A s \in Slots : slot[s] \notin Slots
  PROVE  /\ \A s \in Slots : Dest(s) = s /\ Content(s) = slot[s]
         /\ link \in Slots => AtLink = slot[link]
  BY SlotNames DEF TypeOK, DiskOK, Dest, Content, AtLink

LEMMA IntactInit == ASSUME ~FreshInstall, Init PROVE Intact
  BY TypeInvInit, SlotNames, ConstantsAssumption
  DEF Intact, Init, KeepsAGoodBuild, NoJob

\* A new process starts with no request, from the slot binPath points at.
LEMMA IntactExec ==
  ASSUME Intact, TypeInv', Executable, Exec, UNCHANGED disk
  PROVE  Intact'
<1>1. link \in Slots /\ image' = link /\ running' = slot[link] /\ proc' = "starting"
  BY DirectSlots, ConstantsAssumption, SlotNames, AtLinkType DEF Intact, TypeInv, Executable, Exec, AtLink
<1> QED
  BY <1>1, SlotNames DEF Intact, Exec, disk, KeepsAGoodBuild, NoJob

LEMMA IntactDie ==
  ASSUME Intact, TypeInv', Die, UNCHANGED disk
  PROVE  Intact'
  BY DEF Intact, Die, disk, KeepsAGoodBuild, NoJob

\* The three ways of moving a request leave the others alone.
LEMMA FailJob ==
  ASSUME TypeOK, NEW r \in Reqs, Fail(r)
  PROVE  job'[r] = NoJob /\ \A q \in Reqs \ {r} : job'[q] = job[q]
  BY DEF TypeOK, Fail
LEMMA GotoJob ==
  ASSUME TypeOK, NEW r \in Reqs, NEW p, Goto(r, p)
  PROVE  job'[r] = [job[r] EXCEPT !.pc = p] /\ \A q \in Reqs \ {r} : job'[q] = job[q]
  BY DEF TypeOK, Goto
LEMMA OpenJob ==
  ASSUME TypeOK, NEW r \in Reqs, NEW c, job' = [job EXCEPT ![r].pc = "open", ![r].cur = c]
  PROVE  /\ job'[r] = [job[r] EXCEPT !.pc = "open", !.cur = c]
         /\ \A q \in Reqs \ {r} : job'[q] = job[q]
  BY DEF TypeOK

\* The steps of install that leave the slots alone end here.
QuietPCs == JobPCs \ {"adopt", "adoptLink", "fill"}
QuietMove(r) == \/ Fail(r)
                \/ \E p \in QuietPCs : Goto(r, p)
                \/ \E c \in Slots : job' = [job EXCEPT ![r].pc = "open", ![r].cur = c]

\* A step of request r that leaves the slots alone.
LEMMA IntactQuiet ==
  ASSUME Intact, TypeInv', NEW r \in Reqs, job[r].pc # "idle",
         UNCHANGED <<slot, procv>>, link' \in Slots \cup {"loop"}, QuietMove(r)
  PROVE  Intact'
<1>0. job'[r].pc \in QuietPCs /\ \A q \in Reqs \ {r} : job'[q] = job[q]
  <2>0. TypeOK /\ job[r] \in Jobs
    BY DEF Intact, TypeInv, TypeOK
  <2>1. CASE Fail(r)
    BY <2>0, <2>1, FailJob DEF NoJob, QuietPCs, JobPCs
  <2>2. ASSUME NEW p \in QuietPCs, Goto(r, p)
        PROVE  job'[r].pc \in QuietPCs /\ \A q \in Reqs \ {r} : job'[q] = job[q]
    <3>1. job'[r] = [job[r] EXCEPT !.pc = p] /\ \A q \in Reqs \ {r} : job'[q] = job[q]
      BY <2>0, <2>2, GotoJob
    <3> QED
      BY <2>0, <3>1 DEF Jobs
  <2>3. ASSUME NEW c \in Slots, job' = [job EXCEPT ![r].pc = "open", ![r].cur = c]
        PROVE  job'[r].pc \in QuietPCs /\ \A q \in Reqs \ {r} : job'[q] = job[q]
    <3>1. /\ job'[r] = [job[r] EXCEPT !.pc = "open", !.cur = c]
          /\ \A q \in Reqs \ {r} : job'[q] = job[q]
      BY <2>0, <2>3, OpenJob
    <3> QED
      BY <2>0, <3>1 DEF Jobs, QuietPCs, JobPCs
  <2> QED
    BY <2>1, <2>2, <2>3 DEF QuietMove
<1>1. ASSUME NEW q \in Reqs
      PROVE  /\ job'[q].pc # "idle" => proc' = "serving"
             /\ job'[q].pc \notin {"adopt", "adoptLink"}
             /\ job'[q].pc = "fill" => other(job'[q].cur) # image'
  <2>1. CASE q = r
    BY <1>0, <2>1 DEF Intact, procv, QuietPCs
  <2>2. CASE q # r
    BY <1>0, <2>2 DEF Intact, procv
  <2> QED
    BY <2>1, <2>2
<1> QED
  BY <1>1, SlotNames DEF Intact, KeepsAGoodBuild, procv

LEMMA IntactStep ==
  ASSUME Intact, [Next]_vars
  PROVE  Intact'
<1>0. TypeInv'
  BY TypeInvStep DEF Intact
<1> USE <1>0, SlotNames, ConstantsAssumption
<1>1. CASE StartWeb \/ StartHeadless \/ Confirm
  BY <1>1 DEF Intact, KeepsAGoodBuild, StartWeb, StartHeadless, Confirm, disk
<1>2. CASE BadBuildExits \/ PowerLoss \/ ProcessExit
  BY <1>2, IntactDie DEF BadBuildExits, PowerLoss, ProcessExit
<1>3. ASSUME NEW r \in Reqs, NEW b \in Builds, NEW w \in BOOLEAN, BeginInstall(r, b, w)
      PROVE  Intact'
  BY <1>3 DEF Intact, KeepsAGoodBuild, BeginInstall, disk, procv, TypeInv, TypeOK
<1>4. ASSUME NEW r \in Reqs, Step(r)
      PROVE  Intact'
  <2>1. CASE Inspect(r)
    BY <2>1, IntactQuiet
    DEF Inspect, InstallStep, QuietMove, QuietPCs, JobPCs, disk, Intact, TypeInv
  <2>2. CASE AdoptRename(r) \/ AdoptLink(r)
    BY <2>2 DEF AdoptRename, AdoptLink, InstallStep, Intact
  <2>3. CASE OpenSlot(r) /\ UNCHANGED slot /\ Fail(r)
    BY <2>3, IntactQuiet DEF OpenSlot, InstallStep, QuietMove, QuietPCs, JobPCs, Intact, TypeInv
  <2>4. ASSUME \/ OpenSlot(r) /\ ~Busy(other(job[r].cur)) /\ Goto(r, "fill")
               \/ FillSlot(r) /\ (Goto(r, "mark") \/ Fail(r)),
               NEW c \in Builds \cup {Torn},
               slot' = [slot EXCEPT ![Dest(other(job[r].cur))] = c]
        PROVE  Intact'
    <3> DEFINE target == other(job[r].cur)
    <3>1. target \in Slots /\ Dest(target) = target
      BY DirectSlots, OtherSlot DEF Intact, TypeInv, TypeOK, Jobs
    <3>2. proc = "serving" /\ UNCHANGED <<procv, link>> /\ image \in Slots /\ slot[image] \in GoodBuilds
      BY <2>4 DEF OpenSlot, FillSlot, InstallStep, Intact
    <3>3. image # target
      BY <2>4, <3>1, <3>2 DEF OpenSlot, FillSlot, InstallStep, Busy, Intact
    <3>4. slot'[image] = slot[image] /\ \A s \in Slots : slot'[s] \notin Slots
      BY <2>4, <3>1, <3>2, <3>3 DEF Intact, TypeInv, TypeOK, DiskOK
    <3>5. /\ job'[r].pc \in {"fill", "mark", "idle"} /\ (job'[r].pc # "idle" => job'[r].cur = job[r].cur)
          /\ \A q \in Reqs \ {r} : job'[q] = job[q]
      BY <2>4 DEF Goto, Fail, NoJob, Intact, TypeInv, TypeOK, Jobs
    <3>6. ASSUME NEW q \in Reqs
          PROVE  /\ job'[q].pc \notin {"adopt", "adoptLink"}
                 /\ job'[q].pc = "fill" => other(job'[q].cur) # image
      <4>1. CASE q = r
        BY <3>3, <3>5, <4>1
      <4>2. CASE q # r
        BY <3>5, <4>2 DEF Intact
      <4> QED
        BY <4>1, <4>2
    <3> QED
      BY <3>2, <3>4, <3>6 DEF Intact, KeepsAGoodBuild, procv
  <2>5. CASE FillSlot(r) /\ UNCHANGED slot /\ Fail(r)
    BY <2>5, IntactQuiet DEF FillSlot, InstallStep, QuietMove, QuietPCs, JobPCs, Intact, TypeInv
  <2>6. CASE OpenMarker(r) \/ FillMarker(r)
    BY <2>6, IntactQuiet DEF OpenMarker, FillMarker, InstallStep, QuietMove, QuietPCs, JobPCs, Intact, TypeInv
  <2>7. CASE Switch(r)
    <3>1. other(job[r].cur) \in Slots
      BY OtherSlot DEF Intact, TypeInv, TypeOK, Jobs
    <3> QED
      BY <2>7, <3>1, IntactQuiet DEF Switch, InstallStep, QuietMove, QuietPCs, JobPCs, Intact, TypeInv
  <2>8. CASE ExtractWeb(r) \/ SetWebAside(r) \/ PutWeb(r)
    BY <2>8, IntactQuiet
    DEF ExtractWeb, SetWebAside, PutWeb, InstallStep, QuietMove, QuietPCs, JobPCs, disk, Intact, TypeInv
  <2>9. CASE Restart(r)
    BY <2>9, IntactExec, IntactDie DEF Restart
  <2>10. OpenSlot(r) => \/ UNCHANGED slot /\ Fail(r)
                        \/ /\ ~Busy(other(job[r].cur)) /\ Goto(r, "fill")
                           /\ slot' = [slot EXCEPT ![Dest(other(job[r].cur))] = Torn]
    BY DEF OpenSlot
  <2>11. FillSlot(r) => \/ UNCHANGED slot /\ Fail(r)
                        \/ /\ (Goto(r, "mark") \/ Fail(r)) /\ job[r].bin \in Builds
                           /\ slot' = [slot EXCEPT ![Dest(other(job[r].cur))] = job[r].bin]
    BY DEF FillSlot, Intact, TypeInv, TypeOK, Jobs
  <2> QED
    BY <1>4, <2>1, <2>2, <2>3, <2>4, <2>5, <2>6, <2>7, <2>8, <2>9, <2>10, <2>11 DEF Step
<1>5. CASE Loop
  <2>1. CASE Spawn /\ Executable
    BY <2>1, IntactExec DEF Spawn
  <2>2. CASE PowerOn \/ CheckMarker \/ ClearMarker \/ (Spawn /\ ~Executable)
    BY <2>2 DEF Intact, KeepsAGoodBuild, PowerOn, CheckMarker, ClearMarker, Spawn, BootStep, disk
  <2>3. CASE Relink
    BY <2>3 DEF Intact, KeepsAGoodBuild, Relink, BootStep, TypeInv, TypeOK, ProcOK
  <2> QED
    BY <1>5, <2>1, <2>2, <2>3 DEF Loop
<1>6. CASE CliRollback
  BY <1>6 DEF Intact, KeepsAGoodBuild, CliRollback, CliRead, CliRelink, CliClear, disk, procv
<1>7. CASE UNCHANGED vars
  BY <1>7 DEF Intact, KeepsAGoodBuild, vars, disk, procv
<1> QED
  BY <1>1, <1>2, <1>3, <1>4, <1>5, <1>6, <1>7 DEF Next

\* Whoever starts from the installer's plain file has the adopting update run alone.
OneAdopts == FreshInstall => Serial \/ FirstAlone

\* Before there is a symlink at binPath: the installer's build is there or, once renamed,
\* in slot A; nothing else was installed or marked, and the process, if any, runs that build.
\* A single update is at work, which has looked at binPath at most, or is adopting it.
Adopting ==
  /\ TypeInv
  /\ link \in {"file", "absent"}
  /\ marker = "none" /\ boot \notin {"relink", "clear"} /\ cli = "idle"
  /\ slot[slotA] = IF link = "absent" THEN InitBuild ELSE None
  /\ slot[slotB] = None
  /\ proc # "off" => running = InitBuild /\ image = IF link = "absent" THEN slotA ELSE "file"
  /\ \A r \in Reqs : job[r].pc # "idle" =>
       /\ proc = "serving"
       /\ job[r].pc \in {"inspect", IF link = "absent" THEN "adoptLink" ELSE "adopt"}
       /\ \A q \in Reqs \ {r} : job[q].pc = "idle"

\* Nobody starts a rollback from the command line without a marker, or where it is excluded.
LEMMA NoCliRollback ==
  ASSUME [Next]_vars, cli = "idle", marker = "none" \/ "cli" \notin Faults
  PROVE  ~CliRollback /\ cli' = "idle"
<1>1. ~CliRollback
  BY SlotNames DEF CliRollback, CliRead, CliRelink, CliClear, Fault, Slots, slotA, slotB
<1>2. cli' = "idle"
  BY <1>1
  DEF StartWeb, StartHeadless, BadBuildExits, Confirm, BeginInstall, Step, InstallStep,
      Inspect, AdoptRename, AdoptLink, OpenSlot, FillSlot, OpenMarker, FillMarker, Switch, ExtractWeb,
      SetWebAside, PutWeb, Restart, Loop, BootStep, PowerOn, Spawn, CheckMarker, Relink, ClearMarker,
      PowerLoss, ProcessExit, Next, vars, others
<1> QED
  BY <1>1, <1>2

LEMMA AdoptingInit == ASSUME FreshInstall, Init PROVE Adopting
  BY TypeInvInit, SlotNames DEF Adopting, Init, NoJob

\* The process ends, or none of its requests is at work any more.
LEMMA AdoptingDie ==
  ASSUME Adopting, TypeInv', Die, UNCHANGED disk, boot' \in {"off", "check"}, cli' = "idle"
  PROVE  Adopting'
  BY DEF Adopting, Die, disk, NoJob

\* Without a symlink, only the installer's file can be executed.
LEMMA AdoptingExec ==
  ASSUME Adopting, TypeInv', Executable, Exec, UNCHANGED disk, cli' = "idle", boot' = "child"
  PROVE  Adopting'
<1>1. link = "file" /\ AtLink = InitBuild
  BY SlotNames, ConstantsAssumption DEF Adopting, Executable, AtLink
<1>2. image' = "file" /\ running' = InitBuild /\ \A r \in Reqs : job'[r].pc = "idle"
  BY <1>1, SlotNames DEF Exec, NoJob
<1> QED
  BY <1>1, <1>2 DEF Adopting, disk

\* A step of install before there is a symlink.  The one that puts it there ends the adoption.
LEMMA AdoptingInstall ==
  ASSUME Adopting, TypeInv', cli' = "idle", NEW r \in Reqs, Step(r)
  PROVE  Adopting' \/ Intact'
<1> USE SlotNames, ConstantsAssumption
<1>1. /\ TypeOK /\ job[r] \in Jobs
      /\ job[r].pc # "idle"
  BY DEF Adopting, TypeInv, TypeOK, Step, InstallStep, Inspect, AdoptRename, AdoptLink, OpenSlot,
         FillSlot, OpenMarker, FillMarker, Switch, ExtractWeb, SetWebAside, PutWeb, Restart
<1>2. /\ proc = "serving" /\ running = InitBuild
      /\ image = IF link = "absent" THEN slotA ELSE "file"
      /\ job[r].pc \in {"inspect", IF link = "absent" THEN "adoptLink" ELSE "adopt"}
      /\ \A q \in Reqs \ {r} : job[q].pc = "idle"
  BY <1>1 DEF Adopting
<1>3. Inspect(r) \/ AdoptRename(r) \/ AdoptLink(r)
  BY <1>2 DEF Step, InstallStep, OpenSlot, FillSlot, OpenMarker, FillMarker, Switch, ExtractWeb,
              SetWebAside, PutWeb, Restart
<1>4. ASSUME Fail(r), UNCHANGED <<link, slot, marker, boot, proc, image, running>>
      PROVE  Adopting'
  <2>1. job'[r].pc = "idle" /\ \A q \in Reqs \ {r} : job'[q].pc = "idle"
    BY <1>1, <1>2, <1>4, FailJob DEF NoJob
  <2> QED
    BY <1>4, <2>1 DEF Adopting
<1>5. CASE Inspect(r)
  <2>1. CASE Fail(r)
    BY <1>4, <1>5, <2>1 DEF Inspect, InstallStep, disk, procv
  <2>2. CASE link = "file" /\ Goto(r, "adopt")
    <3>1. job'[r] = [job[r] EXCEPT !.pc = "adopt"] /\ \A q \in Reqs \ {r} : job'[q] = job[q]
      BY <1>1, <2>2, GotoJob
    <3>2. job'[r].pc = "adopt" /\ \A q \in Reqs \ {r} : job'[q].pc = "idle"
      BY <1>1, <1>2, <3>1 DEF Jobs
    <3> QED
      BY <1>2, <1>5, <2>2, <3>2 DEF Adopting, Inspect, InstallStep, disk, procv
  <2> QED
    BY <1>5, <2>1, <2>2 DEF Inspect, Adopting
<1>6. CASE AdoptRename(r)
  <2>1. link = "file" /\ image = "file"
    BY <1>2, <1>6 DEF AdoptRename, Adopting
  <2>2. /\ link' = "absent" /\ slot' = [slot EXCEPT ![slotA] = InitBuild] /\ image' = slotA
        /\ Goto(r, "adoptLink") /\ UNCHANGED <<marker, boot, proc, running>>
    BY <1>6, <2>1 DEF AdoptRename
  <2>3. slot'[slotA] = InitBuild /\ slot'[slotB] = None
    BY <1>1, <2>2 DEF TypeOK, DiskOK, Adopting
  <2>4. job'[r] = [job[r] EXCEPT !.pc = "adoptLink"] /\ \A q \in Reqs \ {r} : job'[q] = job[q]
    BY <1>1, <2>2, GotoJob
  <2>5. job'[r].pc = "adoptLink" /\ \A q \in Reqs \ {r} : job'[q].pc = "idle"
    BY <1>1, <1>2, <2>4 DEF Jobs
  <2> QED
    BY <1>2, <2>2, <2>3, <2>5 DEF Adopting
<1>7. CASE AdoptLink(r)
  <2>1. job[r].pc = "adoptLink" /\ link = "absent" /\ UNCHANGED <<procv, slot, marker>>
    BY <1>2, <1>7 DEF AdoptLink, InstallStep, Adopting
  <2>2. CASE UNCHANGED link /\ Fail(r)
    BY <1>4, <2>1, <2>2 DEF procv
  <2>3. CASE link' = slotA /\ job' = [job EXCEPT ![r].pc = "open", ![r].cur = slotA]
    <3>0. /\ job'[r] = [job[r] EXCEPT !.pc = "open", !.cur = slotA]
          /\ \A q \in Reqs \ {r} : job'[q] = job[q]
      BY <1>1, <2>3, OpenJob
    <3>1. job'[r].pc = "open" /\ \A q \in Reqs \ {r} : job'[q].pc = "idle"
      BY <1>1, <1>2, <3>0 DEF Jobs
    <3>2. \A s \in Slots : slot[s] \notin Slots
      BY <2>1 DEF Adopting
    <3>3. slot[slotA] = InitBuild /\ image = slotA
      BY <1>2, <2>1 DEF Adopting
    <3>4. \A q \in Reqs : /\ job'[q].pc # "idle" => proc' = "serving"
                          /\ job'[q].pc \notin {"adopt", "adoptLink"}
                          /\ job'[q].pc = "fill" => other(job'[q].cur) # image'
      BY <1>2, <2>1, <3>1 DEF procv
    <3>5. KeepsAGoodBuild'
      BY <2>1, <3>3 DEF KeepsAGoodBuild
    <3> QED
      BY <1>2, <2>1, <2>3, <3>2, <3>3, <3>4, <3>5 DEF Intact, procv
  <2> QED
    BY <1>7, <2>2, <2>3 DEF AdoptLink
<1> QED
  BY <1>3, <1>5, <1>6, <1>7

LEMMA AdoptingStep ==
  ASSUME Serial \/ FirstAlone, Adopting, [Next]_vars
  PROVE  Adopting' \/ Intact'
<1>0. TypeInv' /\ ~CliRollback /\ cli' = "idle"
  BY TypeInvStep, NoCliRollback DEF Adopting
<1> USE <1>0, SlotNames
<1>1. CASE StartWeb \/ StartHeadless \/ Confirm
  <2>1. /\ UNCHANGED <<link, slot, boot, image, running, job>> /\ marker' = "none"
        /\ (proc = "starting" /\ proc' # "off") \/ UNCHANGED proc
    BY <1>1 DEF StartWeb, StartHeadless, Confirm, disk, Adopting
  <2> QED
    BY <2>1 DEF Adopting
<1>2. CASE BadBuildExits \/ PowerLoss \/ ProcessExit
  BY <1>2, AdoptingDie DEF BadBuildExits, PowerLoss, ProcessExit
<1>3. ASSUME NEW r \in Reqs, NEW b \in Builds, NEW w \in BOOLEAN, BeginInstall(r, b, w)
      PROVE  Adopting'
  <2>1. /\ proc = "serving" /\ \A q \in Reqs : job[q].pc = "idle"
        /\ UNCHANGED <<disk, procv>>
        /\ job' = [job EXCEPT ![r] = [pc |-> "inspect", bin |-> b, tree |-> w, cur |-> slotA]]
    BY <1>3 DEF BeginInstall, AllIdle, Adopting
  <2>2. job'[r].pc = "inspect" /\ \A q \in Reqs \ {r} : job'[q].pc = "idle"
    BY <2>1 DEF Adopting, TypeInv, TypeOK
  <2> QED
    BY <2>1, <2>2 DEF Adopting, disk, procv
<1>4. ASSUME NEW r \in Reqs, Step(r)
      PROVE  Adopting' \/ Intact'
  BY <1>4, AdoptingInstall
<1>5. CASE Loop
  <2>1. CASE Spawn /\ Executable
    BY <2>1, AdoptingExec DEF Spawn
  <2>2. CASE PowerOn \/ CheckMarker \/ (Spawn /\ ~Executable)
    BY <2>2 DEF Adopting, PowerOn, CheckMarker, Spawn, BootStep, disk
  <2> QED
    BY <1>5, <2>1, <2>2 DEF Loop, Relink, ClearMarker, BootStep, Adopting
<1>6. CASE UNCHANGED vars
  BY <1>6 DEF Adopting, vars, disk, procv
<1> QED
  BY <1>0, <1>1, <1>2, <1>3, <1>4, <1>5, <1>6 DEF Next

\* The inductive invariant from a plain file as from a symlink.
LEMMA AdoptingOrIntact ==
  ASSUME OneAdopts
  PROVE  /\ Init => (FreshInstall /\ Adopting) \/ Intact
         /\ ((FreshInstall /\ Adopting) \/ Intact) /\ [Next]_vars => (FreshInstall /\ Adopting)' \/ Intact'
  BY IntactInit, AdoptingInit, IntactStep, AdoptingStep DEF OneAdopts

\* An update never writes over the executable that is running, nor unlinks it, on a device
\* that runs from the installer's plain file as on one that was updated before.
THEOREM RunningStaysIntact == ASSUME OneAdopts PROVE Spec => []RunningIntact
<1> DEFINE IInv == (FreshInstall /\ Adopting) \/ Intact
<1>1. Init => IInv
  BY AdoptingOrIntact
<1>2. IInv /\ [Next]_vars => IInv'
  BY AdoptingOrIntact
<1>3. IInv => RunningIntact
  BY SlotNames DEF Intact, Adopting, RunningIntact
<1> QED
  BY <1>1, <1>2, <1>3, PTL DEF Spec

\* At binPath or in one of the two slots is a build that can serve, whatever the updates
\* bring and wherever the adoption of the plain file stops.
THEOREM AGoodBuildIsKept == ASSUME OneAdopts PROVE Spec => []KeepsAGoodBuild
<1> DEFINE IInv == (FreshInstall /\ Adopting) \/ Intact
<1>1. Init => IInv
  BY AdoptingOrIntact
<1>2. IInv /\ [Next]_vars => IInv'
  BY AdoptingOrIntact
<1>3. IInv => KeepsAGoodBuild
  BY SlotNames, ConstantsAssumption DEF Intact, Adopting, KeepsAGoodBuild
<1> QED
  BY <1>1, <1>2, <1>3, PTL DEF Spec

-----------------------------------------------------------------------------
(* The way back: with one update at a time, requested after the timer has  *)
(* fired, the device can always return to a build that serves.             *)

\* The environment of these theorems.  Power may be lost at any step, and the server may end
\* at any step at which the marker is not cut short; the slot, the marker, the switch, the web
\* tree, the function API and the web server may fail.
CarefulUse ==
  /\ Serial
  /\ Patient
  /\ Faults \cap {"exitCut", "unlink", "cli"} = {}

Working(r) == job[r].pc # "idle"
Staging    == {"fill", "mark", "markFill", "switch"}
Switched   == {"web", "webSwap", "webPut", "restart"}

\* What a request knows at each step: before the switch it works beside the active slot,
\* which is the running one, and afterwards the marker names the running slot.
JobInv(r) ==
  /\ job[r].pc \in {"open"} \cup Staging => job[r].cur = link
  /\ job[r].pc \in Staging \cup Switched => job[r].cur = image
  /\ job[r].pc \in Staging => other(job[r].cur) \notin confirmed
  /\ job[r].pc \in {"mark", "markFill", "switch"} => slot[other(job[r].cur)] = job[r].bin
  /\ job[r].pc = "markFill" => marker = "empty"
  /\ job[r].pc = "switch" => marker = job[r].cur
  /\ job[r].pc \in Switched => /\ link = other(job[r].cur)
                               /\ marker = job[r].cur
                               /\ slot[link] = job[r].bin
  /\ job[r].pc = "restart" /\ job[r].tree => webTree = job[r].bin

\* At most one request is in progress, and only once the timer has fired.
Solo == /\ \A q, r \in Reqs : Working(q) /\ Working(r) => q = r
        /\ \A r \in Reqs : Working(r) => ~timer

\* A process whose timer has not fired, or that does not serve, is the one binPath
\* leads to; once it has fired, a marker means that binPath was switched since.
ProcInv ==
  /\ proc # "off" <=> boot = "child"
  /\ proc = "webless" => running \in GoodBuilds
  /\ timer => proc \in {"serving", "webless"}
  /\ proc # "off" /\ (timer \/ proc # "serving") => link = image
  /\ proc = "serving" /\ ~timer /\ link # image => marker = image
  /\ proc = "serving" /\ ~timer /\ link = image =>
       marker \in {"none", "empty"} \/ \E r \in Reqs : job[r].pc = "switch"

\* The loop never gets to look at a marker that is cut short, and acts on what the marker
\* still says; a slot that can be rolled back has not been confirmed.
MarkerInv ==
  /\ marker = "empty" => boot \notin {"check", "relink", "clear"}
  /\ boot = "relink" => marker \in Slots /\ shSlot = marker
  /\ boot = "clear" => marker = link
  /\ marker \in Slots /\ marker # link => link \notin confirmed

Careful ==
  /\ Intact
  /\ link \in Slots
  /\ \A r \in Reqs : JobInv(r)
  /\ Solo
  /\ ProcInv
  /\ MarkerInv
  /\ WayBack
  /\ cli = "idle"

LEMMA CarefulInit == ASSUME ~FreshInstall, Init PROVE Careful
<1>1. Intact
  BY IntactInit
<1>2. \A r \in Reqs : job[r].pc = "idle"
  BY DEF Init, NoJob
<1>3. link = slotA /\ AtLink = InitBuild
  BY <1>1, DirectSlots, SlotNames, ConstantsAssumption DEF Init, Intact, TypeInv
<1>4. WayBack
  BY <1>3, SlotNames, ConstantsAssumption DEF Init, WayBack, RollsBackTo
<1> QED
  BY <1>1, <1>2, <1>3, <1>4, SlotNames
  DEF Careful, JobInv, Solo, ProcInv, MarkerInv, Working, Staging, Switched, Init

\* Where a device goes back to, in terms of the slots.
LEMMA WayBackSlots ==
  ASSUME Intact
  PROVE  /\ marker \in Slots => (WayBack <=> slot[marker] \in GoodBuilds)
         /\ marker \notin Slots /\ link \in Slots => (WayBack <=> slot[link] \in GoodBuilds)
  BY DirectSlots, SlotNames DEF Intact, TypeInv, TypeOK, DiskOK, WayBack, RollsBackTo

\* The same after a step.
LEMMA WayBackNext ==
  ASSUME Intact'
  PROVE  /\ marker' \in Slots => (WayBack' <=> slot'[marker'] \in GoodBuilds)
         /\ marker' \notin Slots /\ link' \in Slots => (WayBack' <=> slot'[link'] \in GoodBuilds)
  BY SlotNames DEF Intact, TypeInv, TypeOK, DiskOK, WayBack, RollsBackTo, Dest, Content, AtLink

\* What holds whenever a request is in progress.
LEMMA AtWork ==
  ASSUME Careful, NEW r \in Reqs, Working(r)
  PROVE  /\ job[r] \in Jobs
         /\ proc = "serving" /\ boot = "child" /\ ~timer
         /\ image \in Slots /\ slot[image] \in GoodBuilds
         /\ \A q \in Reqs \ {r} : job[q].pc = "idle"
  BY DEF Careful, Intact, TypeInv, TypeOK, Working, Solo, ProcInv

\* A step of one request is judged by that request alone.
LEMMA CarefulOne ==
  ASSUME Careful, Intact', NEW r \in Reqs, Working(r),
         \A q \in Reqs \ {r} : job'[q] = job[q],
         UNCHANGED <<procv, cli>>, link' \in Slots, JobInv(r)', ProcInv', MarkerInv', WayBack'
  PROVE  Careful'
<1>1. \A q \in Reqs \ {r} : job[q].pc = "idle"
  BY AtWork
<1>2. \A q \in Reqs : JobInv(q)'
  BY <1>1 DEF JobInv, Staging, Switched
<1>3. Solo'
  BY <1>1, AtWork DEF Solo, Working, procv
<1> QED
  BY <1>2, <1>3 DEF Careful

\* A request that returns an error leaves the requests out of account.
LEMMA CarefulFail ==
  ASSUME Careful, Intact', NEW r \in Reqs, Working(r), Fail(r),
         UNCHANGED <<procv, cli>>, link' \in Slots, ProcInv', MarkerInv', WayBack'
  PROVE  Careful'
<1>1. job'[r] = NoJob /\ \A q \in Reqs \ {r} : job'[q] = job[q]
  BY FailJob DEF Careful, Intact, TypeInv
<1>2. JobInv(r)'
  BY <1>1 DEF JobInv, NoJob, Staging, Switched
<1> QED
  BY <1>1, <1>2, CarefulOne

\* One step of install.
LEMMA CarefulInstall ==
  ASSUME CarefulUse, Careful, Intact', NEW r \in Reqs, Working(r),
         Step(r), ~Restart(r)
  PROVE  Careful'
<1> DEFINE target == other(job[r].cur)
<1>0. /\ job[r] \in Jobs
      /\ proc = "serving" /\ boot = "child" /\ ~timer
      /\ image \in Slots /\ slot[image] \in GoodBuilds
      /\ \A q \in Reqs \ {r} : job[q].pc = "idle"
  BY AtWork
<1>1. /\ TypeOK /\ JobInv(r) /\ ProcInv /\ MarkerInv /\ WayBack
      /\ link \in Slots
      /\ \A s \in Slots : slot[s] \notin Slots /\ Dest(s) = s
  BY DirectSlots DEF Careful, Intact, TypeInv
<1>2. target \in Slots /\ target # job[r].cur /\ other(target) = job[r].cur
  BY <1>0, OtherSlot DEF Jobs
<1>3. UNCHANGED procv /\ cli' = cli /\ job[r].pc \notin {"adopt", "adoptLink"}
  BY DEF others, Careful, Intact, Step, InstallStep, Inspect, AdoptRename, AdoptLink, OpenSlot, FillSlot,
         OpenMarker, FillMarker, Switch, ExtractWeb, SetWebAside, PutWeb
<1>4. ASSUME NEW p \in JobPCs, Goto(r, p)
      PROVE  /\ job'[r] = [job[r] EXCEPT !.pc = p]
             /\ \A q \in Reqs \ {r} : job'[q] = job[q]
             /\ job'[r].pc = p /\ job'[r].cur = job[r].cur
             /\ job'[r].bin = job[r].bin /\ job'[r].tree = job[r].tree
  <2>1. /\ job'[r] = [job[r] EXCEPT !.pc = p]
        /\ \A q \in Reqs \ {r} : job'[q] = job[q]
    BY <1>1, <1>4, GotoJob
  <2> QED
    BY <1>0, <2>1 DEF Jobs
<1>5. job[r].pc # "switch" /\ link = image => marker \in {"none", "empty"}
  BY <1>0, <1>1 DEF ProcInv
<1> USE SlotNames, WayBackSlots, WayBackNext
<1>6. CASE Fail(r) /\ UNCHANGED <<link, slot, marker, confirmed>> /\ job[r].pc # "switch"
  <2>1. job'[r].pc = "idle" /\ \A q \in Reqs \ {r} : job'[q] = job[q]
    BY <1>1, <1>6, FailJob DEF NoJob
  <2>2. ProcInv' /\ MarkerInv'
    BY <1>0, <1>1, <1>3, <1>5, <1>6, <2>1 DEF ProcInv, MarkerInv, procv
  <2>3. WayBack'
    BY <1>1, <1>6 DEF Careful
  <2> QED
    BY <1>1, <1>3, <1>6, <2>2, <2>3, CarefulFail
<1>7. CASE Inspect(r)
  <2>1. job' = [job EXCEPT ![r].pc = "open", ![r].cur = link] /\ UNCHANGED <<disk, confirmed>>
    BY <1>1, <1>7 DEF Inspect
  <2>2. /\ job'[r] = [job[r] EXCEPT !.pc = "open", !.cur = link]
        /\ \A q \in Reqs \ {r} : job'[q] = job[q]
    BY <1>1, <2>1, OpenJob
  <2>3. job'[r].pc = "open" /\ job'[r].cur = link
    BY <1>0, <2>2 DEF Jobs
  <2>4. JobInv(r)' /\ job[r].pc = "inspect"
    BY <1>7, <2>1, <2>3 DEF JobInv, Staging, Switched, disk, Inspect, InstallStep
  <2>5. ProcInv' /\ MarkerInv'
    BY <1>0, <1>1, <1>3, <1>5, <2>1, <2>2, <2>4 DEF ProcInv, MarkerInv, disk, procv
  <2>6. WayBack' /\ link' \in Slots
    BY <1>1, <2>1 DEF Careful, disk
  <2> QED
    BY <1>3, <2>2, <2>4, <2>5, <2>6, CarefulOne
<1>8. CASE OpenSlot(r) /\ ~Fail(r)
  <2>1. /\ ~Busy(target)
        /\ slot' = [slot EXCEPT ![target] = Torn]
        /\ confirmed' = confirmed \ {target}
        /\ Goto(r, "fill") /\ job[r].pc = "open" /\ UNCHANGED <<link, marker, webTree>>
    BY <1>1, <1>2, <1>8 DEF OpenSlot, InstallStep
  <2>2. image # target /\ link = image /\ job[r].cur = image /\ marker \in {"none", "empty"}
    BY <1>0, <1>1, <1>2, <1>5, <2>1 DEF Busy, JobInv, Staging
  <2>3. slot'[image] = slot[image]
    BY <1>0, <1>1, <1>2, <2>1, <2>2 DEF TypeOK, DiskOK
  <2>4. job'[r].pc = "fill" /\ job'[r].cur = job[r].cur /\ \A q \in Reqs \ {r} : job'[q] = job[q]
    BY <1>4, <2>1 DEF JobPCs
  <2>5. JobInv(r)'
    BY <1>3, <2>1, <2>2, <2>4 DEF JobInv, Staging, Switched, procv
  <2>6. ProcInv' /\ MarkerInv'
    BY <1>0, <1>1, <1>3, <2>1, <2>2, <2>4 DEF ProcInv, MarkerInv, procv
  <2>7. WayBack'
    BY <1>0, <2>1, <2>2, <2>3
  <2> QED
    BY <1>1, <1>3, <2>1, <2>4, <2>5, <2>6, <2>7, CarefulOne
<1>9. CASE FillSlot(r) /\ ~Fail(r)
  <2>1. /\ slot' = [slot EXCEPT ![target] = job[r].bin]
        /\ Goto(r, "mark") /\ job[r].pc = "fill" /\ UNCHANGED <<link, marker, webTree, confirmed>>
    BY <1>1, <1>2, <1>9 DEF FillSlot, InstallStep
  <2>2. /\ link = image /\ job[r].cur = image /\ marker \in {"none", "empty"} /\ target \notin confirmed
        /\ image # target
    BY <1>1, <1>2, <1>5, <2>1 DEF JobInv, Staging
  <2>3. slot'[image] = slot[image] /\ slot'[target] = job[r].bin
    BY <1>0, <1>1, <1>2, <2>1, <2>2 DEF TypeOK, DiskOK
  <2>4. /\ job'[r].pc = "mark" /\ job'[r].cur = job[r].cur /\ job'[r].bin = job[r].bin
        /\ \A q \in Reqs \ {r} : job'[q] = job[q]
    BY <1>4, <2>1 DEF JobPCs
  <2>5. JobInv(r)'
    BY <1>3, <2>1, <2>2, <2>3, <2>4 DEF JobInv, Staging, Switched, procv
  <2>6. ProcInv' /\ MarkerInv'
    BY <1>0, <1>1, <1>3, <2>1, <2>2, <2>4 DEF ProcInv, MarkerInv, procv
  <2>7. WayBack'
    BY <1>0, <2>1, <2>2, <2>3
  <2> QED
    BY <1>1, <1>3, <2>1, <2>4, <2>5, <2>6, <2>7, CarefulOne
<1>10. CASE OpenMarker(r) /\ ~Fail(r)
  <2>1. /\ marker' = "empty"
        /\ Goto(r, "markFill") /\ job[r].pc = "mark" /\ UNCHANGED <<link, slot, webTree, confirmed>>
    BY <1>10 DEF OpenMarker, InstallStep
  <2>2. link = image /\ job[r].cur = image /\ target \notin confirmed /\ slot[target] = job[r].bin
    BY <1>1, <2>1 DEF JobInv, Staging
  <2>3. /\ job'[r].pc = "markFill" /\ job'[r].cur = job[r].cur /\ job'[r].bin = job[r].bin
        /\ \A q \in Reqs \ {r} : job'[q] = job[q]
    BY <1>4, <2>1 DEF JobPCs
  <2>4. JobInv(r)'
    BY <1>3, <2>1, <2>2, <2>3 DEF JobInv, Staging, Switched, procv
  <2>5. ProcInv' /\ MarkerInv'
    BY <1>0, <1>1, <1>3, <2>1, <2>2, <2>3 DEF ProcInv, MarkerInv, procv
  <2>6. WayBack'
    BY <1>0, <2>1, <2>2
  <2> QED
    BY <1>1, <1>3, <2>1, <2>3, <2>4, <2>5, <2>6, CarefulOne
<1>11. CASE FillMarker(r) /\ ~Fail(r)
  <2>1. /\ marker' = job[r].cur
        /\ Goto(r, "switch") /\ job[r].pc = "markFill" /\ UNCHANGED <<link, slot, webTree, confirmed>>
    BY <1>11 DEF FillMarker, InstallStep
  <2>2. link = image /\ job[r].cur = image /\ target \notin confirmed /\ slot[target] = job[r].bin
    BY <1>1, <2>1 DEF JobInv, Staging
  <2>3. /\ job'[r].pc = "switch" /\ job'[r].cur = job[r].cur /\ job'[r].bin = job[r].bin
        /\ \A q \in Reqs \ {r} : job'[q] = job[q]
    BY <1>4, <2>1 DEF JobPCs
  <2>4. JobInv(r)'
    BY <1>3, <2>1, <2>2, <2>3 DEF JobInv, Staging, Switched, procv
  <2>5. ProcInv' /\ MarkerInv'
    BY <1>0, <1>1, <1>3, <2>1, <2>2, <2>3 DEF ProcInv, MarkerInv, procv
  <2>6. WayBack'
    BY <1>0, <2>1, <2>2
  <2> QED
    BY <1>1, <1>3, <2>1, <2>3, <2>4, <2>5, <2>6, CarefulOne
<1>12. CASE Switch(r)
  <2>1. /\ job[r].pc = "switch" /\ UNCHANGED <<slot, webTree, confirmed>>
        /\ link = image /\ job[r].cur = image /\ target \notin confirmed /\ slot[target] = job[r].bin
        /\ marker = job[r].cur
    BY <1>1, <1>12 DEF JobInv, Staging, Switch, InstallStep
  <2>2. CASE UNCHANGED link /\ marker' = "none" /\ Fail(r)
    <3>1. job'[r].pc = "idle" /\ \A q \in Reqs \ {r} : job'[q] = job[q]
      BY <1>1, <2>2, FailJob DEF NoJob
    <3>2. ProcInv' /\ MarkerInv'
      BY <1>0, <1>1, <1>3, <2>1, <2>2, <3>1 DEF ProcInv, MarkerInv, procv
    <3>3. WayBack'
      BY <1>0, <1>1, <2>1, <2>2
    <3> QED
      BY <1>1, <1>3, <2>2, <3>2, <3>3, CarefulFail
  <2>3. ASSUME NEW p \in {"web", "restart"}, p = "web" <=> job[r].tree,
               Goto(r, p), link' = target, UNCHANGED marker
        PROVE  Careful'
    <3>1. /\ job'[r].pc = p /\ job'[r].cur = job[r].cur /\ job'[r].bin = job[r].bin
          /\ job'[r].tree = job[r].tree /\ \A q \in Reqs \ {r} : job'[q] = job[q]
      BY <1>4, <2>3 DEF JobPCs
    <3>2. JobInv(r)'
      BY <1>3, <2>1, <2>3, <3>1 DEF JobInv, Staging, Switched, procv
    <3>3. ProcInv' /\ MarkerInv'
      BY <1>0, <1>1, <1>2, <1>3, <2>1, <2>3, <3>1 DEF ProcInv, MarkerInv, procv
    <3>4. WayBack'
      BY <1>0, <2>1, <2>3
    <3> QED
      BY <1>2, <1>3, <2>3, <3>1, <3>2, <3>3, <3>4, CarefulOne
  <2>4. job[r].tree \in BOOLEAN
    BY <1>0 DEF Jobs
  <2> QED
    BY <1>12, <2>2, <2>3, <2>4 DEF Switch
<1>13. ASSUME NEW p \in Switched, Goto(r, p), job[r].pc \in Switched,
              UNCHANGED <<link, slot, marker, confirmed>>,
              p = "restart" /\ job[r].tree => webTree' = job[r].bin
       PROVE  Careful'
  <2>1. /\ job[r].cur = image /\ link = target /\ marker = job[r].cur /\ slot[link] = job[r].bin
    BY <1>1, <1>13 DEF JobInv
  <2>2. /\ job'[r].pc = p /\ job'[r].cur = job[r].cur /\ job'[r].bin = job[r].bin
        /\ job'[r].tree = job[r].tree /\ \A q \in Reqs \ {r} : job'[q] = job[q]
    BY <1>4, <1>13 DEF JobPCs, Switched
  <2>3. JobInv(r)'
    BY <1>3, <1>13, <2>1, <2>2 DEF JobInv, Staging, Switched, procv
  <2>4. ProcInv' /\ MarkerInv'
    BY <1>0, <1>1, <1>2, <1>3, <1>13, <2>1, <2>2 DEF ProcInv, MarkerInv, procv
  <2>5. WayBack'
    BY <1>0, <1>13, <2>1
  <2> QED
    BY <1>1, <1>3, <1>13, <2>2, <2>3, <2>4, <2>5, CarefulOne
<1>14. CASE ExtractWeb(r) \/ SetWebAside(r) \/ PutWeb(r)
  <2>1. /\ job[r].pc \in Switched /\ UNCHANGED <<link, slot, marker, confirmed>>
        /\ \/ Fail(r)
           \/ Goto(r, "webSwap") \/ Goto(r, "webPut")
           \/ Goto(r, "restart") /\ webTree' = job[r].bin
    BY <1>14 DEF ExtractWeb, SetWebAside, PutWeb, InstallStep, Switched, disk
  <2> QED
    BY <1>6, <1>13, <2>1 DEF Switched
<1>15. ASSUME Fail(r), OpenSlot(r) \/ OpenMarker(r) \/ FillMarker(r)
       PROVE  UNCHANGED <<link, slot, marker, confirmed>> /\ job[r].pc # "switch"
  <2>1. \A p \in {"fill", "markFill", "switch"} : ~Goto(r, p)
    <3>1. \A p \in JobPCs : Goto(r, p) => job'[r].pc = p
      BY <1>4
    <3>2. job'[r].pc = "idle"
      BY <1>1, <1>15, FailJob DEF NoJob
    <3> QED
      BY <3>1, <3>2 DEF JobPCs
  <2> QED
    BY <1>15, <2>1 DEF OpenSlot, OpenMarker, FillMarker, InstallStep
<1>16. CASE FillSlot(r) /\ Fail(r)
  <2>1. /\ job[r].pc = "fill" /\ UNCHANGED <<link, marker, confirmed>>
        /\ slot' \in {slot, [slot EXCEPT ![target] = job[r].bin]}
    BY <1>1, <1>2, <1>16 DEF FillSlot, InstallStep
  <2>2. link = image /\ marker \in {"none", "empty"} /\ image # target
    BY <1>1, <1>2, <1>5, <2>1 DEF JobInv, Staging
  <2>3. slot'[image] = slot[image]
    BY <1>0, <1>1, <1>2, <2>1, <2>2 DEF TypeOK, DiskOK
  <2>4. job'[r].pc = "idle" /\ \A q \in Reqs \ {r} : job'[q] = job[q]
    BY <1>1, <1>16, FailJob DEF NoJob
  <2>5. ProcInv' /\ MarkerInv'
    BY <1>0, <1>1, <1>3, <2>1, <2>2, <2>4 DEF ProcInv, MarkerInv, procv
  <2>6. WayBack'
    BY <1>0, <2>1, <2>2, <2>3
  <2> QED
    BY <1>1, <1>3, <1>16, <2>1, <2>5, <2>6, CarefulFail
<1> QED
  BY <1>3, <1>6, <1>7, <1>8, <1>9, <1>10, <1>11, <1>12, <1>14, <1>15, <1>16
  DEF Step, AdoptRename, AdoptLink, InstallStep

\* A new process leaves the requests behind; a marker that is cut short waits for its Confirm.
LEMMA CarefulExec ==
  ASSUME Careful, Intact', Executable, Exec, UNCHANGED <<disk, confirmed>>, cli' = "idle", boot' = "child"
  PROVE  Careful'
<1>1. /\ image' = link /\ proc' = "starting" /\ ~timer' /\ \A r \in Reqs : job'[r].pc = "idle"
  BY DirectSlots DEF Careful, Intact, TypeInv, Exec, NoJob
<1>2. (\A r \in Reqs : JobInv(r)') /\ Solo'
  BY <1>1 DEF JobInv, Solo, Working, Staging, Switched
<1>3. ProcInv' /\ MarkerInv'
  BY <1>1 DEF ProcInv, MarkerInv, Careful, disk
<1> QED
  BY <1>2, <1>3, WayBackSlots, WayBackNext DEF Careful, disk

\* The same when the process ends.
LEMMA CarefulDie ==
  ASSUME Careful, Intact', Die, UNCHANGED <<disk, confirmed>>, cli' = "idle",
         boot' \in {"off", "check"}, marker = "empty" => boot' = "off"
  PROVE  Careful'
<1>1. proc' = "off" /\ ~timer' /\ \A r \in Reqs : job'[r].pc = "idle"
  BY DEF Die, NoJob
<1>2. (\A r \in Reqs : JobInv(r)') /\ Solo'
  BY <1>1 DEF JobInv, Solo, Working, Staging, Switched
<1>3. ProcInv' /\ MarkerInv'
  BY <1>1 DEF ProcInv, MarkerInv, Careful, disk
<1> QED
  BY <1>2, <1>3, WayBackSlots, WayBackNext DEF Careful, disk

\* While the marker is cut short, the process that runs, or is started next, is a good one.
LEMMA CutMarkerIsSafe ==
  ASSUME Careful, marker = "empty"
  PROVE  /\ proc # "off" => running \in GoodBuilds
         /\ proc = "off" => Executable
         /\ \A r \in Reqs : job[r].pc # "restart"
<1> USE SlotNames, ConstantsAssumption
<1>1. slot[link] \in GoodBuilds
  BY WayBackSlots DEF Careful
<1>2. proc # "off" => running \in GoodBuilds
  BY <1>1 DEF Careful, Intact, ProcInv
<1>3. \A r \in Reqs : job[r].pc # "restart"
  BY DEF Careful, JobInv, Switched, Intact, TypeInv, TypeOK, Jobs
<1>4. proc = "off" => Executable
  BY <1>1, DirectSlots DEF Careful, Intact, TypeInv, Executable, Writing
<1> QED
  BY <1>2, <1>3, <1>4

LEMMA CarefulStep ==
  ASSUME CarefulUse, Careful, [Next]_vars
  PROVE  Careful'
<1>0. Intact' /\ TypeOK /\ ~CliRollback /\ cli' = "idle"
  BY IntactStep, NoCliRollback DEF CarefulUse, Careful, Intact, TypeInv
<1> USE <1>0, SlotNames, WayBackSlots, WayBackNext
<1>1. CASE StartWeb \/ StartHeadless
  <2>1. /\ UNCHANGED <<disk, boot, shSlot, image, running, job, confirmed>>
        /\ proc = "starting" /\ proc' # "starting" /\ proc' # "off"
        /\ timer' => proc' \in {"serving", "webless"}
        /\ proc' \in {"serving", "webless"} => timer' /\ running \in GoodBuilds
    BY <1>1 DEF StartWeb, StartHeadless, Careful, ProcInv
  <2>2. \A r \in Reqs : job[r].pc = "idle"
    BY <2>1 DEF Careful, Intact
  <2>3. (\A r \in Reqs : JobInv(r)') /\ Solo'
    BY <2>1, <2>2 DEF JobInv, Solo, Working, Staging, Switched
  <2>4. ProcInv' /\ MarkerInv'
    BY <2>1, <2>2 DEF Careful, ProcInv, MarkerInv, disk
  <2> QED
    BY <2>1, <2>3, <2>4 DEF Careful, disk
<1>2. CASE BadBuildExits
  BY <1>2, CarefulDie, CutMarkerIsSafe DEF BadBuildExits
<1>3. CASE Confirm
  <2>1. /\ timer /\ ~timer' /\ marker' = "none" /\ confirmed' = confirmed \cup ({image} \cap Slots)
        /\ UNCHANGED <<link, slot, webTree, boot, shSlot, proc, image, running, job>>
    BY <1>3 DEF Confirm, Fault, CarefulUse
  <2>2. proc \in {"serving", "webless"} /\ link = image /\ running \in GoodBuilds
    BY <2>1 DEF Careful, Intact, ProcInv
  <2>3. \A r \in Reqs : job[r].pc = "idle"
    BY <2>1 DEF Careful, Solo, Working
  <2>4. (\A r \in Reqs : JobInv(r)') /\ Solo'
    BY <2>1, <2>3 DEF JobInv, Solo, Working, Staging, Switched
  <2>5. ProcInv' /\ MarkerInv'
    BY <2>1, <2>2, <2>3 DEF Careful, ProcInv, MarkerInv
  <2>6. WayBack'
    BY <2>1, <2>2 DEF Careful, Intact
  <2> QED
    BY <2>1, <2>4, <2>5, <2>6 DEF Careful
<1>4. ASSUME NEW r \in Reqs, NEW b \in Builds, NEW w \in BOOLEAN, BeginInstall(r, b, w)
      PROVE  Careful'
  <2>1. /\ proc = "serving" /\ ~timer /\ \A q \in Reqs : job[q].pc = "idle"
        /\ UNCHANGED <<disk, procv, confirmed>>
        /\ job' = [job EXCEPT ![r] = [pc |-> "inspect", bin |-> b, tree |-> w, cur |-> slotA]]
    BY <1>4 DEF BeginInstall, CarefulUse, AllIdle
  <2>2. job'[r].pc = "inspect" /\ \A q \in Reqs \ {r} : job'[q].pc = "idle"
    BY <2>1 DEF TypeOK
  <2>3. (\A q \in Reqs : JobInv(q)') /\ Solo'
    BY <2>1, <2>2 DEF JobInv, Solo, Working, Staging, Switched, procv
  <2>4. ProcInv' /\ MarkerInv'
    BY <2>1, <2>2 DEF Careful, ProcInv, MarkerInv, disk, procv
  <2> QED
    BY <2>1, <2>3, <2>4 DEF Careful, disk
<1>5. ASSUME NEW r \in Reqs, Step(r)
      PROVE  Careful'
  <2>1. Working(r)
    BY <1>5 DEF Working, Step, InstallStep, Inspect, AdoptRename, AdoptLink, OpenSlot, FillSlot,
                OpenMarker, FillMarker, Switch, ExtractWeb, SetWebAside, PutWeb, Restart
  <2>2. CASE Restart(r)
    <3>1. boot = "child" /\ marker # "empty"
      BY <2>1, <2>2, AtWork, CutMarkerIsSafe DEF Restart
    <3> QED
      BY <2>2, <3>1, CarefulExec, CarefulDie DEF Restart
  <2> QED
    BY <1>5, <2>1, <2>2, CarefulInstall
<1>6. CASE Loop
  <2>1. /\ proc = "off" /\ boot # "child" /\ ~timer /\ \A r \in Reqs : job[r].pc = "idle"
    BY <1>6 DEF Careful, Intact, ProcInv, Loop, PowerOn, Spawn, CheckMarker, Relink, ClearMarker, BootStep
  <2>2. marker = "empty" => boot \notin {"check", "relink", "clear"} /\ Executable
    BY <2>1, CutMarkerIsSafe DEF Careful, MarkerInv
  <2>3. CASE Spawn /\ Executable
    BY <2>3, CarefulExec DEF Spawn
  <2>4. CASE ~(Spawn /\ Executable)
    <3>1. UNCHANGED <<slot, webTree, proc, timer, running, job, confirmed>> /\ boot' # "child"
      BY <1>6, <2>4 DEF Loop, PowerOn, Spawn, CheckMarker, Relink, ClearMarker, BootStep, disk
    <3>2. (\A r \in Reqs : JobInv(r)') /\ Solo'
      BY <2>1, <3>1 DEF JobInv, Solo, Working, Staging, Switched
    <3>3. ProcInv'
      BY <2>1, <3>1 DEF Careful, ProcInv
    <3>4. MarkerInv' /\ WayBack' /\ link' \in Slots
      <4>1. CASE PowerOn \/ (Spawn /\ ~Executable)
        BY <2>2, <4>1 DEF PowerOn, Spawn, BootStep, Careful, MarkerInv, disk
      <4>2. CASE CheckMarker
        BY <2>2, <4>2 DEF CheckMarker, BootStep, Careful, MarkerInv, disk, TypeOK, DiskOK
      <4>3. CASE Relink
        BY <2>2, <4>3 DEF Relink, BootStep, Careful, MarkerInv
      <4>4. CASE ClearMarker
        BY <2>2, <4>4 DEF ClearMarker, BootStep, Careful, MarkerInv
      <4> QED
        BY <1>6, <2>4, <4>1, <4>2, <4>3, <4>4 DEF Loop
    <3> QED
      BY <3>2, <3>3, <3>4 DEF Careful
  <2> QED
    BY <2>3, <2>4
<1>7. CASE PowerLoss \/ ProcessExit
  BY <1>7, CarefulDie DEF PowerLoss, ProcessExit, CarefulUse
<1>8. CASE UNCHANGED vars
  <2>1. UNCHANGED <<disk, boot, shSlot, proc, image, running, timer, job, confirmed>>
    BY <1>8 DEF vars, procv
  <2>2. (\A r \in Reqs : JobInv(r)') /\ Solo' /\ ProcInv' /\ MarkerInv'
    BY <2>1 DEF Careful, JobInv, Solo, Working, ProcInv, MarkerInv, disk
  <2> QED
    BY <2>1, <2>2 DEF Careful, disk
<1> QED
  BY <1>0, <1>1, <1>2, <1>3, <1>4, <1>5, <1>6, <1>7, <1>8 DEF Next

\* Before there is a symlink, the first update waits for the timer like any other, and a
\* binPath that is absent is the work of a serving process.
AdoptingCarefully ==
  /\ Adopting
  /\ proc # "off" <=> boot = "child"
  /\ timer => proc \in {"serving", "webless"} /\ link = "file"
  /\ link = "absent" => proc \in {"off", "serving"}
  /\ \A r \in Reqs : Working(r) => ~timer

\* The inductive invariant of careful use, from the day of installation on.
CarefulSinceInstall == (FreshInstall /\ AdoptingCarefully) \/ Careful

\* The only step that puts a symlink where there was none.
LEMMA AdoptionEnds ==
  ASSUME CarefulUse, AdoptingCarefully, [Next]_vars, link' \notin {"file", "absent"}, Intact'
  PROVE  Careful'
<1> USE SlotNames
<1>0. ~CliRollback /\ cli' = "idle"
  BY NoCliRollback DEF AdoptingCarefully, Adopting
<1>1. PICK r \in Reqs : AdoptLink(r)
  <2>1. \A r \in Reqs : job[r].pc \in {"idle", "inspect", "adopt", "adoptLink"}
    BY DEF AdoptingCarefully, Adopting
  <2>2. link' # link
    BY DEF AdoptingCarefully, Adopting
  <2>3. PICK r \in Reqs : Step(r)
    BY <1>0, <2>2
    DEF Next, StartWeb, StartHeadless, BadBuildExits, Confirm, BeginInstall, Loop, PowerOn, Spawn,
        CheckMarker, Relink, ClearMarker, BootStep, PowerLoss, ProcessExit, CliRollback, CliRead,
        CliRelink, CliClear, disk, vars,
        AdoptingCarefully, Adopting
  <2>4. AdoptLink(r)
    BY <2>1, <2>2, <2>3
    DEF Step, InstallStep, Inspect, AdoptRename, OpenSlot, FillSlot, OpenMarker, FillMarker, Switch,
        ExtractWeb, SetWebAside, PutWeb, Restart, disk
  <2> QED
    BY <2>4
<1>2. /\ TypeOK /\ job[r] \in Jobs /\ job[r].pc = "adoptLink"
      /\ marker = "none" /\ boot = "child" /\ ~timer /\ proc = "serving" /\ link = "absent"
      /\ image = slotA /\ slot[slotA] = InitBuild /\ \A q \in Reqs \ {r} : job[q].pc = "idle"
  BY <1>1 DEF AdoptLink, InstallStep, AdoptingCarefully, Adopting, TypeInv, TypeOK, Working
<1>3. /\ link' = slotA /\ UNCHANGED <<slot, marker, webTree, confirmed, procv>>
      /\ job' = [job EXCEPT ![r].pc = "open", ![r].cur = slotA]
  BY <1>1, <1>2 DEF AdoptLink, InstallStep
<1>4. /\ job'[r] = [job[r] EXCEPT !.pc = "open", !.cur = slotA]
      /\ \A q \in Reqs \ {r} : job'[q] = job[q]
  BY <1>2, <1>3, OpenJob
<1>5. job'[r].pc = "open" /\ job'[r].cur = slotA /\ \A q \in Reqs \ {r} : job'[q].pc = "idle"
  BY <1>2, <1>4 DEF Jobs
<1>6. (\A q \in Reqs : JobInv(q)') /\ Solo'
  BY <1>2, <1>3, <1>5 DEF JobInv, Solo, Working, Staging, Switched, procv
<1>7. ProcInv' /\ MarkerInv'
  BY <1>2, <1>3 DEF ProcInv, MarkerInv, procv
<1>8. WayBack'
  BY <1>2, <1>3, WayBackNext, ConstantsAssumption
<1> QED
  BY <1>0, <1>3, <1>6, <1>7, <1>8 DEF Careful

\* A step that leaves binPath without a symlink.
LEMMA AdoptionGoesOn ==
  ASSUME CarefulUse, AdoptingCarefully, [Next]_vars, Adopting'
  PROVE  AdoptingCarefully'
<1> DEFINE Rest == /\ proc # "off" <=> boot = "child"
                   /\ timer => proc \in {"serving", "webless"} /\ link = "file"
                   /\ link = "absent" => proc \in {"off", "serving"}
                   /\ \A r \in Reqs : Working(r) => ~timer
<1> SUFFICES Rest'
  BY DEF AdoptingCarefully
<1> USE SlotNames
<1>1. CASE Die /\ boot' \in {"off", "check"}
  BY <1>1 DEF Die, Working, NoJob
<1>2. CASE Exec /\ boot' = "child" /\ Executable /\ UNCHANGED disk
  <2>1. link = "file"
    BY <1>2, ConstantsAssumption DEF Executable, AtLink, AdoptingCarefully, Adopting
  <2> QED
    BY <1>2, <2>1 DEF Exec, Working, NoJob, disk
<1>3. CASE StartWeb \/ StartHeadless \/ Confirm
  <2>1. \A r \in Reqs : Working(r) => proc = "serving"
    BY DEF AdoptingCarefully, Adopting, Working
  <2>2. link \in {"file", "absent"} /\ (proc = "starting" => link = "file")
    BY DEF AdoptingCarefully, Adopting
  <2> QED
    BY <1>3, <2>1, <2>2 DEF StartWeb, StartHeadless, Confirm, AdoptingCarefully, Working, disk
<1>4. ASSUME NEW r \in Reqs, NEW b \in Builds, NEW w \in BOOLEAN, BeginInstall(r, b, w)
      PROVE  Rest'
  BY <1>4 DEF BeginInstall, CarefulUse, AdoptingCarefully, Working, disk, procv
<1>5. ASSUME NEW r \in Reqs, Step(r)
      PROVE  Rest'
  <2>1. job[r].pc \in {"inspect", "adopt", "adoptLink"} /\ proc = "serving" /\ ~timer
    BY <1>5 DEF Step, InstallStep, Inspect, AdoptRename, AdoptLink, OpenSlot, FillSlot, OpenMarker,
                FillMarker, Switch, ExtractWeb, SetWebAside, PutWeb, Restart, AdoptingCarefully,
                Adopting, Working
  <2>2. UNCHANGED <<proc, boot, timer>>
    BY <1>5, <2>1 DEF Step, InstallStep, Inspect, AdoptRename, AdoptLink, OpenSlot, FillSlot,
                OpenMarker, FillMarker, Switch, ExtractWeb, SetWebAside, PutWeb, Restart, procv
  <2> QED
    BY <2>1, <2>2 DEF AdoptingCarefully
<1>6. CASE Loop /\ ~(Spawn /\ Executable)
  <2>1. /\ proc = "off" /\ boot # "child" /\ ~timer /\ \A r \in Reqs : job[r].pc = "idle"
    BY <1>6 DEF AdoptingCarefully, Adopting, Loop, PowerOn, Spawn, CheckMarker, Relink, ClearMarker, BootStep
  <2>2. /\ UNCHANGED <<proc, timer, job>> /\ boot' # "child"
    BY <1>6 DEF Loop, PowerOn, Spawn, CheckMarker, Relink, ClearMarker, BootStep
  <2> QED
    BY <2>1, <2>2 DEF Working
<1>7. CASE UNCHANGED vars
  BY <1>7 DEF vars, disk, procv, AdoptingCarefully, Working
<1>8. ~CliRollback
  BY NoCliRollback DEF CarefulUse, AdoptingCarefully, Adopting
<1>9. Spawn /\ Executable => Exec /\ boot' = "child" /\ UNCHANGED disk
  BY DEF Spawn
<1> HIDE DEF Rest
<1> QED
  BY <1>1, <1>2, <1>3, <1>4, <1>5, <1>6, <1>7, <1>8, <1>9
  DEF Next, BadBuildExits, PowerLoss, ProcessExit

LEMMA CarefulSinceInstallHolds ==
  ASSUME CarefulUse
  PROVE  /\ Init => CarefulSinceInstall
         /\ CarefulSinceInstall /\ [Next]_vars => CarefulSinceInstall'
<1>1. Init => CarefulSinceInstall
  <2> SUFFICES ASSUME Init, FreshInstall PROVE AdoptingCarefully
    BY CarefulInit DEF CarefulSinceInstall
  <2> QED
    BY AdoptingInit, SlotNames DEF AdoptingCarefully, Init, Working, NoJob
<1>2. ASSUME FreshInstall, AdoptingCarefully, [Next]_vars
      PROVE  AdoptingCarefully' \/ Careful'
  <2>1. Adopting' \/ Intact'
    BY <1>2, AdoptingStep DEF AdoptingCarefully, CarefulUse
  <2>2. Intact' => link' \notin {"file", "absent"}
    BY SlotNames DEF Intact
  <2> QED
    BY <1>2, <2>1, <2>2, AdoptionGoesOn, AdoptionEnds
<1> QED
  BY <1>1, <1>2, CarefulStep DEF CarefulSinceInstall

\* With one update at a time, asked for once the timer has fired: whenever the marker is
\* whole, the boot loop would end up on a build that can serve, and while it is cut short, a
\* power loss leads to such a build.  The server's own end while the marker is cut short is
\* not survived and is excluded (CarefulUse); so is the moment in the first update of all
\* between renaming the installer's file and linking to it.
THEOREM AlwaysAWayBack == ASSUME CarefulUse PROVE Spec => [](link # "absent" => WayBack)
<1>1. Init => CarefulSinceInstall
  BY CarefulSinceInstallHolds
<1>2. CarefulSinceInstall /\ [Next]_vars => CarefulSinceInstall'
  BY CarefulSinceInstallHolds
<1>3. CarefulSinceInstall => (link # "absent" => WayBack)
  <2> SUFFICES ASSUME AdoptingCarefully, link = "file" PROVE WayBack
    BY DEF CarefulSinceInstall, Careful, AdoptingCarefully, Adopting
  <2> QED
    BY SlotNames, ConstantsAssumption DEF WayBack, RollsBackTo, AtLink, AdoptingCarefully, Adopting
<1> QED
  BY <1>1, <1>2, <1>3, PTL DEF Spec

\* The same with binPath a symlink from the start: then in every state.
THEOREM UpdatedHasAWayBack == ASSUME CarefulUse, ~FreshInstall PROVE Spec => []WayBack
<1>1. Init => Careful
  BY CarefulInit
<1>2. Careful /\ [Next]_vars => Careful'
  BY CarefulStep
<1>3. Careful => WayBack
  BY DEF Careful
<1> QED
  BY <1>1, <1>2, <1>3, PTL DEF Spec

\* An install that comes to its restart has done all it promised: binary, marker and web.
THEOREM InstallIsComplete == ASSUME CarefulUse PROVE Spec => []RestartReady
<1>1. Init => CarefulSinceInstall
  BY CarefulSinceInstallHolds
<1>2. CarefulSinceInstall /\ [Next]_vars => CarefulSinceInstall'
  BY CarefulSinceInstallHolds
<1>3. CarefulSinceInstall => RestartReady
  <2>0. AdoptingCarefully => \A r \in Reqs : job[r].pc # "restart"
    BY DEF AdoptingCarefully, Adopting
  <2> SUFFICES ASSUME Careful, NEW r \in Reqs, job[r].pc = "restart"
               PROVE  /\ AtLink = job[r].bin
                      /\ link \in Slots
                      /\ marker = other(link)
                      /\ Content(marker) \in GoodBuilds
                      /\ job[r].tree => webTree = job[r].bin
    BY <2>0 DEF CarefulSinceInstall, RestartReady
  <2>1. JobInv(r) /\ job[r].cur \in Slots /\ image \in Slots /\ slot[image] \in GoodBuilds
    BY AtWork DEF Careful, Working, Jobs
  <2>2. /\ link = other(job[r].cur) /\ marker = job[r].cur /\ marker = image
        /\ slot[link] = job[r].bin
        /\ job[r].tree => webTree = job[r].bin
    BY <2>1 DEF JobInv, Switched
  <2> QED
    BY <2>1, <2>2, OtherSlot, DirectSlots DEF Careful, Intact, TypeInv
<1> QED
  BY <1>1, <1>2, <1>3, PTL DEF Spec

\* Once an update is confirmed, a later crash does not downgrade the device.
THEOREM ConfirmedStays == ASSUME CarefulUse PROVE Spec => NoDowngrade
<1>1. Init => CarefulSinceInstall
  BY CarefulSinceInstallHolds
<1>2. CarefulSinceInstall /\ [Next]_vars => CarefulSinceInstall'
  BY CarefulSinceInstallHolds
<1>3. CarefulSinceInstall /\ [Next]_vars => [boot = "relink" => link' = link \/ link \notin confirmed]_vars
  <2>0. AdoptingCarefully => boot # "relink"
    BY DEF AdoptingCarefully, Adopting
  <2> SUFFICES ASSUME Careful, Next, boot = "relink", link' # link
               PROVE  link \notin confirmed
    BY <2>0 DEF CarefulSinceInstall, vars, disk
  <2>1. proc = "off" /\ \A r \in Reqs : job[r].pc = "idle"
    BY DEF Careful, Intact, ProcInv
  <2>2. marker \in Slots /\ shSlot = marker /\ shSlot # "empty"
    BY SlotNames DEF Careful, MarkerInv
  <2>3. CASE Relink
    BY <2>2, <2>3 DEF Relink, Careful, MarkerInv
  <2>4. ~CliRollback
    BY NoCliRollback DEF CarefulUse, Careful
  <2>5. Relink
    BY <2>1, <2>4, SlotNames
    DEF Next, StartWeb, StartHeadless, BadBuildExits, Confirm, BeginInstall, Step, InstallStep,
        Inspect, AdoptRename, AdoptLink, OpenSlot, FillSlot, OpenMarker, FillMarker, Switch,
        ExtractWeb, SetWebAside, PutWeb, Restart, Loop, PowerOn, Spawn, CheckMarker, BootStep,
        ClearMarker, PowerLoss, ProcessExit, disk
  <2> QED
    BY <2>3, <2>5
<1> QED
  BY <1>1, <1>2, <1>3, PTL DEF Spec, NoDowngrade

-----------------------------------------------------------------------------
(* SlotUpdate implements AtomicUpdate.                                     *)

Current  == AtLink
Fallback == IF marker \in Slots /\ marker # link THEN Content(marker) ELSE None

\* A request in progress stages its build beside a binPath that is settled.
LEMMA Settled ==
  ASSUME Careful, NEW r \in Reqs,
         job[r].pc \in Staging \/ (job[r].pc = "open" /\ ~Busy(other(job[r].cur)))
  PROVE  /\ job[r].cur = link /\ other(link) \in Slots /\ other(link) # link
         /\ job[r].pc \in {"open", "fill", "mark", "markFill"} => marker \in {"none", "empty"}
         /\ job[r].pc = "switch" => marker = link
<1>1. Working(r) /\ JobInv(r) /\ job[r].cur = link /\ link \in Slots
  BY DEF Working, Staging, Careful, JobInv
<1>2. /\ proc = "serving" /\ ~timer /\ image \in Slots
      /\ \A q \in Reqs \ {r} : job[q].pc = "idle"
  BY <1>1, AtWork
<1>3. other(link) \in Slots /\ other(link) # link /\ Dest(other(link)) = other(link)
  BY <1>1, OtherSlot, DirectSlots DEF Careful, Intact, TypeInv
<1>4. link = image
  BY <1>1, <1>2, <1>3, SlotNames DEF JobInv, Busy, Staging
<1>5. job[r].pc \in {"open", "fill", "mark"} => marker \in {"none", "empty"}
  BY <1>2, <1>4 DEF Careful, ProcInv
<1> QED
  BY <1>1, <1>3, <1>5 DEF JobInv

LEMMA RefinementInit == ASSUME ~FreshInstall, Init PROVE Atomic!Init
<1>1. Careful
  BY CarefulInit
<1> QED
  BY <1>1, DirectSlots, SlotNames, ConstantsAssumption
  DEF Init, Atomic!Init, Careful, Intact, TypeInv

LEMMA RefinementStep ==
  ASSUME CarefulUse, Careful, Careful', [Next]_vars
  PROVE  [Atomic!Next]_<<Current, Fallback>>
<1>1. /\ Current = slot[link]
      /\ Fallback = IF marker \in Slots /\ marker # link THEN slot[marker] ELSE None
      /\ link \in Slots /\ TypeOK
  BY DirectSlots DEF Current, Fallback, Careful, Intact, TypeInv
<1>2. /\ Current' = slot'[link']
      /\ Fallback' = IF marker' \in Slots /\ marker' # link' THEN slot'[marker'] ELSE None
  BY SlotNames
  DEF Current, Fallback, Careful, Intact, TypeInv, TypeOK, DiskOK, AtLink, Content, Dest
<1>3. marker \in Slots => slot[marker] \in GoodBuilds /\ slot[marker] # None
  BY WayBackSlots, ConstantsAssumption DEF Careful
<1> USE SlotNames
<1>4. CASE UNCHANGED <<link, slot, marker>>
  BY <1>1, <1>2, <1>4
<1>5. CASE UNCHANGED <<link, slot>> /\ marker' = "none"
  <2>1. Current' = Current /\ Fallback' = None
    BY <1>1, <1>2, <1>5
  <2>2. CASE Fallback = None
    BY <2>1, <2>2
  <2>3. CASE Fallback # None
    BY <2>1, <2>3 DEF Atomic!Next, Atomic!Commit, Current, Fallback
  <2> QED
    BY <2>2, <2>3
<1>6. ASSUME NEW r \in Reqs, OpenSlot(r) \/ FillSlot(r) \/ OpenMarker(r) \/ FillMarker(r)
      PROVE  [Atomic!Next]_<<Current, Fallback>>
  <2>1. CASE UNCHANGED <<link, slot, marker>>
    BY <1>4, <2>1
  <2>2. CASE ~UNCHANGED <<link, slot, marker>>
    <3>1. \/ job[r].pc \in Staging
          \/ job[r].pc = "open" /\ ~Busy(other(job[r].cur))
      BY <1>6, <2>2 DEF OpenSlot, FillSlot, OpenMarker, FillMarker, InstallStep, Staging
    <3>2. /\ job[r].cur = link /\ other(link) \in Slots /\ other(link) # link
          /\ job[r].pc \in {"open", "fill", "mark", "markFill"} => marker \in {"none", "empty"}
      BY <3>1, Settled
    <3>3. link' = link /\ slot'[link] = slot[link]
      <4>1. Dest(other(job[r].cur)) = other(link) /\ slot \in [Slots -> Builds \cup {None, Torn} \cup Slots]
        BY <1>1, <3>2, DirectSlots DEF Careful, Intact, TypeInv, TypeOK, DiskOK
      <4>2. CASE FillSlot(r)
        BY <1>1, <3>2, <4>1, <4>2 DEF FillSlot
      <4>3. CASE OpenSlot(r) \/ OpenMarker(r) \/ FillMarker(r)
        BY <1>1, <3>2, <4>1, <4>3 DEF OpenSlot, OpenMarker, FillMarker
      <4> QED
        BY <1>6, <4>2, <4>3
    <3>4. marker \notin Slots /\ (marker' \notin Slots \/ marker' = link)
      BY <1>6, <3>2 DEF OpenSlot, FillSlot, OpenMarker, FillMarker, InstallStep
    <3> QED
      BY <1>1, <1>2, <3>3, <3>4
  <2> QED
    BY <2>1, <2>2
<1>7. ASSUME NEW r \in Reqs, Switch(r)
      PROVE  [Atomic!Next]_<<Current, Fallback>>
  <2>1. job[r].cur = link /\ other(link) \in Slots /\ other(link) # link /\ marker = link
    BY <1>7, Settled DEF Switch, InstallStep, Staging
  <2>2. slot[other(link)] = job[r].bin /\ job[r].bin \in Builds
    BY <1>1, <1>7, <2>1 DEF Switch, InstallStep, Careful, JobInv, TypeOK, Jobs
  <2>3. CASE UNCHANGED link /\ marker' = "none"
    BY <1>5, <1>7, <2>3 DEF Switch
  <2>4. CASE link' = other(link) /\ UNCHANGED marker
    <3>1. Fallback = None /\ Current' = job[r].bin /\ Fallback' = Current
      BY <1>1, <1>2, <1>7, <2>1, <2>2, <2>4 DEF Switch
    <3> QED
      BY <2>2, <3>1 DEF Atomic!Next, Atomic!Try, Current, Fallback
  <2> QED
    BY <1>7, <2>1, <2>3, <2>4 DEF Switch
<1>8. CASE Relink
  <2>1. marker \in Slots /\ link' = marker /\ UNCHANGED <<slot, marker>>
    BY <1>8 DEF Relink, BootStep, Careful, MarkerInv
  <2>2. CASE marker = link
    BY <1>1, <1>2, <2>1, <2>2
  <2>3. CASE marker # link
    <3>1. Fallback # None /\ Current' = Fallback /\ Fallback' = None
      BY <1>1, <1>2, <1>3, <2>1, <2>3
    <3> QED
      BY <3>1 DEF Atomic!Next, Atomic!Revert, Current, Fallback
  <2> QED
    BY <2>2, <2>3
<1>9. ASSUME NEW r \in Reqs, Step(r)
      PROVE  [Atomic!Next]_<<Current, Fallback>>
  <2>1. CASE OpenSlot(r) \/ FillSlot(r) \/ OpenMarker(r) \/ FillMarker(r)
    BY <1>6, <2>1
  <2>2. CASE ~(OpenSlot(r) \/ FillSlot(r) \/ OpenMarker(r) \/ FillMarker(r)) /\ ~Switch(r)
    <3>1. UNCHANGED <<link, slot, marker>>
      BY <1>9, <2>2
      DEF Step, Inspect, AdoptRename, AdoptLink, InstallStep, ExtractWeb, SetWebAside, PutWeb,
          Restart, disk, Careful, Intact
    <3> QED
      BY <1>4, <3>1
  <2> QED
    BY <1>7, <2>1, <2>2
<1>10. CASE Confirm \/ ClearMarker
  <2>1. UNCHANGED <<link, slot>> /\ (marker' = "none" \/ UNCHANGED marker)
    BY <1>10 DEF Confirm, ClearMarker
  <2> QED
    BY <1>4, <1>5, <2>1
<1>11. CASE StartWeb \/ StartHeadless \/ BadBuildExits \/ PowerOn \/ Spawn \/ CheckMarker
            \/ PowerLoss \/ ProcessExit \/ UNCHANGED vars
            \/ \E r \in Reqs, b \in Builds, w \in BOOLEAN : BeginInstall(r, b, w)
  <2>1. UNCHANGED <<link, slot, marker>>
    BY <1>11 DEF StartWeb, StartHeadless, BadBuildExits, PowerOn, Spawn, CheckMarker, BootStep,
                 PowerLoss, ProcessExit, BeginInstall, vars, disk
  <2> QED
    BY <1>4, <2>1
<1>12. ~CliRollback
  BY NoCliRollback DEF CarefulUse, Careful
<1> QED
  BY <1>8, <1>9, <1>10, <1>11, <1>12 DEF Next, Loop

\* The update, with all its file-system steps, failures and crashes, implements the atomic
\* A/B update: one step makes the new build current, and it is kept or undone as a whole.
THEOREM UpdateIsAtomic == ASSUME CarefulUse, ~FreshInstall PROVE Spec => ImplementsAtomicUpdate
<1>1. Init => Careful /\ Atomic!Init
  BY CarefulInit, RefinementInit
<1>2. Careful /\ [Next]_vars => Careful'
  BY CarefulStep
<1>3. Careful /\ Careful' /\ [Next]_vars => [Atomic!Next]_<<Current, Fallback>>
  BY RefinementStep
<1> QED
  BY <1>1, <1>2, <1>3, PTL DEF Spec, ImplementsAtomicUpdate, Atomic!Spec, Current, Fallback
=============================================================================
