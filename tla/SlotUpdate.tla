----------------------------- MODULE SlotUpdate -----------------------------
(***************************************************************************)
(* The A/B self-update of the mundus server and the boot loop that undoes  *)
(* an update which does not come up.                                       *)
(*                                                                         *)
(* On disk, binPath is a plain file (as the USB installer leaves it) or a  *)
(* symlink to one of two slots; a pending marker names the slot to fall    *)
(* back to.  In the server, install requests run concurrently (nothing     *)
(* serialises the HTTP handlers) and a timer calls Confirm.  Outside it, a *)
(* shell loop restarts the server and acts on the marker.  Every step of   *)
(* an install is one action, so a crash may fall between any two of them.  *)
(***************************************************************************)
EXTENDS Naturals

CONSTANTS Builds,        \* server binaries that pass checkExecutable
          GoodBuilds,    \* those that reach a serving web server when run
          InitBuild,     \* the build the USB installer left
          None,          \* content of a file that does not exist
          Torn,          \* content of a file cut short by a truncation or a failed write
          Reqs,          \* concurrent update requests (HTTP handler goroutines)
          FreshInstall,  \* TRUE: no update has run yet, binPath is a plain file
          Serial,        \* TRUE: an update is requested only when no other is in progress
          FirstAlone,    \* TRUE: the update that adopts the installer's plain file runs alone
          Patient,       \* TRUE: an update is requested only after the Confirm timer fired
          Faults,        \* the kinds of failure that may happen, a subset of FaultKinds
          MaxInstalls,   \* bound on the number of updates requested
          MaxFaults      \* bound on the number of failures

FaultKinds ==
  { "power",          \* power is lost
    "exit",           \* the server process dies (a panic, a signal, bridge.Run failing) ...
    "exitCut",        \* ... also while the marker is cut short, which the boot loop does not survive
    "slotWrite", "markerWrite", "switch", "web",  \* a file-system call of install fails
    "unlink",         \* Confirm cannot remove the marker
    "noapi",          \* the function API is not acquired in five attempts
    "webFail",        \* the web server fails to listen
    "cli" }           \* an operator runs `mundus -rollback` by hand

slotA == ".a"
slotB == ".b"
Slots == {slotA, slotB}

ASSUME ConstantsAssumption ==
  /\ GoodBuilds \subseteq Builds
  /\ InitBuild \in GoodBuilds
  /\ None \notin Builds
  /\ Torn \notin Builds
  /\ None \notin Slots
  /\ Torn \notin Slots
  /\ Builds \cap Slots = {}
  /\ FreshInstall \in BOOLEAN
  /\ Serial \in BOOLEAN
  /\ FirstAlone \in BOOLEAN
  /\ Patient \in BOOLEAN
  /\ Faults \subseteq FaultKinds
  /\ MaxInstalls \in Nat
  /\ MaxFaults \in Nat

VARIABLES
  link,       \* binPath: "file", "absent", the slot it points at, or "loop" (at itself)
  slot,       \* content of each slot: a build, None, Torn, or a slot (a symlink to it)
  marker,     \* the pending marker: "none", "empty" (cut short), or the slot it names
  webTree,    \* the build whose web UI is at webDir, or None
  boot,       \* where the init script is: "off", "halt", "exec", "child", "check", "relink", "clear"
  shSlot,     \* the loop's shell variable `slot`, what it read from the marker
  proc,       \* the server: "off", "starting", "serving", "webless", "headless"
  image,      \* where the running executable is: a slot, "file", or "gone" (unlinked)
  running,    \* the build the process was started from
  timer,      \* the goroutine that calls Confirm is still asleep
  job,        \* the state of each update request
  cli,        \* a `mundus -rollback`: "idle", the slot it has read from the marker, or "clear"
  confirmed,  \* history: the slots whose content has been confirmed by its own process
  installs,   \* updates requested so far
  faults      \* failures so far

disk  == <<link, slot, marker, webTree>>
procv == <<boot, shSlot, proc, image, running, timer>>
others == <<cli, installs>>
vars  == <<disk, procv, job, confirmed, others, faults>>

JobPCs == { "idle", "inspect", "adopt", "adoptLink", "open", "fill", "mark",
            "markFill", "switch", "web", "webSwap", "webPut", "restart" }

Jobs == [pc : JobPCs, bin : Builds, tree : BOOLEAN, cur : Slots]
NoJob == [pc |-> "idle", bin |-> InitBuild, tree |-> FALSE, cur |-> slotA]

DiskOK ==
  /\ link \in Slots \cup {"file", "absent", "loop"}
  /\ slot \in [Slots -> Builds \cup {None, Torn} \cup Slots]
  /\ marker \in Slots \cup {"none", "empty"}
  /\ webTree \in Builds \cup {None}
ProcOK ==
  /\ boot \in {"off", "halt", "exec", "child", "check", "relink", "clear"}
  /\ shSlot \in Slots \cup {"none", "empty"}
  /\ proc \in {"off", "starting", "serving", "webless", "headless"}
  /\ image \in Slots \cup {"file", "gone"}
  /\ running \in Builds
  /\ timer \in BOOLEAN
CountersOK ==
  /\ confirmed \subseteq Slots
  /\ installs \in Nat
  /\ faults \in Nat
TypeOK ==
  /\ DiskOK /\ ProcOK /\ CountersOK
  /\ job \in [Reqs -> Jobs]
  /\ cli \in Slots \cup {"idle", "clear"}

Init ==
  /\ link = IF FreshInstall THEN "file" ELSE slotA
  /\ slot = [s \in Slots |-> IF s = slotA /\ ~FreshInstall THEN InitBuild ELSE None]
  /\ marker = "none"
  /\ webTree = InitBuild
  /\ boot = "off"
  /\ shSlot = "none"
  /\ proc = "off"
  /\ image = link
  /\ running = InitBuild
  /\ timer = FALSE
  /\ job = [r \in Reqs |-> NoJob]
  /\ cli = "idle"
  /\ confirmed = {}
  /\ installs = 0
  /\ faults = 0

-----------------------------------------------------------------------------
(* The file system, as install and the boot loop see it.                   *)

other(s) == IF s = slotA THEN slotB ELSE slotA

\* The slot whose file is reached through slot s: s itself unless s became a symlink.
Dest(s) == IF slot[s] \in Slots THEN slot[s] ELSE s

\* What opening slot s yields; a symlink that leads to a symlink is a loop.
Content(s) == IF slot[Dest(s)] \in Slots THEN None ELSE slot[Dest(s)]

AtLink == IF link = "file" THEN InitBuild
          ELSE IF link \in Slots THEN Content(link) ELSE None

\* Someone holds the file of slot s open for writing: exec of it fails with ETXTBSY.
Writing(s) == \E r \in Reqs : job[r].pc = "fill" /\ Dest(other(job[r].cur)) = s

\* A file that is executing cannot be opened for writing (ETXTBSY), nor can a loop (ELOOP).
Busy(s) == (proc # "off" /\ image = Dest(s)) \/ slot[Dest(s)] \in Slots

Executable == AtLink \in Builds /\ (link \in Slots => ~Writing(Dest(link)))

\* One failure of kind k happens.
Fault(k) ==
  /\ k \in Faults
  /\ faults < MaxFaults
  /\ faults' = faults + 1
NoFault == UNCHANGED faults

AllIdle == \A r \in Reqs : job[r].pc = "idle"

-----------------------------------------------------------------------------
(* The life of the server process.                                         *)

\* The process image is replaced or started: every goroutine begins anew.
Exec ==
  /\ proc' = "starting"
  /\ image' = IF link \in Slots THEN Dest(link) ELSE link
  /\ running' = AtLink
  /\ timer' = FALSE
  /\ job' = [r \in Reqs |-> NoJob]
  /\ UNCHANGED shSlot

\* The process is gone, and with it every handler in progress.
Die ==
  /\ proc' = "off"
  /\ timer' = FALSE
  /\ job' = [r \in Reqs |-> NoJob]
  /\ UNCHANGED <<image, running, shSlot>>

\* The function API was acquired: the web server and the Confirm timer are started
\* together, and the timer is not told whether the web server came up.
StartWeb ==
  /\ proc = "starting"
  /\ running \in GoodBuilds
  /\ \/ proc' = "serving" /\ NoFault
     \/ proc' = "webless" /\ Fault("webFail")
  /\ timer' = TRUE
  /\ UNCHANGED <<disk, boot, shSlot, image, running, job, confirmed, others>>

\* No function API: neither web server nor Confirm timer, but the process stays up.
StartHeadless ==
  /\ proc = "starting"
  /\ proc' = "headless"
  /\ Fault("noapi")
  /\ UNCHANGED <<disk, boot, shSlot, image, running, timer, job, confirmed, others>>

\* A build that is no good ends before it serves.
BadBuildExits ==
  /\ proc = "starting"
  /\ running \notin GoodBuilds
  /\ Die
  /\ boot' = "check"
  /\ UNCHANGED <<disk, confirmed, others, faults>>

\* Mutant of Confirm: the marker is left in place.
ConfirmKeepsMarker ==
  /\ timer
  /\ timer' = FALSE
  /\ NoFault
  /\ confirmed' = confirmed \cup ({image} \cap Slots)
  /\ UNCHANGED <<disk, boot, shSlot, proc, image, running, job, others>>

\* Five seconds after the web server was started.
Confirm ==
  /\ timer
  /\ timer' = FALSE
  /\ \/ /\ marker' = "none"
        /\ NoFault
        /\ confirmed' = confirmed \cup ({image} \cap Slots)
     \/ /\ marker # "none"
        /\ Fault("unlink")
        /\ UNCHANGED <<marker, confirmed>>
  /\ UNCHANGED <<link, slot, webTree, boot, shSlot, proc, image, running, job, others>>

-----------------------------------------------------------------------------
(* install: one action for each step that reaches the file system.         *)

\* Request r goes on to step p.
Goto(r, p) == job' = [job EXCEPT ![r].pc = p]
\* Request r returns an error.
Fail(r) == job' = [job EXCEPT ![r] = NoJob]

InstallStep(r, p) == job[r].pc = p /\ UNCHANGED <<procv, others>>

\* An update (downloaded or uploaded) that passed checkExecutable reaches install.
BeginInstall(r, b, withTree) ==
  /\ proc = "serving"
  /\ job[r].pc = "idle"
  /\ Serial \/ (FirstAlone /\ link \notin Slots) => AllIdle
  /\ Patient => ~timer
  /\ installs < MaxInstalls
  /\ installs' = installs + 1
  /\ job' = [job EXCEPT ![r] = [pc |-> "inspect", bin |-> b, tree |-> withTree, cur |-> slotA]]
  /\ UNCHANGED <<disk, procv, cli, confirmed, faults>>

\* activeSlot looks at binPath (Lstat, then Readlink for a symlink).
Inspect(r) ==
  /\ InstallStep(r, "inspect")
  /\ \/ link = "absent" /\ Fail(r)
     \/ link = "file" /\ Goto(r, "adopt")
     \/ /\ link \in Slots
        /\ job' = [job EXCEPT ![r].pc = "open", ![r].cur = link]
  /\ UNCHANGED <<disk, confirmed, faults>>

\* activeSlot renames whatever is at binPath by now to slot A.  The running file keeps
\* running under its new name; a file of slot A that was there is unlinked.
AdoptRename(r) ==
  /\ job[r].pc = "adopt"
  /\ \/ /\ link = "absent"
        /\ Fail(r)
        /\ UNCHANGED <<link, slot, image>>
     \/ /\ link \in Slots \cup {"file"}
        /\ link' = "absent"
        /\ slot' = [slot EXCEPT ![slotA] = IF link = "file" THEN InitBuild ELSE link]
        /\ image' = IF link = "file" /\ image = "file" THEN slotA
                    ELSE IF image = slotA THEN "gone" ELSE image
        /\ Goto(r, "adoptLink")
  /\ UNCHANGED <<marker, webTree, boot, shSlot, proc, running, timer, confirmed, others, faults>>

\* ... and puts a symlink to slot A at binPath.
AdoptLink(r) ==
  /\ InstallStep(r, "adoptLink")
  /\ \/ /\ link' = slotA
        /\ NoFault
        /\ job' = [job EXCEPT ![r].pc = "open", ![r].cur = slotA]
     \/ UNCHANGED link /\ Fault("switch") /\ Fail(r)
  /\ UNCHANGED <<slot, marker, webTree, confirmed>>

\* Mutant of OpenSlot: the slot is replaced by a new file, which the kernel allows even
\* when the old one is running.
OpenSlotByReplacing(r) ==
  LET target == other(job[r].cur) IN
  /\ InstallStep(r, "open")
  /\ \/ /\ slot' = [slot EXCEPT ![target] = Torn]
        /\ confirmed' = confirmed \ {target}
        /\ NoFault
        /\ Goto(r, "fill")
     \/ UNCHANGED <<slot, confirmed>> /\ Fault("slotWrite") /\ Fail(r)
  /\ UNCHANGED <<link, marker, webTree>>

\* os.WriteFile opens the inactive slot, truncating it.
OpenSlot(r) ==
  LET target == other(job[r].cur) IN
  /\ InstallStep(r, "open")
  /\ \/ /\ Busy(target)
        /\ UNCHANGED <<slot, confirmed, faults>>
        /\ Fail(r)
     \/ /\ ~Busy(target)
        /\ slot' = [slot EXCEPT ![Dest(target)] = Torn]
        /\ confirmed' = confirmed \ {Dest(target)}
        /\ NoFault
        /\ Goto(r, "fill")
     \/ UNCHANGED <<slot, confirmed>> /\ Fault("slotWrite") /\ Fail(r)
  /\ UNCHANGED <<link, marker, webTree>>

\* os.WriteFile writes the build and closes the slot; Chmod makes it executable.  Either fails.
FillSlot(r) ==
  LET written == [slot EXCEPT ![Dest(other(job[r].cur))] = job[r].bin] IN
  /\ InstallStep(r, "fill")
  /\ \/ slot' = written /\ NoFault /\ Goto(r, "mark")
     \/ slot' \in {slot, written} /\ Fault("slotWrite") /\ Fail(r)
  /\ UNCHANGED <<link, marker, webTree, confirmed>>

\* os.WriteFile opens the pending marker, truncating it ...
OpenMarker(r) ==
  /\ InstallStep(r, "mark")
  /\ \/ marker' = "empty" /\ NoFault /\ Goto(r, "markFill")
     \/ UNCHANGED marker /\ Fault("markerWrite") /\ Fail(r)
  /\ UNCHANGED <<link, slot, webTree, confirmed>>

\* Mutant of FillMarker: the marker names the slot being installed.
FillMarkerWithTarget(r) ==
  /\ InstallStep(r, "markFill")
  /\ marker' = other(job[r].cur)
  /\ NoFault
  /\ Goto(r, "switch")
  /\ UNCHANGED <<link, slot, webTree, confirmed>>

\* ... and writes the name of the slot to go back to.
FillMarker(r) ==
  /\ InstallStep(r, "markFill")
  /\ \/ marker' = job[r].cur /\ NoFault /\ Goto(r, "switch")
     \/ UNCHANGED marker /\ Fault("markerWrite") /\ Fail(r)
  /\ UNCHANGED <<link, slot, webTree, confirmed>>

\* swapSymlink points binPath at the new slot; if it cannot, the marker is removed.
Switch(r) ==
  /\ InstallStep(r, "switch")
  /\ \/ /\ link' = other(job[r].cur)
        /\ UNCHANGED marker
        /\ NoFault
        /\ Goto(r, IF job[r].tree THEN "web" ELSE "restart")
     \/ UNCHANGED link /\ marker' = "none" /\ Fault("switch") /\ Fail(r)
  /\ UNCHANGED <<slot, webTree, confirmed>>

\* The web archive is extracted into a staging directory beside webDir.
ExtractWeb(r) ==
  /\ InstallStep(r, "web")
  /\ \/ NoFault /\ Goto(r, "webSwap")
     \/ Fault("web") /\ Fail(r)
  /\ UNCHANGED <<disk, confirmed>>

\* webDir, if it exists, is renamed out of the way.
SetWebAside(r) ==
  /\ InstallStep(r, "webSwap")
  /\ \/ webTree' = None /\ NoFault /\ Goto(r, "webPut")
     \/ webTree # None /\ UNCHANGED webTree /\ Fault("web") /\ Fail(r)
  /\ UNCHANGED <<link, slot, marker, confirmed>>

\* Mutant of PutWeb: a failure is not returned and the restart goes ahead.
PutWebIgnoringError(r) ==
  /\ InstallStep(r, "webPut")
  /\ \/ webTree' = job[r].bin /\ NoFault
     \/ UNCHANGED webTree /\ Fault("web")
  /\ Goto(r, "restart")
  /\ UNCHANGED <<link, slot, marker, confirmed>>

\* The staging directory is renamed to webDir.
PutWeb(r) ==
  /\ InstallStep(r, "webPut")
  /\ \/ webTree' = job[r].bin /\ NoFault /\ Goto(r, "restart")
     \/ UNCHANGED webTree /\ Fault("web") /\ Fail(r)
  /\ UNCHANGED <<link, slot, marker, confirmed>>

\* 750 ms later the process execs binPath, or exits if it cannot.
Restart(r) ==
  /\ job[r].pc = "restart"
  /\ \/ Executable /\ Exec /\ UNCHANGED boot
     \/ ~Executable /\ Die /\ boot' = "check"
  /\ UNCHANGED <<disk, confirmed, others, faults>>

Step(r) ==
  \/ Inspect(r) \/ AdoptRename(r) \/ AdoptLink(r) \/ OpenSlot(r) \/ FillSlot(r)
  \/ OpenMarker(r) \/ FillMarker(r) \/ Switch(r)
  \/ ExtractWeb(r) \/ SetWebAside(r) \/ PutWeb(r) \/ Restart(r)

-----------------------------------------------------------------------------
(* The init script: the boot guard, and the loop that respawns the server. *)

BootStep(at) == boot = at /\ UNCHANGED <<job, confirmed, others, faults>>

\* The loop is entered only if binPath is executable ([ -x ] looks at the mode bits,
\* which a torn file has too).
PowerOn ==
  /\ BootStep("off")
  /\ boot' = IF AtLink = None THEN "halt" ELSE "exec"
  /\ shSlot' = "none"
  /\ UNCHANGED <<disk, proc, image, running, timer>>

\* The loop runs binPath.
Spawn ==
  /\ boot = "exec"
  /\ \/ Executable /\ Exec /\ boot' = "child"
     \/ ~Executable /\ boot' = "check" /\ UNCHANGED <<shSlot, proc, image, running, timer, job>>
  /\ UNCHANGED <<disk, confirmed, others, faults>>

\* Mutant of CheckMarker: the loop respawns without looking at the marker.
CheckNothing ==
  /\ BootStep("check")
  /\ boot' = "exec"
  /\ UNCHANGED <<disk, shSlot, proc, image, running, timer>>

\* The server ended: is the marker still there?
CheckMarker ==
  /\ BootStep("check")
  /\ boot' = IF marker = "none" THEN "exec" ELSE "relink"
  /\ shSlot' = marker
  /\ UNCHANGED <<disk, proc, image, running, timer>>

\* Mutant of Relink: the name in the marker is used as it stands.
RelinkVerbatim ==
  /\ BootStep("relink")
  /\ link' = shSlot
  /\ boot' = "clear"
  /\ UNCHANGED <<slot, marker, webTree, shSlot, proc, image, running, timer>>

\* ln -sfn "mundus$slot" mundus: with an empty marker the link points at itself.
Relink ==
  /\ BootStep("relink")
  /\ link' = IF shSlot = "empty" THEN "loop" ELSE shSlot
  /\ boot' = "clear"
  /\ UNCHANGED <<slot, marker, webTree, shSlot, proc, image, running, timer>>

\* rm -f of the marker.
ClearMarker ==
  /\ BootStep("clear")
  /\ marker' = "none"
  /\ shSlot' = "none"
  /\ boot' = "exec"
  /\ UNCHANGED <<link, slot, webTree, proc, image, running, timer>>

Loop == PowerOn \/ Spawn \/ CheckMarker \/ Relink \/ ClearMarker

-----------------------------------------------------------------------------
(* What the environment may do at any time.                                *)

PowerLoss ==
  /\ boot # "off"
  /\ Fault("power")
  /\ Die
  /\ boot' = "off"
  /\ cli' = "idle"
  /\ UNCHANGED <<disk, confirmed, installs>>

ProcessExit ==
  /\ proc # "off"
  /\ Fault("exit")
  /\ marker = "empty" => "exitCut" \in Faults
  /\ Die
  /\ boot' = "check"
  /\ UNCHANGED <<disk, confirmed, others>>

\* Rollback, run from the command line beside the server: it reads the marker, ...
CliRead ==
  /\ boot # "off" /\ cli = "idle"
  /\ marker \in Slots
  /\ Fault("cli")
  /\ cli' = marker
  /\ UNCHANGED <<disk, procv, job, confirmed, installs>>

\* ... points binPath at the slot, ...
CliRelink ==
  /\ cli \in Slots
  /\ \/ link' = cli /\ cli' = "clear" /\ NoFault
     \/ UNCHANGED link /\ cli' = "idle" /\ Fault("switch")
  /\ UNCHANGED <<slot, marker, webTree, procv, job, confirmed, installs>>

\* ... and removes the marker, if it can.
CliClear ==
  /\ cli = "clear"
  /\ \/ marker' = "none" /\ NoFault
     \/ UNCHANGED marker /\ Fault("unlink")
  /\ cli' = "idle"
  /\ UNCHANGED <<link, slot, webTree, procv, job, confirmed, installs>>

CliRollback == CliRead \/ CliRelink \/ CliClear

Next ==
  \/ StartWeb \/ StartHeadless \/ BadBuildExits \/ Confirm
  \/ \E r \in Reqs : \/ Step(r)
                     \/ \E b \in Builds, w \in BOOLEAN : BeginInstall(r, b, w)
  \/ Loop
  \/ PowerLoss \/ ProcessExit \/ CliRollback

\* The scheduler runs every goroutine and the shell; power returns after it is lost.
Fairness ==
  /\ WF_vars(StartWeb) /\ WF_vars(BadBuildExits) /\ WF_vars(Confirm)
  /\ WF_vars(Loop)
  /\ \A r \in Reqs : WF_vars(Step(r))

Spec == Init /\ [][Next]_vars
FairSpec == Spec /\ Fairness

-----------------------------------------------------------------------------
(* Properties.                                                             *)

\* The executable that is running is never written over or unlinked: the file it was
\* started from still holds its build (install writes only the other slot, and the
\* kernel refuses to open a running file for writing).
RunningIntact ==
  proc # "off" => \/ image = "file" /\ link = "file"
                  \/ image \in Slots /\ slot[image] = running

\* Whatever is installed, interrupted, refused or rolled back, a build that can serve
\* is on disk: installs are done by a serving process and never touch its own slot.
KeepsAGoodBuild ==
  link = "file" \/ \E s \in Slots : slot[s] \in GoodBuilds

\* Where the loop goes when the server ends: to binPath if there is no marker, else to the
\* slot it names; a marker cut short makes binPath a link to itself.
RollsBackTo ==
  IF marker = "none" THEN AtLink ELSE IF marker \in Slots THEN Content(marker) ELSE None

\* Whenever the marker is whole, the boot loop would end up on a build that can serve.  While
\* it is cut short, from the truncation to the write or after a write that failed, the server
\* must not end, but power may be lost: the build that is then started without a look at the
\* marker is still the old one, which serves and removes it.
WayBack ==
  /\ marker # "empty" => RollsBackTo \in GoodBuilds
  /\ marker = "empty" => AtLink \in GoodBuilds

\* When install has succeeded and the restart is due, binPath leads to the build of
\* this request, the marker names the other slot, which can serve, and the web tree is
\* the one that came with the build.
RestartReady ==
  \A r \in Reqs : job[r].pc = "restart" =>
    /\ AtLink = job[r].bin
    /\ link \in Slots
    /\ marker = other(link)
    /\ Content(marker) \in GoodBuilds
    /\ job[r].tree => webTree = job[r].bin

\* The boot loop never moves binPath away from a slot whose build has been confirmed by
\* its own process: a later crash does not downgrade the device.
NoDowngrade == [][boot = "relink" => link' = link \/ link \notin confirmed]_vars

\* Whatever build was installed and whatever failed, a server that works comes up again
\* (with or without its web server, which a failing listener or function API costs it).
BackInService == []<>(proc \in {"serving", "webless", "headless"})

\* A build is on trial while the marker names the slot binPath does not point at.
Atomic == INSTANCE AtomicUpdate
          WITH current  <- AtLink,
               fallback <- IF marker \in Slots /\ marker # link THEN Content(marker) ELSE None

\* The dozen file-system steps of install, Confirm and the boot loop amount to the atomic
\* update: one step makes the new build current, and it is kept or undone as a whole.
ImplementsAtomicUpdate == Atomic!Spec
=============================================================================
