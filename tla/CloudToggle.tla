----------------------------- MODULE CloudToggle -----------------------------
(***************************************************************************)
(* Turning the vendor cloud off and on.                                    *)
(*                                                                         *)
(* Off: the vendor's CA, client credential and resolver are set aside and  *)
(* local ones put in their place, so that the robot's control_center talks *)
(* to the local cloud simulator; the vendor's cloud units are disabled and *)
(* the stand-ins for two of them (the OTA request drain, the recorder      *)
(* pruning) take over.  On: all of it is undone.  Each file or systemctl   *)
(* operation is one action: any of them may fail, and power may be lost or *)
(* the server may die between any two.                                     *)
(***************************************************************************)
EXTENDS Naturals, Sequences

CONSTANTS Reqs,        \* concurrent PUT /system/cloud requests
          Serial,      \* TRUE: a toggle is requested only when no other is in progress
          Faults,      \* the kinds of failure that may happen, a subset of FaultKinds
          MaxToggles,  \* bound on the number of toggles requested
          MaxFaults    \* bound on the number of failures

FaultKinds ==
  { "power",   \* power is lost between two steps
    "tear",    \* power is lost while a file is being copied or written
    "exit",    \* the server process dies
    "file",    \* a cp, tee, rm or rename fails and leaves things as they were
    "unlink",  \* os.Remove of a stand-in fails
    "unit",    \* systemctl enable or disable fails
    "app",     \* resolvectl, or systemctl restart app.service, fails
    "nosim" }  \* the cloud simulator does not start with the server

ASSUME ToggleAssumption ==
  /\ Serial \in BOOLEAN
  /\ Faults \subseteq FaultKinds
  /\ MaxToggles \in Nat
  /\ MaxFaults \in Nat

Creds == {"cert", "key"}      \* /data/bind/certs, set aside as *.mundus-disabled
Confs == {"ca", "resolv"}     \* /etc/wlab/ca.pem and resolv.conf, saved as *.mundus-backup
Items == Creds \cup Confs
Contents == {"vendor", "local", "torn", "none"}

cloudServices == <<"debug_log_push", "frpc", "update-robotic", "upload-recorder", "upload_image">>
Units == {"debug_log_push", "frpc", "update-robotic", "upload-recorder", "upload_image"}

\* SetCloudEnabled(false), with InstallCloudSim inlined: the steps in the code's order.
OffPlan ==
  << <<"backup", "ca">>, <<"put", "ca">>, <<"park", "cert">>, <<"park", "key">>,
     <<"put", "cert">>, <<"put", "key">>, <<"hosts", "add">>, <<"backup", "resolv">>,
     <<"remove", "resolv">>, <<"put", "resolv">>, <<"flush", "names">>,
     <<"restart", "app">>, <<"units", "disable">>, <<"standins", "start">> >>

\* Mutant of OnPlan: the credential is restored before the endpoint is.
OnPlanCredsFirst ==
  << <<"standins", "stop">>, <<"dropStandIn", "cert">>, <<"restore", "cert">>,
     <<"dropStandIn", "key">>, <<"restore", "key">>, <<"copyBack", "ca">>,
     <<"dropBackup", "ca">>, <<"hosts", "drop">>, <<"remove", "resolv">>,
     <<"copyBack", "resolv">>, <<"dropBackup", "resolv">>, <<"flush", "names">>,
     <<"units", "enable">>, <<"restart", "app">> >>

\* SetCloudEnabled(true), with RemoveCloudSim inlined.
OnPlan ==
  << <<"standins", "stop">>, <<"copyBack", "ca">>, <<"dropBackup", "ca">>, <<"hosts", "drop">>,
     <<"remove", "resolv">>, <<"copyBack", "resolv">>, <<"dropBackup", "resolv">>,
     <<"flush", "names">>, <<"dropStandIn", "cert">>, <<"restore", "cert">>,
     <<"dropStandIn", "key">>, <<"restore", "key">>, <<"units", "enable">>,
     <<"restart", "app">> >>

Plan(on) == IF on THEN OnPlan ELSE OffPlan

VARIABLES
  at,       \* what is at the path of each item
  kept,     \* what is at its parked or backup path
  hosts,    \* /etc/hosts carries the marked line for the cloud endpoint
  enabled,  \* the vendor units enabled for the next boot
  active,   \* the vendor units running
  app,      \* what control_center read when it started: each item, and where it connects
  up,       \* the server is running
  sim,      \* it has a cloud simulator (SetCloudSim was called)
  drain,    \* it holds the OTA request FIFOs open
  prune,    \* its recorder pruning loop runs
  job,      \* each toggle request: direction, step (0: none), unit, errors collected
  outcome,  \* history: what the last toggle reported: "on", "off" or "none" (not ended, failed)
  left,     \* history: the stand-ins os.Remove could not remove in the last toggle
  toggles,  \* toggles requested so far
  faults    \* failures so far

files == <<at, kept, hosts>>
units == <<enabled, active>>
mem   == <<up, sim, drain, prune>>
vars  == <<files, units, app, mem, job, outcome, left, toggles, faults>>

Jobs == [on : BOOLEAN, step : 0..Len(OffPlan), unit : 1..Len(cloudServices), errs : BOOLEAN]
Idle == [on |-> FALSE, step |-> 0, unit |-> 1, errs |-> FALSE]

FilesOK ==
  /\ at \in [Items -> Contents]
  /\ kept \in [Items -> Contents]
  /\ hosts \in BOOLEAN
AppOK == app \in [seen : [Items -> Contents], local : BOOLEAN]
MemOK ==
  /\ enabled \subseteq Units
  /\ active \subseteq Units
  /\ up \in BOOLEAN
  /\ sim \in BOOLEAN
  /\ drain \in BOOLEAN
  /\ prune \in BOOLEAN
  /\ outcome \in {"none", "on", "off"}
  /\ left \subseteq Creds
  /\ toggles \in Nat
  /\ faults \in Nat
TypeOK == FilesOK /\ AppOK /\ MemOK /\ job \in [Reqs -> Jobs]

Init ==
  /\ at = [x \in Items |-> "vendor"]
  /\ kept = [x \in Items |-> "none"]
  /\ hosts = FALSE
  /\ enabled = Units
  /\ active = Units
  /\ app = [seen |-> [x \in Items |-> "vendor"], local |-> FALSE]
  /\ up = FALSE
  /\ sim = FALSE
  /\ drain = FALSE
  /\ prune = FALSE
  /\ job = [r \in Reqs |-> Idle]
  /\ outcome = "none"
  /\ left = {}
  /\ toggles = 0
  /\ faults = 0

cloudEnabled == at["cert"] # "none" /\ kept["cert"] = "none"

\* The endpoint resolves to loopback only through resolved's stub and the hosts line.
Snapshot == [seen |-> at, local |-> hosts /\ at["resolv"] = "local"]

AllIdle == \A r \in Reqs : job[r].step = 0

Fault(k) ==
  /\ k \in Faults
  /\ faults < MaxFaults
  /\ faults' = faults + 1
NoFault == UNCHANGED faults

-----------------------------------------------------------------------------
(* The server, control_center and the machine.                             *)

\* Mutant of Start: the stand-ins are left to the toggle.
StartWithoutSync ==
  /\ ~up
  /\ up' = TRUE
  /\ \/ sim' = TRUE /\ NoFault
     \/ sim' = FALSE /\ Fault("nosim")
  /\ UNCHANGED <<files, units, app, drain, prune, job, outcome, left, toggles>>

\* main: SyncCloudStandIns matches the stand-ins to the disk, then the simulator starts.
Start ==
  /\ ~up
  /\ up' = TRUE
  /\ drain' = ~cloudEnabled
  /\ prune' = ~cloudEnabled
  /\ \/ sim' = TRUE /\ NoFault
     \/ sim' = FALSE /\ Fault("nosim")
  /\ UNCHANGED <<files, units, app, job, outcome, left, toggles>>

\* What is lost with the process.
ForgetProcess ==
  /\ up' = FALSE
  /\ sim' = FALSE
  /\ drain' = FALSE
  /\ prune' = FALSE
  /\ job' = [r \in Reqs |-> Idle]

Exit ==
  /\ up
  /\ Fault("exit")
  /\ ForgetProcess
  /\ UNCHANGED <<files, units, app, outcome, left, toggles>>

\* control_center crashes and systemd restarts it.
AppRestarts ==
  /\ app' = Snapshot
  /\ UNCHANGED <<files, units, mem, job, outcome, left, toggles, faults>>

\* The machine boots on the files as they now are.
Boot ==
  /\ active' = enabled
  /\ app' = Snapshot'
  /\ UNCHANGED <<enabled, outcome, left, toggles>>

PowerLoss ==
  /\ Fault("power")
  /\ UNCHANGED files
  /\ ForgetProcess
  /\ Boot

-----------------------------------------------------------------------------
(* The steps of a toggle.                                                  *)

At(r, op, x) == job[r].step > 0 /\ Plan(job[r].on)[job[r].step] = <<op, x>>

Advance(r, n) == job' = [job EXCEPT ![r].step = @ + n] /\ UNCHANGED <<outcome, toggles>>
Note(r, n) ==
  /\ job' = [job EXCEPT ![r].step = @ + n, ![r].errs = TRUE]
  /\ UNCHANGED <<outcome, toggles>>
Fail(r) == job' = [job EXCEPT ![r] = Idle] /\ UNCHANGED <<outcome, toggles>>
Succeed(r) ==
  /\ job' = [job EXCEPT ![r] = Idle]
  /\ outcome' = IF job[r].on THEN "on" ELSE "off"
  /\ UNCHANGED toggles

\* The step is done, or fails with k and its error is returned.
DoneOr(r, k, done, undone) ==
  \/ done /\ NoFault /\ Advance(r, 1)
  \/ undone /\ Fault(k) /\ Fail(r)

\* Without a simulator a request to turn the cloud off is refused and changes nothing.
BeginToggle(r, on) ==
  /\ up
  /\ on \/ sim
  /\ job[r].step = 0
  /\ Serial => AllIdle
  /\ toggles < MaxToggles
  /\ toggles' = toggles + 1
  /\ outcome' = "none"
  /\ left' = {}
  /\ job' = [job EXCEPT ![r] = [on |-> on, step |-> 1, unit |-> 1, errs |-> FALSE]]
  /\ UNCHANGED <<files, units, app, mem, faults>>

\* backupOnce: cp -a, unless there is a backup already or nothing to back up.
Backup(r, x) ==
  /\ At(r, "backup", x)
  /\ IF kept[x] # "none" \/ at[x] = "none"
     THEN Advance(r, 1) /\ UNCHANGED <<kept, faults>>
     ELSE DoneOr(r, "file", kept' = [kept EXCEPT ![x] = at[x]], UNCHANGED kept)
  /\ UNCHANGED <<at, hosts, units, app, mem, left>>

\* sudoWrite of the local CA or resolver, copyFile of the local credential.
Put(r, x) ==
  /\ At(r, "put", x)
  /\ DoneOr(r, "file", at' = [at EXCEPT ![x] = "local"], UNCHANGED at)
  /\ UNCHANGED <<kept, hosts, units, app, mem, left>>

\* Mutant of Park: whatever is parked already is not looked at.
ParkAgain(r, x) ==
  /\ At(r, "park", x)
  /\ IF at[x] = "none"
     THEN Advance(r, 1) /\ UNCHANGED <<at, kept, faults>>
     ELSE DoneOr(r, "file", /\ kept' = [kept EXCEPT ![x] = at[x]]
                            /\ at' = [at EXCEPT ![x] = "none"], UNCHANGED <<at, kept>>)
  /\ UNCHANGED <<hosts, units, app, mem, left>>

\* parkVendorCerts, one credential file.
Park(r, x) ==
  /\ At(r, "park", x)
  /\ IF at[x] = "none" \/ kept[x] # "none"
     THEN Advance(r, 1) /\ UNCHANGED <<at, kept, faults>>
     ELSE DoneOr(r, "file", /\ kept' = [kept EXCEPT ![x] = at[x]]
                            /\ at' = [at EXCEPT ![x] = "none"], UNCHANGED <<at, kept>>)
  /\ UNCHANGED <<hosts, units, app, mem, left>>

\* writeHosts with the endpoint; a failure is returned.
AddHosts(r) ==
  /\ At(r, "hosts", "add")
  /\ DoneOr(r, "file", hosts' = TRUE, UNCHANGED hosts)
  /\ UNCHANGED <<at, kept, units, app, mem, left>>

\* writeHosts(""); a failure is collected.
DropHosts(r) ==
  /\ At(r, "hosts", "drop")
  /\ \/ hosts' = FALSE /\ NoFault /\ Advance(r, 1)
     \/ UNCHANGED hosts /\ Fault("file") /\ Note(r, 1)
  /\ UNCHANGED <<at, kept, units, app, mem, left>>

\* rm -f resolv.conf.  On the way back only if there is a backup, and a failure is ignored.
RemoveResolv(r) ==
  /\ At(r, "remove", "resolv")
  /\ \/ /\ job[r].on
        /\ IF kept["resolv"] = "none"
           THEN Advance(r, 3) /\ UNCHANGED <<at, faults>>
           ELSE /\ Advance(r, 1)
                /\ \/ at' = [at EXCEPT !["resolv"] = "none"] /\ NoFault
                   \/ UNCHANGED at /\ Fault("file")
     \/ /\ ~job[r].on
        /\ DoneOr(r, "file", at' = [at EXCEPT !["resolv"] = "none"], UNCHANGED at)
  /\ UNCHANGED <<kept, hosts, units, app, mem, left>>

\* cp of the backup over the original: with none, the CA is left and the resolver, whose
\* backup was seen a step before, is an error.  The backup is dropped only after a cp.
CopyBack(r, x) ==
  /\ At(r, "copyBack", x)
  /\ \/ /\ kept[x] # "none"
        /\ at' = [at EXCEPT ![x] = kept[x]]
        /\ NoFault
        /\ Advance(r, 1)
     \/ /\ kept[x] = "none"
        /\ IF x = "ca" THEN Advance(r, 2) ELSE Note(r, 2)
        /\ UNCHANGED <<at, faults>>
     \/ kept[x] # "none" /\ UNCHANGED at /\ Fault("file") /\ Note(r, 2)
  /\ UNCHANGED <<kept, hosts, units, app, mem, left>>

\* rm -f of the backup, its failure ignored.
DropBackup(r, x) ==
  /\ At(r, "dropBackup", x)
  /\ Advance(r, 1)
  /\ \/ kept' = [kept EXCEPT ![x] = "none"] /\ NoFault
     \/ UNCHANGED kept /\ Fault("file")
  /\ UNCHANGED <<at, hosts, units, app, mem, left>>

\* resolvectl flush-caches; RemoveCloudSim ignores its failure and then returns the
\* errors it has collected, if any.
Flush(r) ==
  /\ At(r, "flush", "names")
  /\ IF job[r].on
     THEN (IF job[r].errs THEN Fail(r) ELSE Advance(r, 1)) /\ NoFault
     ELSE DoneOr(r, "app", TRUE, TRUE)
  /\ UNCHANGED <<files, units, app, mem, left>>

\* os.Remove of the local credential when the vendor's is parked; its error is ignored.
DropStandIn(r, x) ==
  /\ At(r, "dropStandIn", x)
  /\ Advance(r, 1)
  /\ IF at[x] # "none" /\ kept[x] # "none"
     THEN \/ at' = [at EXCEPT ![x] = "none"] /\ UNCHANGED left /\ NoFault
          \/ left' = left \cup {x} /\ UNCHANGED at /\ Fault("unlink")
     ELSE UNCHANGED <<at, left, faults>>
  /\ UNCHANGED <<kept, hosts, units, app, mem>>

\* Mutant of Restore: a failing rename is not returned.
RestoreUnreported(r, x) ==
  /\ At(r, "restore", x)
  /\ Advance(r, 1)
  /\ IF kept[x] # "none" /\ at[x] = "none"
     THEN \/ at' = [at EXCEPT ![x] = kept[x]] /\ kept' = [kept EXCEPT ![x] = "none"] /\ NoFault
          \/ UNCHANGED <<at, kept>> /\ Fault("file")
     ELSE UNCHANGED <<at, kept, faults>>
  /\ UNCHANGED <<hosts, units, app, mem, left>>

\* The parked credential is renamed back, if nothing is in its place.
Restore(r, x) ==
  /\ At(r, "restore", x)
  /\ IF kept[x] # "none" /\ at[x] = "none"
     THEN DoneOr(r, "file", /\ at' = [at EXCEPT ![x] = kept[x]]
                            /\ kept' = [kept EXCEPT ![x] = "none"], UNCHANGED <<at, kept>>)
     ELSE Advance(r, 1) /\ UNCHANGED <<at, kept, faults>>
  /\ UNCHANGED <<hosts, units, app, mem, left>>

\* Mutant of LastUnit: one unit too many.
LastUnitPastEnd(r) == job[r].unit > Len(cloudServices)

LastUnit(r) == job[r].unit = Len(cloudServices)

\* setCloudServices, one unit: disable --now, or enable without starting.  Failures are
\* joined and returned after the last unit.
SetUnit(r) ==
  LET u == cloudServices[job[r].unit]
      Proceed(bad) ==
        IF ~LastUnit(r)
        THEN job' = [job EXCEPT ![r].unit = @ + 1, ![r].errs = bad] /\ UNCHANGED <<outcome, toggles>>
        ELSE IF bad THEN Fail(r) ELSE Advance(r, 1)
  IN
  /\ job[r].step > 0
  /\ Plan(job[r].on)[job[r].step][1] = "units"
  /\ \/ /\ IF job[r].on THEN enabled' = enabled \cup {u} /\ UNCHANGED active
                        ELSE enabled' = enabled \ {u} /\ active' = active \ {u}
        /\ NoFault
        /\ Proceed(job[r].errs)
     \/ UNCHANGED units /\ Fault("unit") /\ Proceed(TRUE)
  /\ UNCHANGED <<files, app, mem, left>>

\* systemctl restart app.service: the last step of an enable, not of a disable.
RestartApp(r) ==
  /\ At(r, "restart", "app")
  /\ \/ app' = Snapshot /\ NoFault /\ (IF job[r].on THEN Succeed(r) ELSE Advance(r, 1))
     \/ UNCHANGED app /\ Fault("app") /\ Fail(r)
  /\ UNCHANGED <<files, units, mem, left>>

\* The OTA drain and the recorder pruning take over (the last step of a disable) ...
StartStandIns(r) ==
  /\ At(r, "standins", "start")
  /\ drain' = TRUE
  /\ prune' = TRUE
  /\ Succeed(r)
  /\ UNCHANGED <<files, units, app, up, sim, left, faults>>

\* ... or hand back (the first step of an enable).
StopStandIns(r) ==
  /\ At(r, "standins", "stop")
  /\ drain' = FALSE
  /\ prune' = FALSE
  /\ Advance(r, 1)
  /\ UNCHANGED <<files, units, app, up, sim, left, faults>>

Step(r) ==
  \/ \E x \in Creds : Park(r, x) \/ DropStandIn(r, x) \/ Restore(r, x)
  \/ \E x \in Confs : Backup(r, x) \/ CopyBack(r, x) \/ DropBackup(r, x)
  \/ \E x \in Items : Put(r, x)
  \/ AddHosts(r) \/ DropHosts(r) \/ RemoveResolv(r) \/ Flush(r)
  \/ SetUnit(r) \/ RestartApp(r) \/ StartStandIns(r) \/ StopStandIns(r)

\* Power is lost in the middle of a cp, a tee or a WriteFile: its target is cut short.
\* (A hosts file cut short has lost at least its last line, which is the marked one.)
Tear(r) ==
  /\ \E x \in Items :
       \/ /\ At(r, "backup", x)
          /\ kept[x] = "none"
          /\ kept' = [kept EXCEPT ![x] = "torn"]
          /\ UNCHANGED <<at, hosts>>
       \/ /\ At(r, "put", x) \/ (At(r, "copyBack", x) /\ kept[x] # "none")
          /\ at' = [at EXCEPT ![x] = "torn"]
          /\ UNCHANGED <<kept, hosts>>
       \/ /\ At(r, "hosts", "add") \/ At(r, "hosts", "drop")
          /\ hosts' = FALSE
          /\ UNCHANGED <<at, kept>>
  /\ Fault("tear")
  /\ ForgetProcess
  /\ Boot

Next ==
  \/ Start \/ Exit \/ AppRestarts \/ PowerLoss
  \/ \E r \in Reqs : \/ Step(r)
                     \/ Tear(r)
                     \/ \E on \in BOOLEAN : BeginToggle(r, on)

Spec == Init /\ [][Next]_vars

-----------------------------------------------------------------------------
(* Properties.                                                             *)

\* Turning the cloud off is reversible at every instant: the vendor's original of each
\* item is in its place or set aside, whatever failed or was interrupted.
VendorKept == \A x \in Items : "vendor" \in {at[x], kept[x]}

\* The vendor's key is never the one presented to the local endpoint: a control_center
\* started at any instant either connects elsewhere or has read a local key.
VendorKeyStaysPrivate == app.local => app.seen["key"] # "vendor"

\* A toggle that reported success has done all of it, and control_center runs with it.
\* Only a stand-in that os.Remove could not remove in that very enable stays in its place
\* unreported (cloud.go ignores the error), and costs no other item its restoring.
ToggleComplete ==
  /\ outcome = "off" => /\ \A x \in Items : at[x] = "local" /\ kept[x] # "none"
                        /\ hosts
                        /\ enabled = {} /\ active = {}
                        /\ app = Snapshot
  /\ outcome = "on" => /\ \A x \in Confs : at[x] \in {"vendor", "torn"}
                       /\ \A x \in Creds \ left : at[x] = "vendor" /\ kept[x] = "none"
                       /\ ~hosts
                       /\ enabled = Units
                       /\ app = Snapshot

\* While the cloud is off and no toggle is in progress, a running server stands in for
\* the two units whose absence stops the robot, whenever they do not run.
StandInsActive ==
  up /\ AllIdle /\ ~cloudEnabled =>
    /\ "update-robotic" \notin active => drain
    /\ "upload-recorder" \notin active => prune
=============================================================================
