# mundus: models and proofs

mundus is a server that runs on a SwitchBot S20 robot vacuum. It talks to the vendor's
`control_center` over a local terminal and a local HTTP function API, bridges it to Home
Assistant over MQTT, serves a web UI, stands in for the vendor's cloud, and updates itself.
This directory holds TLA+ models of its core logic, TLC configurations that check them, and
TLAPS proofs. The reference is the Go code under `src/server` and the boot script in
`src/usb/build-zip.sh`; `PROJECT.json` maps every definition to the lines it stands for.

Run a model with `tlc -config MCSlotUpdate_any.cfg MCSlotUpdate.tla`, and check a component's
proofs with `tlapm SlotUpdateProofs.tla` and so on for the other `*Proofs` modules.

## Inventory

| Part | Source | State | Operations | What is hard |
|---|---|---|---|---|
| A/B self-update | `internal/update` | binPath (file or symlink), slots `.a` `.b`, pending marker, web tree | Check, Apply, ApplyUpload, install, Confirm, Rollback, restart | a crash between any two file operations; concurrent requests; the Confirm timer of an older process; errors after the switch |
| Boot loop | `usb/build-zip.sh` | the shell's `slot` variable | guard, respawn, relink, clear | acts on whatever an interrupted install left |
| Start and shutdown | `main.go` | process | acquire the function API, start web server, timer, simulator, bridge | parts that fail to start while the process stays up |
| Cloud toggle | `internal/system/cloud.go`, `cloudsim.go`, `otadrain.go` | vendor CA, certificate, key, resolver and their saved copies, hosts line, units; drain and pruning in memory | SetCloudEnabled, InstallCloudSim, RemoveCloudSim, SyncCloudStandIns | sixteen fallible steps without a transaction; restarts in between; concurrent toggles |
| Recorder pruning | `internal/system/recorderprune.go` | archive directory | prune every five minutes | limits (10 bags, 48 h) |
| SSH access | `internal/system/ssh.go` | authorized_keys, sshd_config, sshd | AddKey, RemoveKey, SetSSHEnabled | read-modify-write of files, one of them unguarded; a restart that fails |
| HA bridge | `internal/hass`, `internal/pending` | client, connected flag, settings, cached mode, pending values | Run, applyMQTT, onConnect, message handlers, refresh bursts, publishState | many goroutines, two locks, a channel of one |
| Cloud simulator | `internal/cloudsim` | sessions, property store, certificates | accept, adopt session, replay, SetProperty | reconnects overlapping; publish and store not atomic |
| Terminal client | `internal/robot/client.go` | one TCP connection | Exec with one retry | a command executed twice; framing by idle gaps |
| Function API | `internal/funcapi`, `internal/robotapi` | base URL and token | Acquire, Func with re-acquire | a request repeated after it was executed |
| Map editing | `internal/webapi/map.go`, `robotapi/mapio.go` | map files of `control_center` | zones, rooms, markers: read, modify, write the whole set | two editors; map changed under the edit; ids |
| Map geometry | `internal/mapgeo` | none | rasterize, trace, simplify, split, adjacency | pinches, holes, thin rooms, cells on the cut |
| Device settings | `internal/settings` | schema | Read, Write (some toggles inverted) | round trips |
| Auth | `internal/auth`, `webapi/auth.go` | password hash file | Setup once, login, ChangePassword | two setups, check then act |
| Configuration | `internal/config` | static file, runtime overlay | Load, SaveRuntime, ApplyMQTT | overlay order |
| Robot state, track, discovery, web UI, CI | `internal/robot`, `robotapi/track.go`, `hass/discovery.go`, `web`, `.github` | none of their own | parse, format, display, build | left out, see below |

How they interact: the web API calls every part from HTTP handler goroutines that nothing
serialises; the bridge's Run goroutine, the MQTT library's callbacks and short-lived
goroutines share the bridge; the update, the boot loop and Confirm meet only on the file
system; the cloud toggle and the server's start meet only on the file system; the runtime
settings file carries a reconfiguration over a restart.

## Modules

| Module | What it is |
|---|---|
| `SlotUpdate` | install, Confirm, Rollback, restart, process start and the boot loop |
| `AtomicUpdate` | what the update promises: a current build, and while it is on trial the build to fall back to |
| `SlotUpdateProofs` | type correctness, the safety invariants and the refinement, proved |
| `CloudToggle` | turning the cloud off and on, the stand-ins, the server's and the machine's restarts |
| `CloudToggleProofs` | all four safety invariants proved: type, reversibility, privacy of the vendor's key, completeness of a success; and that the stand-ins take over |
| `MqttLink` | Run, the client's life, PUT /config/mqtt |
| `MqttLinkProofs` | `SettledAgrees`, proved for one request at a time |
| `CleanMode` | `b.mode`, `modeWant`, refreshMode, SetCleanMode, publishState |
| `CloudSim` | the cloud simulator's sessions, the replay of settings, SetProperty and its store |
| `CloudSimProofs` | its two safety invariants, proved |
| `MapCells` | rooms as sets of grid cells: adjacency, components, holes |
| `MapGeo` | mapgeo's polygons on the grid, in exact integer coordinates |
| `MapGeoProofs` | for every grid and mask: what the flood fill, `Rasterize`, the outline, its simplification and a split give; three of the four geometry properties |
| `MapEdit` | concurrent edits of rooms and zones against control_center and a change of map |
| `MapEditProofs` | what merge, split, the id counters and the graph builder keep; its safety invariants and both action properties, proved |
| `RobotCalls` | the terminal client with its retry, and the function API with its re-acquire |
| `RobotCallsProofs` | its four safety invariants, proved |
| `Access` | the admin password, authorized_keys and the SSH toggle |
| `AccessProofs` | its safety invariants and both action properties, proved |
| `MC*` | instances for TLC |

A definition preceded by "Mutant of X" is a plausible bug in X; `PROJECT.json` names, for
each property, the mutant that must violate it.

### SlotUpdate

`link` is binPath: the installer's plain file, a slot, absent, or a link to itself. `slot`
gives the content of each slot: a build, nothing, a torn file, or a symlink (what a second
adopter can rename there). `marker` is the pending marker. A request's `pc` names the next
file operation of install; each one is an action, with its failure as a second disjunct, and
a crash (`PowerLoss`, `ProcessExit`) may come between any two. Writing a file is two steps,
open-and-truncate and write, as `os.WriteFile` does it. `cli` is a `mundus -rollback` run by hand,
in three steps. `boot` is where the shell is. A build
is a model value; `GoodBuilds` reach a serving web server, the others exit.

Assumed of the system underneath: file-system operations reach the disk in the order they are
made and renames are atomic (the code calls no fsync; a journal that reorders is outside the
model); the kernel refuses to open a running executable for writing and to execute a file
that is open for writing (ETXTBSY), and to follow a link to itself (ELOOP).

Environment, by constants: `Serial` (an update is requested only when none is in progress),
`FirstAlone` (the first update, which adopts the plain file, runs alone), `Patient` (an update
is requested only once the Confirm timer has fired, five seconds after the start), `Faults`
(which failures occur) and the bounds `MaxInstalls`, `MaxFaults`.

`WayBack` has two parts. Whenever the marker is whole, the boot loop would end up on a build that
serves, by the marker or without one (`RollsBackTo`). While the marker is cut short (between its
truncation and its write, or after a write that failed) the two crashes differ: after a power loss
the loop starts the old build without a look at the marker, and this is what the comment at
update.go:218-219 promises and what is claimed; after the server's own end it reads the empty
marker and links binPath to itself, and nothing brings the device back. That one crash is the
fault `exitCut`; `slot_careful` excludes it and lets everything else happen around it.

The release check, the download with its checksums and the status the UI polls are not
modelled: a request enters install with any build that passed `checkExecutable`.

### CloudToggle

`at[x]` and `kept[x]` are what is at the path of an item (certificate, key, CA, resolv.conf)
and at its parked or backup path: the vendor's file, the local stand-in, a torn file, or
nothing. `OffPlan` and `OnPlan` list the steps of SetCloudEnabled in the code's order, with
InstallCloudSim and RemoveCloudSim inlined; a request is a position in its plan. Where the
code returns, collects or ignores an error, the step's action does. `app` is what
control_center read when it last started; it restarts on its own at any time
(`AppRestarts`), by the toggle's last step, and with the machine. Tests of a file and the
operation that follows are one step. `left` is the history of the one error nobody collects: the
stand-ins that os.Remove (cloud.go:103) could not remove in the last toggle, whose credential
therefore stayed parked. `ToggleComplete` excepts these and no other. The drain holds every FIFO
as soon as it is started; that the code skips one that is absent or cannot be opened
(otadrain.go:48-63) is not modelled.

Assumed: control_center reads CA, credential, hosts and resolver when it starts and keeps
them, as cloudsim.go:99-100 says; the local endpoint is used exactly when the hosts line is
there and the resolver is resolved's stub (cloudsim.go:20-24); nobody else writes these files;
rename is atomic, while a cp, tee or WriteFile may be torn by a power loss (`tear`).

### MqttLink

`run` is the Run goroutine, `queue` the channel, `client` the field `b.client` (a generation
number: every connect makes a new client), `conn`, `dials`, `hook` the state, broker and
onConnect callback of each client, old ones included. A handler saves, drains, sends. Where a
goroutine uses `b.client` without a check (sub), or after a check (publish), a client that Run
has cleared in the meantime is a panic: the process ends and the boot loop starts it on the
saved settings. From paho, as the code configures it (ConnectRetry, AutoReconnect), the model
takes: the connect token completes when the connection has been up and not before; a lost
connection is dialled again; onConnect runs on a goroutine of its own. The handler of a lost
connection is taken to run before the client is up again. That the fields of `b.t` and `b.cfg`
are read by other goroutines while Run writes them is not modelled.

### CleanMode

One field of a mode, `fan`, stands for what a select changes, `water` for the rest. The robot
accepts a mode and persists it later (`accepted`), or drops it. `modeWant` is `pending.Value`;
its window is a flag that may fall at any time after Expect. Goroutines: setters (a Home
Assistant message, a web request) and refreshers (the poll tick; onConnect behaves the same).
The state and mop-drying values use `pending.Value` in the simpler way (Resolve's result is
published and not stored) and are not modelled.

### CloudSim

A connection is a number. `handler[c]` is where handleMQTT of connection c is, `inbox[c]` what
it has yet to read: the SUBSCRIBE and, once control_center has gone, the end of the stream.
The session is adopted, the stored settings are copied, the session is looked up again and the
copy is written in four steps, since `s.mu` and `p.mu` are released in between. A `setter` is a
PUT /settings, or a Home Assistant message with one setting: it writes one setting after
another and ends at the first that is refused. A publish is lost if control_center has gone
but the stream is not yet known to be closed. A publish and the lookup before it are two
steps; `properties.set` holds its lock throughout and is one, which may fail after the memory
has changed. Data is abstract: a setting is a model value, valid or not, and its encoding, the
packets and the acknowledgements are left out, as is the race on the sequence number `s.seq`.

Assumed of control_center, which is not in the repository: it applies what it reads in order;
its settings do not survive its restart, and may survive a lost connection (properties.go:20-23);
it connects again after the connection ended. With `Ordered` it connects only once the
SUBSCRIBE of its earlier connections has been served. Without that order a delayed handler
adopts a connection that has already ended over the one in use, and the session is then cleared:
nothing can be published until the next reconnect (`Ordered = FALSE`; `SessionFound`).

### MapCells and MapGeo

A mask is a set of cells. Coordinates count half cells, so that cell centres and corners are
integers and every test of the code (a ray cast, the side of a line, a distance against 0.75
of the resolution) is an exact comparison; the rounding of floats and its ties are not
modelled. `Contour` is the whole way from a mask to a stored polygon (largest component, every
boundary loop, the largest of them, simplification) and `Redrawn` the mask that reading the
polygon back gives: what the next edit starts from.

Reading back is not exact, by design of the code: simplification moves cells on the rim, a
hole is filled (a merged room covers one it encloses), a room of one or two diagonal cells may
fall apart, the two halves of a split may overlap at the cut or not be listed as neighbours.
The properties say how far this goes and no further. A cell with all four neighbours in the room
stays, and nothing further than one cell from the room is stored but its holes (`RoomKept`); a
room never vanishes (`RoomStays`); the halves of a split overlap at the cut only (`SplitApart`).
A cell with three neighbours in its room may be lost: of a row of five cells above three rows of
seven, two lose such cells to one long chord.

`Walk` uses all sides in the order of the code's scan, and `traceLoops` cuts the walk into loops
where it cannot go on from the corner reached; the order of the loops is that of the code.

### MapEdit

`file[doc][m]` is the set of rooms or of zones of map m as control_center holds it; `job[e]` is
an edit: the request, the set it will submit and the map id that goes with it (read with the
rooms, but after the zones). Reading and computing the new set is one step: the code reads
labels.json, map.json for the grid (map.go:261, 307) and, in `applyLabels`, the transform again
(map.go:225), and a change of map between these reads, which would draw a room with another
map's transform, is not modelled. The backup reads the file again and then writes; `Abandon` is
an edit that ends there with an error, and its backup may be cut short. The submission is stored if the id is that of the active map, and its result code is dropped. An answer may be
lost before or after the set was stored, and the set is then sent once more. A room is an id, a
name, a set of cells and its graph; the operators `Redraw` and `Halves` are constants, so that
MapEdit does not depend on how polygons are made; the instance for TLC gives them MapGeo's, and
so TLC evaluates what the proofs assume of the two (`RedrawAssumption`, `HalvesAssumption`) for
every mask of its grid. `Among` and `RoomsWith` are the loops that sort rooms or zones into those
picked and the rest.

The set an edit submits replaces the set that is there. Two edits side by side therefore undo
one another, with no guard in the code; `AloneIsAtomic` says when it cannot happen, `IdsUnique`
and `GraphMatches` hold all the same, because each submitted set is consistent in itself.

### RobotCalls

`exec[p]` is the terminal command of a goroutine (waiting for the mutex, sending, reading, its
attempt), `queue` and `inbox` are what control_center has yet to execute and what has arrived.
An answer has no end mark: `Read` takes what has arrived when the line falls idle, `NoAnswer`
gives up at the deadline, and `AnswerInParts` is an answer that pauses for longer than the idle
time. A new connection begins with a welcome. `drainLocked` reads for one `readIdle` and ignores
what comes of it (client.go:62-72), so in `Send` either the welcome is drained or it is still to
come and is read ahead of the command's answer. The first failure of a command drops the
connection and leaves orphans: commands that are executed and answered to nobody. The second
failure drops nothing (client.go:78-87), and an answer that is merely late stays on its way to
whoever sends the next command. `shifted` records that one of these three has happened.
`call[c]` is a function call: the endpoint read under `l.mu`, the request, `refresh` with
its two commands under `l.mu`, and the second attempt. An endpoint is a number that stands for
port and token; `Disabled` is port 0. Names in the payloads are left out: an answer is known by
its command and who asked.

Assumed of control_center: commands of one connection are executed in order; a restart disables
the service and ends the connections; `service_enable` when it is enabled already may keep the
endpoint or make a new one (the code allows for both); it accepts a request that carries its
current endpoint.

### Access

A line of authorized_keys is a key or a line of the owner's; the file is a set of them (order and
repetition do not matter to sshd or to the code). `keyTmp` is the one temporary file all edits
share. `hash` is the store's memory, `stored` its file, both as the password they match.
`config` is the listen address in sshd_config, which `tee` truncates and then writes; the other
lines are not modelled. `sshd` is the address of the configuration sshd was last started with.
`systemctl restart` is two steps, sshd loading the file and the command returning, so that another
toggle may write between them. A password that is too short is the second outcome of `AuthWrite`
that needs no fault. The server may end at any step, and then a `tee` that was fed, and a restart
that was asked for, finish by themselves, before the boot loop has started the server again.

`KeysByRequest` is the atomic specification of the key file: every change is one request applied
to the lines the file has at that moment, and a request that succeeded has been applied. It is
claimed until `keyLines` could not read the file and took it for empty (`blind`): the code then
replaces all lines by one key. Toggles of SSH may overlap, and their tees and restarts interleave:
one may load the file another has truncated. `toggled` notes those that overlapped, and is empty
once one of them has failed or was cut short. `SSHAsSaved` is claimed when all have ended and
succeeded: then file and sshd have the address of one of them. After a failure nothing is claimed
until the next toggle that runs without one that fails.

## Runs

| Run | Environment | Checked |
|---|---|---|
| `slot_any` | fresh install, first update alone, then two requests at once at any time; all faults; 3 installs, 2 faults | `TypeOK`, `RunningIntact`, `KeepsAGoodBuild` |
| `slot_careful` | one update at a time, after the timer; power losses at every step, exits while the marker is not cut short, failing calls, no function API; 3 installs, 3 faults; fair | `WayBack`, `RestartReady`, `NoDowngrade`, `ImplementsAtomicUpdate`, `BackInService` |
| `cloud_serial` | one toggle at a time; crashes, failing commands, a stand-in that cannot be removed; 4 toggles, 2 faults | `TypeOK`, `VendorKept`, `VendorKeyStaysPrivate`, `ToggleComplete` |
| `cloud_standins` | one toggle at a time; crashes, torn files, no simulator; 4 toggles, 3 faults | `StandInsActive` |
| `link_serial` | one request at a time, brokers reachable; 2 requests, 1 of a lost connection, failing save, signal; fair | `SettledAgrees`, `TakesEffect`, `LinkUp`, `StopHonoured` |
| `mode_converges` | two setters and the tick; 2 changes, 1 in the vendor app, 1 failing or lost call; fair | `Converges` |
| `sim_sessions` | two requests, one setting with two values; 2 lost connections, restarts or failing saves; fair | `SessionIsServed`, `StoredWasSent`, `SessionFound`, `ReplaySettles` |
| `map_geometry` | every set of cells of a 4 x 3 grid (4096), 16 split lines | `OutlineEncloses`, `RoomKept`, `RoomStays`, `SplitApart` |
| `map_edit` | two editors, three rooms and two zones on one map, a room on another; 3 edits, 2 lost answers, failing backups, restarts or changes of map | `TypeOK`, `IdsUnique`, `GraphMatches`, `RoomsStayOnMap`, `AloneIsAtomic` |
| `robot_calls` | two callers and a poller; 3 calls, 1 probe, 2 restarts, late, lost or broken answers or late welcomes; fair | `TypeOK`, `AnswersOwn`, `ExecutedOnce`, `QuietCallSucceeds`, `CallsEnd` |
| `access` | two requests at a time, two keys, two passwords; 4 requests, 2 failing calls, exits or power losses | `KeysByRequest`, `SetupOnce`, `PasswordInForce`, `SSHAsSaved` |

Two installs are enough for one slot to be written and written again, three to come back to
it after a rollback; two toggles are a round trip and four are two, so that leftovers of an
interrupted one meet the next in both directions; two requests fill the channel that holds
one; two failures give three sessions, so an old one's end can meet a new one's start twice.
A grid of four by three has every pinch of two diagonal cells, rooms with one hole or two and
walls one cell thick (the first two geometry properties were also checked on all 65536 sets of a
four by four grid, once, outside the runs); three edits let a merge free an id, a split take one
and a third edit meet both; with three rooms a merge moves the position of a room that keeps its id.
Three calls with two callers are needed for a refresh to meet a refresh and for a later call to
find what they left; two faults allow a restart within the recovery from one. Four requests put
two more, racing in their turn, after two that raced. Requests, keys and passwords are symmetric in
`access`, which checks safety only. The `TypeOK` of `MqttLink`, `CleanMode`, `CloudSim` and `Access` states
the types of their variables and is not part of a run; that of `Access` is proved.
Two or three faults put a crash into the recovery from a crash. Two builds that serve and
one that does not are enough to tell the current build, the one to fall back to and a bad one
apart. Deadlock is not checked: once the bounded requests and failures are used up these
systems idle.

Fairness: goroutines and the shell are scheduled (weak fairness on their steps), the poll tick
comes again, a window elapses, a reachable broker accepts, power comes back, control_center reconnects and
reads what it is sent; in `robot_calls`, callers and the
terminal's users run (Go's mutexes are fair, and every read has a deadline), control_center
answers and comes back after a restart. Nothing is
assumed about users, crashes or failures beyond their bounds.

### Divergences

`link_stuck` ends with a counterexample to a statement of a comment that the code does not keep
(quoted in `PROJECT.json`): with an unreachable broker Run waits for ever, and settings that were
corrected are not taken.

Others were met while modelling and can be reproduced by checking the invariant named here
with the constants named here:

- "Reversible" (cloud.go:20): nothing serialises PUT /system/cloud, and a disable that found the
  credential parked copies the stand-in over the one a concurrent enable has just restored
  (`Serial = FALSE`, two requests, `Faults = {}`, `MaxToggles = 3`; `VendorKept`).
- An enable that cannot remove a stand-in leaves the vendor's credential parked and reports
  success: the error of os.Remove is dropped, and with the stand-in in place the rename is skipped
  (cloud.go:102-106; `cloud_serial`, `ToggleComplete` without `\ left`).
- "An update that cannot get this far is rolled back" (main.go:200-201): a build that gets no
  function API stays up without web server and timer, and is neither confirmed nor rolled back
  (`slot_careful` with `Faults = {"noapi"}`;
  `(boot = "child" /\ image = link /\ marker \in Slots /\ marker # link) ~> (marker = "none")`).
- "A just-issued change taking precedence" (bridge.go:90-91): a refresh that read the robot before
  a change overwrites the cache after it, until the next tick (`mode_converges` with one setter
  and one refresher, `MaxFaults = 0`;
  `(\A a \in Actors : act[a].pc = "idle") /\ modeWant.active /\ modeWant.open => mode = modeWant.want`).
- "What makes a setting survive a control_center restart" (properties.go:20-23): a replay that
  copied the settings before a change is published after it, and control_center keeps the old
  value (`sim_sessions` with `MaxSets = 1`, `MaxFaults = 0`;
  `<>[](app # None /\ SettersIdle) => <>[]Agrees`).
- "UUID must equal the active map id or funcID 1006 rejects with result code 1" (mapio.go:30-32):
  the code is dropped (robotapi.go:52), and an edit that was rejected because the active map has
  changed is answered OK (`map_edit`;
  `[][\A e \in Editors : job[e].pc = "submit" /\ job'[e] = Idle /\ faults' = faults
      => file'[job[e].doc][active] = job[e].set]_vars`).
- Zones do not carry their map: the id sent with them is read after them (webapi/map.go:166,
  mapio.go:175), and after a change of map in between one map's zones replace the other's, past
  the guard (`RoomsStayOnMap` for `"zones"`).
- Two edits side by side: the later submission undoes the earlier edit (`AloneIsAtomic` without
  `alone[e]`). A request names rooms by id alone, so one made from another map's page is applied
  to the map in use.
- Two callers that refresh at once may each enable the service anew; the second invalidates the
  endpoint the first is about to use, and its call fails (`QuietCallSucceeds` without the enables
  of others).
- An answer that pauses for longer than the idle time is taken for complete, and its rest for the
  answer to the next command. "drainLocked consumes the welcome/onBegin bytes" (client.go:61): one
  that comes later than `readIdle` after the dial is taken for the answer to the first command,
  and each answer then for that to the next command. The same shift follows a second attempt
  that is answered late, as its connection is kept. It lasts until a command fails
  (`robot_calls` with any one of the three settings of `shifted` removed; `AnswersOwn`).
- An unreadable authorized_keys is replaced by the one key being added (`KeysByRequest` without
  `blind`). A toggle of SSH that reads sshd_config while another has truncated it writes it back
  without its other lines (ssh.go:189); this needs no model.
- A toggle that truncates sshd_config and then fails, while another is between the load and the
  return of its restart, leaves a success behind with no address in the file: sshd listens on all
  addresses at its next start, or already does, and the status page says disabled (ssh.go:26, 78-90)
  (`access`; `Running(Toggles) = {} => ~(config = "none" /\ sshd = "none")`).
- Two password changes that both name the current password both succeed, the later one over the
  earlier: Verify and the store are two critical sections.
- Power lost between the rename and the symlink of the first update leaves nothing at binPath
  and no marker, and the guard does not enter the loop (`FreshInstall = TRUE`,
  `Faults = {"power"}`; `boot = "off" => WayBack`).
- After an enable the drain is stopped and update-robotic is only enabled, not started: nobody
  reads the OTA FIFOs until the next boot (`Faults = {}`;
  `up /\ AllIdle => drain \/ "update-robotic" \in active`).
- The timer of the old process clears the marker of an update installed within five seconds
  of a start (`Patient = FALSE`; the step of `Confirm` with `marker \in Slots /\ image # link`).
  This is why `WayBack` is checked and proved for patient users only.
- "If we get here with the marker still present the new build never came up, so switch back"
  (build-zip.sh:77-78): if the server ends between the truncation and the write of the marker, or
  after a write of it that failed, the marker is empty, and the shell, unlike Rollback, then links
  binPath to itself (`slot_careful` with `"exitCut"` among the `Faults`; `WayBack`,
  `BackInService`, `NoDowngrade`). No build is started any more, after a reboot neither.
- An update refused for its web archive has already switched and left the marker
  (`Faults = {"web"}`; `proc = "serving" /\ ~timer /\ AllIdle => marker = "none"`).
- A web server that failed to listen does not keep Confirm from confirming
  (`Faults = {"webFail"}`).
- Two first updates at once rename the new symlink over the adopted executable
  (`FreshInstall = TRUE`, `Serial = FALSE`, `FirstAlone = FALSE`; `RunningIntact`).
- A backup torn by a power loss is taken for the original by the next disable
  (`Faults = {"tear"}`; `VendorKept`).
- A unit that cannot be disabled, or an enable that fails, leaves the stand-ins off
  (`Faults = {"unit"}` or `{"file"}`; `StandInsActive`).
- After an interrupted disable the drain runs beside update-robotic
  (`Faults = {"power"}`; `~(drain /\ "update-robotic" \in active)`).
- With two requests at once the saved MQTT settings and those in force may differ
  (`Serial = FALSE`; `SettledAgrees`).
- A setting published but not yet stored when control_center restarts is replayed with its old
  value, and the new one is stored afterwards (`MaxSets = 1`, `MaxFaults = 1`; the formula above).

`Rollback` is described as what the boot loop calls; the loop does the same in shell.

## Proofs

All theorems hold for every value of the constants that satisfies the named assumptions.

`SlotUpdateProofs`:
`TypeCorrect` needs no assumption on the environment.
`RunningStaysIntact` and `AGoodBuildIsKept` hold for any number of concurrent requests and all
failures, from a symlink as from the installer's plain file, provided that the update that adopts
the plain file runs alone (`OneAdopts`, as in run `slot_any`; two first updates at once break it, see above). The inductive invariant has two phases. `Adopting` lasts while there is no symlink:
the installer's build is at binPath or, renamed, in slot A, the process runs it, nothing else is
installed or marked, and at most one request is at work, a failed adoption and the restarts after
it included. `Intact` follows and is never left: the file of a running process holds the build it
was started from, only good builds serve, and no slot being filled is the running one; the
kernel's refusal to open a running file does the rest.
`AlwaysAWayBack`, `UpdatedHasAWayBack`, `InstallIsComplete`, `ConfirmedStays` and
`UpdateIsAtomic` assume `CarefulUse`: one update at a time, after the timer, the server not ending while the marker
is cut short (power may be lost then, and the write of the marker may fail), no failing unlink,
nobody running Rollback by hand. Their
invariant `CarefulSinceInstall` again has two phases. `AdoptingCarefully` says how far the first
update from a plain file has come; its last step, the symlink, ends it (`AdoptionEnds`).
`Careful` relates the marker, the link, the process and the step a request is at; `WayBack` alone
is not inductive, because whether the fallback survives depends on which slot the request writes
next. Two results need more than `CarefulUse`. Between the rename of the plain file and the
symlink there is nothing at binPath, and a power loss there leaves nothing to boot: so
`AlwaysAWayBack` speaks of the states with something at binPath, and `UpdatedHasAWayBack`, of all
states, starts from a symlink. `UpdateIsAtomic` starts from a symlink too, as `AtomicUpdate` has
no state without a build.
`UpdateIsAtomic` maps every step to a step of `AtomicUpdate` or a stutter.

`CloudToggleProofs`:
`TypeCorrect` needs no assumption on the environment. `ToggleIsReversible` and
`KeyStaysPrivate` assume one toggle at a time and no torn file, and allow everything else:
crashes, failing commands, a stand-in that stays. The two properties are not inductive: whether
a put may overwrite an item, or a backup may be dropped, depends on where the request stands in
its plan. The invariant `Careful` adds that dependence (`OffProgress`: each item is set aside
before it is touched, and the local key is in place before names resolve to the local endpoint;
`OnProgress`: a backup is dropped only after it has been copied back, and past the flush names
do not resolve to the local endpoint, or an error was collected), that an item not set aside is
the vendor's (`Reversible`), that the files as they are at any instant are safe for
control_center to start on (`EndpointPrivate`), and that only one request is in progress
(`Alone`). `Where` gives the plan positions at which each step can be taken.

`SuccessIsComplete` assumes one toggle at a time and nothing else, torn files included: more than
the run allows. "A toggle that reported success did all of it", the credential put back
wherever its stand-in could be removed, is the end of a plan of sixteen
steps, so the invariant `Complete` says how much of it each step has behind it, or an error was
collected: `FilesOff` and `FilesOn` for the files, `UnitsSoFar` for the five systemd units one by
one, `SetAside` for what may be in a backup at all, and `Reported` that an outcome is there only
while nothing is in progress. `StandInsTakeOver` adds that no step fails (`StepsSucceed`; power
losses, crashes, torn files and a missing simulator remain) and, to `Complete`, that no error was
collected, that no stand-in stayed (`left = {}`, from which each enable that succeeded put the
whole credential back) and that a running idle server stands in when the cloud is off
(`StandIns`).

`AccessProofs`: no assumption on the environment. The invariant says who holds which mutex
(`Holders`), that the holder of keyMu has read the lines the file still has and has written what
the request makes of them (`KeysFollow`), and that memory and file of the password differ only
between the rename and the assignment after it (`StoreFollows`). `SSHAsSaved` speaks of the end of
the toggles only; `SSHFollows` says why it comes true: unless one has failed, the file has the
address of one of them or one has yet to write it, and sshd has loaded the file or one has yet to
restart it. `NoLineIsLost` and `NoSecondSetup` are action properties and follow from the invariant
and the step.

`RobotCallsProofs`: no assumption on the environment. `ExecutedOnce` needs a count of what is
under way (`Counted`), `AnswersOwn` that at most one command is on a connection that has not
been given up, with everything queued or received belonging to it (`OneAtATime`), and
`QuietCallSucceeds` a description of every stage of a call that nothing disturbs
(`ServedFor`): where the connection, the service and the known endpoint stand after its first
attempt, the enable, the print and before its second attempt.

`MqttLinkProofs`: `SettledIsSaved` assumes `Serial`. `SettledAgrees` is not inductive: the
settings that are coming (in the channel, else taken from it, else in use) are the saved ones,
or the handler that will hand them over holds them (`ComingIsSaved`).

`CloudSimProofs`: no assumption on the order of connections. `SessionIsServed` is inductive
with the types of what it mentions; `StoredWasSent` needs that the value a request is about to
store was sent, and that the file, from which a restart reads, holds only such values.

`MapEditProofs`: every set of editors, maps, names, kinds and lines, every grid, and every
`Redraw` and `Halves` that return masks (`RedrawAssumption`, `HalvesAssumption`; that `Redrawn`
and `SplitByLine`, which the run gives them as values, do so is proved too: `RedrawnIsAMask`,
`HalvesAreMasks` of `MapGeoProofs`), started on maps whose rooms and zones have ids of their own (`DrawnAssumption`). First what the edits do to a
set: `AmongLists` (sorting out keeps each member once and in place), `NextIdIsNew` and
`NextNumberIsNew` (one above the highest is free), `MergeKeeps` and `SplitKeeps`, and
`WithGraphMatches`; together `EditedRooms` and `EditedZones`: what an accepted request makes of
a good set is good. The invariant says that every set held or about to be submitted is good
(`FileGood`, `JobsFit`): a stale set is consistent in itself, which is why overlapping edits lose
each other's work but never ids or graphs. Rooms carry their map (`Fit`), and an edit by itself
is `InTime`: it will submit what its request makes of the set held, has backed that up from the
backup on, and once an answer was lost the set held is either still that one or the submitted
one. `RoomsKeepTheirMap` and `LoneEditsAreAtomic` follow for the step that stores.

`MapGeoProofs`: every grid, every origin, every mask and every split line. None of it is about
steps, and all of it about what recursive definitions compute.

- *Induction.* An induction theorem of the library takes its predicate as an operator, which the
  provers cannot instantiate, but induction over a *set* of numbers can be derived from the
  well-founded order on finite sets: `Least` and `Induct`, and from these `Iterates`, that a step
  can be taken for ever. That gives the recursive functions in `Component`, `Walk`, `Total` and
  `douglasPeucker` their equations (a CHOOSE of a solution is one, once a solution is known to
  exist: `ComponentIsLayer`, `KeptRecurs`).
- *Components.* `FillIsComplete`: as many layers as the mask has cells suffice, since a layer that
  adds nothing is the last and every other adds a cell. With the symmetry of `Near` components are
  disjoint or equal (`ComponentsAreApart`), and the scan's choice among the largest is unique
  (`LargestComponentIsUnique`), so that the CHOOSE in `largestComponent` leaves nothing open.
- *Cells of a polygon.* `RasterizeIsExact`: a point left of all corners is crossed by as many sides
  upwards as downwards (`LeftIsOutside`), so the bounds lose nothing.
- *Loops.* The argument is by winding numbers. For a closed trail of cell sides, `Winding` counts
  the vertical sides to the right of a cell, with their direction. The number changes between
  neighbours only across a side of the trail, so it is the same all over a component, zero outside
  the holes, and its sum over the cells is the area `cornerArea` computes (`AreaIsWinding`); the
  parity `pointInPoly` computes is that of the winding number (`InsideIsWinding`). At each corner
  as many sides arrive as leave (`CornersBalance`), so every loop of the walk closes
  (`RunsClose`). The component lies on the right of all its sides, so a loop winds around all of
  it once or not at all; exactly one does, the one with its topmost side, and it has the largest
  area (`AreaLarger`): that is the loop `OuterLoop` takes. `OutlineIsExact` is a discrete Jordan
  curve theorem for the walk of the code, pinches included.
- *Simplification.* What `douglasPeucker` keeps runs in flat steps: no corner between two kept
  ones is above 0.75 of a cell from their chord (`Tolerance`). A piece of the trail that close to
  its chord, and without a side of cell p, crosses the ray from p to the right as the chord does,
  counted with direction (`PieceCrossing`: upwards or downwards from p if the chord is rather
  level, to the left or right if it is rather steep, there is a way that the piece could cross
  only at a side of p itself, and the crossings of the ray are the growth of a count along that
  way). So a cell that the trail does not touch is inside the polygon when the trail
  winds around it (`SimplifiedInside`), and a cell that the room has, or lacks, together with its
  neighbours is not touched: `SimplifiedKeeps`. This uses 0.75 < 1 and nothing finer; `AboveEps`
  with a tolerance of 1.5 violates `RoomKept`.
- *Theorems of the specification.* `OutlinesEnclose`, `RoomsAreKept` and `SplitRoomsApart` follow
  with the invariant that the drawn area is a mask. For the last (`HalvesStayApart`), a cell of one
  half without neighbours in the other is not touched by the other's room, and not in a hole of
  it: upwards or downwards from it all cells are on its side of the line.

Only model-checked:

- the liveness properties (`BackInService`, `TakesEffect`, `LinkUp`, `StopHonoured`,
  `Converges`, `SessionFound`, `ReplaySettles`, `CallsEnd`): fairness and ENABLED are out of the
  prover's reach;
- `RoomStays`: that thin rooms do not vanish depends on how the first two chords are cut, and
  says nothing about any one cell; the argument of `SimplifiedKeeps` does not reach it;
- of `CleanMode` everything: its one property is a liveness property.

## Plan

1. Done: `SlotUpdate`, `CloudToggle` with proofs, `MqttLink`, `CleanMode`, `CloudSim`, `MapGeo`,
   `MapEdit`, `RobotCalls`, `Access`.
2. Done: proofs of every safety property of the runs but `RoomStays`.
3. Not started, in this order: Check and Apply with the status the UI polls; the simulator's
   certificates (a start after a torn write); Home Assistant commands with the pending state;
   which bags a pruning pass removes; the settings schema.

Not modelled and not planned: parsing of terminal output, cleaning tracks, discovery payloads,
the Svelte UI and the build scripts, which keep no state and take part in no protocol.
