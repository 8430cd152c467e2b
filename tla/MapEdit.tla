------------------------------- MODULE MapEdit -------------------------------
(***************************************************************************)
(* Map edits: rooms are renamed, merged and split, zones added, updated    *)
(* and deleted.  Every edit reads the whole file, changes its copy, backs  *)
(* the file up and submits the whole copy to control_center (funcID 1006   *)
(* for rooms, 1007 for zones), which stores it if the map id that comes    *)
(* with it is that of the active map.  Requests run side by side, and      *)
(* nothing orders them; meanwhile the robot may take up another map.       *)
(***************************************************************************)
EXTENDS MapCells, SequencesExt

CONSTANTS Editors,        \* concurrent edit requests
          Maps,           \* the maps the robot knows
          Names,          \* room names
          Kinds,          \* kinds of zones
          Lines,          \* split lines
          Redraw(_),      \* the cells of the polygon Contour makes of a mask
          Halves(_, _),   \* SplitByLine: a mask, a line
          FirstRooms,     \* the rooms the robot drew, for each map
          FirstZones,     \* the zones it has, for each map
          Torn,           \* a backup a restart has cut short
          MaxEdits,       \* bound on the number of edits
          MaxFaults       \* bound on lost answers, restarts and changes of the active map

ASSUME RedrawAssumption ==
  \A m \in Masks : Redraw(m) \in Masks
ASSUME HalvesAssumption ==
  \A m \in Masks, l \in Lines : Halves(m, l)[1] \in Masks /\ Halves(m, l)[2] \in Masks
ASSUME BoundsAssumption == MaxEdits \in Nat /\ MaxFaults \in Nat

VARIABLES
  active,   \* the map in use, whose files are those in the map directory
  file,     \* what the robot holds: file["rooms"][m], file["zones"][m]
  backup,   \* labels.json.mundus.bak and markers.json.mundus.bak
  job,      \* each edit: its step, its document, the request and the set it submits
  alone,    \* history: no other edit and no change of map since the edit began
  edits,    \* edits so far
  faults    \* faults so far

vars == <<active, file, backup, job, alone, edits, faults>>

Docs == {"rooms", "zones"}
Room == [id : Nat, name : Names, cells : Masks, graph : SUBSET Nat]
Zone == [kind : Kinds, num : Nat, redrawn : BOOLEAN]
Idle == [pc |-> "idle"]

\* What is drawn on a map has ids of its own.
RoomIdsDiffer(rooms) == \A i, j \in DOMAIN rooms : rooms[i].id = rooms[j].id => i = j
ZoneIdsDiffer(zones) ==
  \A i, j \in DOMAIN zones : zones[i].kind = zones[j].kind /\ zones[i].num = zones[j].num => i = j

ASSUME DrawnAssumption ==
  /\ FirstRooms \in [Maps -> Seq(Room)] /\ FirstZones \in [Maps -> Seq(Zone)]
  /\ \A m \in Maps : RoomIdsDiffer(FirstRooms[m]) /\ ZoneIdsDiffer(FirstZones[m])

\* The members of a set of rooms or zones that are in S, in their order.
Among(set, S) ==
  LET at == {i \in DOMAIN set : set[i] \in S}
      Nth(k) == CHOOSE i \in at : Cardinality({j \in at : j <= i}) = k
  IN  [k \in 1..Cardinality(at) |-> set[Nth(k)]]

-----------------------------------------------------------------------------
(* Edits of a set of rooms                                                 *)

\* Mutant of WithGraph: only rooms without a graph get one.
WithNewGraphs(rooms) ==
  LET adj == BuildAdjacency([i \in DOMAIN rooms |-> rooms[i].cells])
  IN  [i \in DOMAIN rooms |-> IF rooms[i].graph # {} THEN rooms[i] ELSE [rooms[i] EXCEPT !.graph = adj[i]]]

\* applyLabels: the adjacency of every room, as positions in the new set.
WithGraph(rooms) ==
  LET adj == BuildAdjacency([i \in DOMAIN rooms |-> rooms[i].cells])
  IN  [i \in DOMAIN rooms |-> [rooms[i] EXCEPT !.graph = adj[i]]]

NewRoom(id, name, cells) == [id |-> id, name |-> name, cells |-> cells, graph |-> {}]
IdsOf(rooms) == {rooms[i].id : i \in DOMAIN rooms}
RoomsWith(rooms, ids) == Among(rooms, {r \in Range(rooms) : r.id \in ids})

\* Mutant of nextRoomID: the number of rooms gives the new id.
NextRoomIDByCount(rooms) == Len(rooms) + 1

nextRoomID(rooms) == Max(IdsOf(rooms) \cup {0}) + 1

Rename(rooms, in) ==
  [i \in DOMAIN rooms |-> IF rooms[i].id = in.id THEN [rooms[i] EXCEPT !.name = in.name] ELSE rooms[i]]

\* The first of the merged rooms lends its id to what the polygon keeps of them.
mergeRooms(rooms, in) ==
  LET picked == RoomsWith(rooms, in.ids)
      rest == RoomsWith(rooms, IdsOf(rooms) \ in.ids)
  IN  Append(rest, NewRoom(picked[1].id, in.name, Redraw(Union([i \in DOMAIN picked |-> picked[i].cells]))))

splitRoom(rooms, in) ==
  LET target == CHOOSE r \in Range(rooms) : r.id = in.id
      rest == RoomsWith(rooms, IdsOf(rooms) \ {in.id})
      half == Halves(target.cells, in.line)
  IN  rest \o <<NewRoom(in.id, target.name, Redraw(half[1])),
                NewRoom(nextRoomID(rooms), in.name, Redraw(half[2]))>>

\* The requests the handlers accept for a set of rooms: known ids, at least
\* two rooms to merge, a line with cells on both sides.
RoomRequests(rooms) ==
  LET ids == IdsOf(rooms)
      Split(id, l) == \E r \in Range(rooms) : r.id = id /\ {} \notin {Halves(r.cells, l)[1], Halves(r.cells, l)[2]}
  IN  [op : {"rename"}, id : ids, name : Names]
        \cup [op : {"merge"}, ids : {s \in SUBSET ids : Cardinality(s) >= 2}, name : Names]
        \cup {in \in [op : {"split"}, id : ids, line : Lines, name : Names] : Split(in.id, in.line)}

-----------------------------------------------------------------------------
(* Edits of a set of zones                                                 *)

NextMarkerID(zones, kind) ==
  Max({-1} \cup {zones[i].num : i \in {j \in DOMAIN zones : zones[j].kind = kind}}) + 1

IsZone(z, in) == z.kind = in.kind /\ z.num = in.num

addZone(zones, in) ==
  Append(zones, [kind |-> in.kind, num |-> NextMarkerID(zones, in.kind), redrawn |-> FALSE])
updateZone(zones, in) ==
  [i \in DOMAIN zones |-> IF IsZone(zones[i], in) THEN [zones[i] EXCEPT !.redrawn = TRUE] ELSE zones[i]]
deleteZone(zones, in) == Among(zones, {z \in Range(zones) : ~IsZone(z, in)})

ZoneRequests(zones) ==
  [op : {"add"}, kind : Kinds]
    \cup {in \in [op : {"update", "delete"}, kind : Kinds, num : {zones[i].num : i \in DOMAIN zones}] :
            \E i \in DOMAIN zones : IsZone(zones[i], in)}

\* The set an edit submits, made from the one it has read.
Edited(set, in) ==
  CASE in.op = "rename" -> WithGraph(Rename(set, in))
    [] in.op = "merge"  -> WithGraph(mergeRooms(set, in))
    [] in.op = "split"  -> WithGraph(splitRoom(set, in))
    [] in.op = "add"    -> addZone(set, in)
    [] in.op = "update" -> updateZone(set, in)
    [] in.op = "delete" -> deleteZone(set, in)

-----------------------------------------------------------------------------
(* Requests in progress                                                    *)

Held(doc) == file[doc][active]   \* ReadLabels, ReadMarkers
Busy(e) == job[e].pc # "idle"

\* Mutant of FirstStep: the map id is read after the rooms.
FirstStepWithID(doc) == "mapid"

\* A set of rooms carries the id of its map; that of a set of zones is read next.
FirstStep(doc) == IF doc = "rooms" THEN "backup" ELSE "mapid"

\* Mutant of Snapshot: the set to submit is what is backed up.
SnapshotOfEdit(e) == job[e].set

Snapshot(e) == Held(job[e].doc)

\* Mutant of BackupPath: both documents are backed up to one file.
OneBackupPath(e) == "rooms"

BackupPath(e) == job[e].doc

Others(e) == {f \in Editors \ {e} : Busy(f)}

\* The file is read and the edit worked out.
Begin(e, doc, in) ==
  /\ ~Busy(e) /\ edits < MaxEdits
  /\ in \in (IF doc = "rooms" THEN RoomRequests(Held(doc)) ELSE ZoneRequests(Held(doc)))
  /\ job' = [job EXCEPT ![e] = [pc |-> FirstStep(doc), doc |-> doc, in |-> in, home |-> active, uuid |-> active,
                                set |-> Edited(Held(doc), in), copy |-> <<>>]]
  /\ alone' = [f \in Editors |-> IF f = e THEN Others(e) = {} ELSE alone[f] /\ ~Busy(f)]
  /\ edits' = edits + 1
  /\ UNCHANGED <<active, file, backup, faults>>

ReadMapID(e) ==
  /\ job[e].pc = "mapid"
  /\ job' = [job EXCEPT ![e].pc = "backup", ![e].uuid = active]
  /\ UNCHANGED <<active, file, backup, alone, edits, faults>>

\* BackupLabels, BackupMarkers: the file is read anew, then written.
BackupRead(e) ==
  /\ job[e].pc = "backup"
  /\ job' = [job EXCEPT ![e].pc = "save", ![e].copy = Snapshot(e)]
  /\ UNCHANGED <<active, file, backup, alone, edits, faults>>

BackupWrite(e) ==
  /\ job[e].pc = "save"
  /\ backup' = [backup EXCEPT ![BackupPath(e)] = job[e].copy]
  /\ job' = [job EXCEPT ![e].pc = "submit"]
  /\ UNCHANGED <<active, file, alone, edits, faults>>

\* The id cannot be read, or the backup read or written: the edit ends before
\* it is submitted, and os.WriteFile may have cut the backup short.
Abandon(e) ==
  /\ job[e].pc \in {"mapid", "backup", "save"} /\ faults < MaxFaults
  /\ job' = [job EXCEPT ![e] = Idle]
  /\ \/ UNCHANGED backup
     \/ job[e].pc = "save" /\ backup' = [backup EXCEPT ![BackupPath(e)] = Torn]
  /\ faults' = faults + 1
  /\ UNCHANGED <<active, file, alone, edits>>

\* control_center answers code 1, and stores nothing, when the id is not that
\* of the active map.
Stored(e) == IF job[e].uuid = active THEN [file EXCEPT ![job[e].doc][active] = job[e].set] ELSE file

\* Whatever the code of the answer, the request has succeeded.
Submit(e) ==
  /\ job[e].pc \in {"submit", "retry"}
  /\ file' = Stored(e)
  /\ job' = [job EXCEPT ![e] = Idle]
  /\ UNCHANGED <<active, backup, alone, edits, faults>>

\* No answer: Func acquires a new endpoint and submits the same set once more,
\* unless the terminal does not answer either.
Unanswered(e) ==
  /\ job[e].pc \in {"submit", "retry"} /\ faults < MaxFaults
  /\ file' \in {file, Stored(e)}
  /\ \/ job[e].pc = "submit" /\ job' = [job EXCEPT ![e].pc = "retry"]
     \/ job' = [job EXCEPT ![e] = Idle]
  /\ faults' = faults + 1
  /\ UNCHANGED <<active, backup, alone, edits>>

\* The robot takes up another map.
SwitchMap(m) ==
  /\ m # active /\ faults < MaxFaults
  /\ active' = m
  /\ alone' = [e \in Editors |-> FALSE]
  /\ faults' = faults + 1
  /\ UNCHANGED <<file, backup, job, edits>>

\* The server restarts: the edits are gone, a backup being written is cut short.
Restart ==
  /\ faults < MaxFaults /\ \E e \in Editors : Busy(e)
  /\ job' = [e \in Editors |-> Idle]
  /\ \E cut \in SUBSET {job[e].doc : e \in {f \in Editors : job[f].pc = "save"}} :
       backup' = [d \in Docs |-> IF d \in cut THEN Torn ELSE backup[d]]
  /\ faults' = faults + 1
  /\ UNCHANGED <<active, file, alone, edits>>

Init ==
  /\ active \in Maps
  /\ file = [rooms |-> [m \in Maps |-> WithGraph(FirstRooms[m])], zones |-> FirstZones]
  /\ backup = [d \in Docs |-> <<>>]
  /\ job = [e \in Editors |-> Idle]
  /\ alone = [e \in Editors |-> FALSE]
  /\ edits = 0 /\ faults = 0

Next ==
  \/ \E e \in Editors :
       \/ \E in \in RoomRequests(Held("rooms")) : Begin(e, "rooms", in)
       \/ \E in \in ZoneRequests(Held("zones")) : Begin(e, "zones", in)
       \/ ReadMapID(e) \/ BackupRead(e) \/ BackupWrite(e) \/ Abandon(e)
       \/ Submit(e) \/ Unanswered(e)
  \/ \E m \in Maps : SwitchMap(m)
  \/ Restart

Spec == Init /\ [][Next]_vars

-----------------------------------------------------------------------------
(* Properties                                                              *)

\* Sets, copies and backups are sets of the document they belong to.
TypeOK ==
  LET SetOf(doc) == IF doc = "rooms" THEN Seq(Room) ELSE Seq(Zone)
  IN  /\ active \in Maps
      /\ \A d \in Docs : (\A m \in Maps : file[d][m] \in SetOf(d)) /\ backup[d] \in SetOf(d) \cup {Torn}
      /\ \A e \in Editors : Busy(e) => job[e].set \in SetOf(job[e].doc) /\ job[e].copy \in SetOf(job[e].doc)
      /\ alone \in [Editors -> BOOLEAN]
      /\ edits \in 0..MaxEdits /\ faults \in 0..MaxFaults

\* No two rooms of a map share an id and no two zones do, whatever has been
\* merged, split, deleted and added before: commands name rooms by id.
IdsUnique ==
  \A m \in Maps : RoomIdsDiffer(file["rooms"][m]) /\ ZoneIdsDiffer(file["zones"][m])

\* The graph of every room names, by position, exactly the rooms of the same set
\* that touch it, although merges and splits move the rooms about in the set.
GraphMatches ==
  \A m \in Maps : LET rooms == file["rooms"][m] IN
    \A i, j \in DOMAIN rooms : i # j => (j \in rooms[i].graph <=> Adjacent(rooms[i].cells, rooms[j].cells))

\* A room set is stored on no other map than the one it was read from.
StoresAtHome ==
  \A e \in Editors : file' # file /\ job[e].pc \in {"submit", "retry"} /\ job'[e] # job[e] /\ job[e].doc = "rooms"
    => job[e].home = active
RoomsStayOnMap == [][StoresAtHome]_vars

Stores(e, doc) == job[e].pc \in {"submit", "retry"} /\ job'[e] # job[e] /\ job[e].doc = doc /\ file'[doc] # file[doc]

\* An edit with no other beside it is atomic: what it stores is what its request
\* makes of the set it replaces, and the backup holds that set.
StoresItsEdit ==
  \A e \in Editors, d \in Docs : Stores(e, d) /\ alone[e]
    => /\ file'[d][active] = Edited(Held(d), job[e].in)
       /\ backup[d] = Held(d)
AloneIsAtomic == [][StoresItsEdit]_vars
=============================================================================
