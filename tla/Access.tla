-------------------------------- MODULE Access --------------------------------
(***************************************************************************)
(* Who may reach the robot: the admin password (auth.Store), the lines of  *)
(* authorized_keys and the address sshd listens on (System).               *)
(*                                                                         *)
(* HTTP requests change them concurrently.  The password and the keys are  *)
(* each guarded by a mutex and replaced by a rename; sshd_config is neither*)
(* guarded nor replaced but truncated and written by `sudo tee`, and takes *)
(* effect when sshd restarts.  The server may end, and power may be lost,  *)
(* between any two steps.                                                  *)
(***************************************************************************)
EXTENDS FiniteSets, Naturals

CONSTANTS Reqs,        \* HTTP requests
          Keys,        \* public keys, each a line of authorized_keys
          OwnLines,    \* other lines: comments, keys with options
          Passwords,
          None,        \* no password, nobody holds a mutex
          MaxRequests, \* bound on the requests
          MaxFaults    \* bound on failing calls, exits and power losses

ASSUME AccessAssumption ==
  /\ Keys \cap OwnLines = {} /\ None \notin Reqs \cup Passwords
  /\ MaxRequests \in Nat /\ MaxFaults \in Nat

Lines == Keys \cup OwnLines
Toggles == {"enable", "disable"}

VARIABLES
  up,        \* the server runs
  req,       \* each request: what it asks, its step and what it has read
  keyMu,     \* who holds System.keyMu
  authKeys,  \* the lines of authorized_keys
  keyTmp,    \* the lines of .authorized_keys.tmp
  blind,     \* history: a request went on without the lines it could not read
  authMu,    \* who holds Store.mu for writing
  hash,      \* Store.hash, as the password it matches
  stored,    \* the password in the store's file
  storeTmp,  \* that in its .tmp
  config,    \* the listen address in sshd_config
  sshd,      \* the address of the configuration sshd runs with, or "down"
  toggled,   \* history: the latest toggles of SSH that overlapped, {} if one of them failed
  requests, faults

keyv == <<keyMu, authKeys, keyTmp, blind>>
authv == <<authMu, hash, stored, storeTmp>>
sshv == <<config, sshd, toggled>>
vars == <<up, req, keyv, authv, sshv, requests, faults>>

-----------------------------------------------------------------------------
(* Requests                                                                *)

Ended == {"idle", "ok", "error"}
NoRequest == [op |-> "none", step |-> "idle", arg |-> None, cur |-> None, lines |-> {}]

Running(ops) == {r \in Reqs : req[r].op \in ops /\ req[r].step \notin Ended}
Fails == faults < MaxFaults /\ faults' = faults + 1
Works == UNCHANGED faults

Goto(r, step) == req' = [req EXCEPT ![r].step = step]

\* The toggles that overlap: a new one joins those in progress, one of which may have failed.
Joined(op) ==
  IF op \notin Toggles THEN toggled
  ELSE IF Running(Toggles) = {} THEN {op}
  ELSE IF toggled = {} THEN {} ELSE toggled \cup {op}

Begin(r, op, arg, cur, step) ==
  /\ up /\ req[r].step \in Ended /\ requests < MaxRequests
  /\ req' = [req EXCEPT ![r] = [NoRequest EXCEPT !.op = op, !.step = step, !.arg = arg, !.cur = cur]]
  /\ requests' = requests + 1
  /\ toggled' = Joined(op)
  /\ UNCHANGED <<up, keyv, authv, config, sshd, faults>>

-----------------------------------------------------------------------------
(* authorized_keys                                                         *)

AddKey(r) == \E k \in Keys : Begin(r, "add", k, None, "keyLock")
RemoveKey(r) == \E k \in Keys : Begin(r, "remove", k, None, "keyLock")

\* Mutant of KeyFree: the keys are not locked.
Unguarded == TRUE

KeyFree == keyMu = None

KeyLock(r) ==
  /\ req[r].step = "keyLock" /\ KeyFree
  /\ keyMu' = r
  /\ Goto(r, IF req[r].op = "add" THEN "list" ELSE "read")
  /\ UNCHANGED <<up, authKeys, keyTmp, blind, authv, sshv, requests, faults>>

KeyReturn(r, result) == Goto(r, result) /\ keyMu' = None

\* listKeys: a key that is there already is not added again.
List(r) ==
  /\ req[r].step = "list"
  /\ \/ Works /\ IF req[r].arg \in authKeys THEN KeyReturn(r, "ok") ELSE Goto(r, "read") /\ UNCHANGED keyMu
     \/ Fails /\ Goto(r, "read") /\ UNCHANGED keyMu
  /\ UNCHANGED <<up, authKeys, keyTmp, blind, authv, sshv, requests>>

\* keyLines: a file that cannot be read has no lines.
Read(r) ==
  /\ req[r].step = "read"
  /\ \/ Works /\ req' = [req EXCEPT ![r].step = "keyWrite", ![r].lines = authKeys] /\ UNCHANGED blind
     \/ Fails /\ Goto(r, "keyWrite") /\ blind' = TRUE
  /\ UNCHANGED <<up, keyMu, authKeys, keyTmp, authv, sshv, requests>>

Edited(q, lines) == IF q.op = "add" THEN lines \cup {q.arg} ELSE lines \ {q.arg}

KeyWrite(r) ==
  /\ req[r].step = "keyWrite"
  /\ \/ Works /\ keyTmp' = Edited(req[r], req[r].lines) /\ Goto(r, "keyRename") /\ UNCHANGED keyMu
     \/ Fails /\ KeyReturn(r, "error") /\ UNCHANGED keyTmp
  /\ UNCHANGED <<up, authKeys, blind, authv, sshv, requests>>

KeyRename(r) ==
  /\ req[r].step = "keyRename"
  /\ \/ Works /\ authKeys' = keyTmp /\ KeyReturn(r, "ok")
     \/ Fails /\ KeyReturn(r, "error") /\ UNCHANGED authKeys
  /\ UNCHANGED <<up, keyTmp, blind, authv, sshv, requests>>

-----------------------------------------------------------------------------
(* The admin password                                                      *)

Setup(r) == \E p \in Passwords : Begin(r, "setup", p, None, "setup")
ChangePassword(r) ==
  \E cur, p \in Passwords : Begin(r, "change", p, cur, "verify")

\* Mutant of SetupLock: the check comes before the lock.
CheckThenLock(r) ==
  /\ req[r].step = "setup"
  /\ IF hash = None THEN Goto(r, "authLock") ELSE Goto(r, "error")
  /\ UNCHANGED authMu

SetupLock(r) ==
  /\ req[r].step = "setup" /\ authMu = None
  /\ IF hash = None THEN authMu' = r /\ Goto(r, "authWrite") ELSE Goto(r, "error") /\ UNCHANGED authMu

SetupChecks(r) ==
  /\ SetupLock(r)
  /\ UNCHANGED <<up, hash, stored, storeTmp, keyv, sshv, requests, faults>>

\* Verify compares with the hash it has read under the lock, ...
Verify(r) ==
  /\ req[r].step = "verify" /\ authMu = None
  /\ Goto(r, IF hash # None /\ hash = req[r].cur THEN "authLock" ELSE "error")
  /\ UNCHANGED <<up, authv, keyv, sshv, requests, faults>>

\* ... which ChangePassword takes again afterwards.
AuthLock(r) ==
  /\ req[r].step = "authLock" /\ authMu = None
  /\ authMu' = r
  /\ Goto(r, "authWrite")
  /\ UNCHANGED <<up, hash, stored, storeTmp, keyv, sshv, requests, faults>>

AuthReturn(r, result) == Goto(r, result) /\ authMu' = None

\* storeLocked: a password that is too short, or a file that cannot be written.
AuthWrite(r) ==
  /\ req[r].step = "authWrite"
  /\ \/ Works /\ storeTmp' = req[r].arg /\ Goto(r, "authRename") /\ UNCHANGED authMu
     \/ (Fails \/ Works) /\ AuthReturn(r, "error") /\ UNCHANGED storeTmp
  /\ UNCHANGED <<up, hash, stored, keyv, sshv, requests>>

\* Mutant of HashAfter: the hash changes before the file.
HashEarly(r) == hash' = req[r].arg

HashAfter(r) == UNCHANGED hash

AuthRename(r) ==
  /\ req[r].step = "authRename"
  /\ \/ Works /\ stored' = storeTmp /\ Goto(r, "authKeep") /\ UNCHANGED authMu
     \/ Fails /\ AuthReturn(r, "error") /\ UNCHANGED stored
  /\ HashAfter(r)
  /\ UNCHANGED <<up, storeTmp, keyv, sshv, requests>>

AuthKeep(r) ==
  /\ req[r].step = "authKeep"
  /\ hash' = req[r].arg
  /\ AuthReturn(r, "ok")
  /\ UNCHANGED <<up, stored, storeTmp, keyv, sshv, requests, faults>>

-----------------------------------------------------------------------------
(* SetSSHEnabled                                                           *)

Addr(op) == IF op = "enable" THEN "all" ELSE "local"

SetSSHEnabled(r) == \E op \in Toggles : Begin(r, op, None, None, "sshRead")

ToggleFailed(r) == Goto(r, "error") /\ toggled' = {}

SSHRead(r) ==
  /\ req[r].step = "sshRead"
  /\ \/ Works /\ Goto(r, "sshOpen") /\ UNCHANGED toggled
     \/ Fails /\ ToggleFailed(r)
  /\ UNCHANGED <<up, keyv, authv, config, sshd, requests>>

\* tee truncates the file: without an address sshd listens on all of them ...
SSHOpen(r) ==
  /\ req[r].step = "sshOpen"
  /\ \/ Works /\ config' = "none" /\ Goto(r, "sshFill") /\ UNCHANGED toggled
     \/ Fails /\ ToggleFailed(r) /\ UNCHANGED config
  /\ UNCHANGED <<up, keyv, authv, sshd, requests>>

\* ... and writes it from the start.
SSHFill(r) ==
  /\ req[r].step = "sshFill"
  /\ \/ Works /\ config' = Addr(req[r].op) /\ Goto(r, "sshRestart") /\ UNCHANGED toggled
     \/ Fails /\ ToggleFailed(r) /\ UNCHANGED config
  /\ UNCHANGED <<up, keyv, authv, sshd, requests>>

\* Mutant of RestartFailed: the error is ignored.
Ignored(r) == Goto(r, "ok") /\ UNCHANGED toggled

RestartFailed(r) == ToggleFailed(r)

\* systemctl restart: sshd is stopped and started on the file as it is then, ...
SSHRestart(r) ==
  /\ req[r].step = "sshRestart"
  /\ \/ Works /\ sshd' = config /\ Goto(r, "sshReturn") /\ UNCHANGED toggled
     \/ Fails /\ sshd' \in {sshd, "down"} /\ RestartFailed(r)
  /\ UNCHANGED <<up, keyv, authv, config, requests>>

\* ... and only then does systemctl return, and the request with it.
SSHReturn(r) ==
  /\ req[r].step = "sshReturn"
  /\ \/ Works /\ Goto(r, "ok") /\ UNCHANGED toggled
     \/ Fails /\ RestartFailed(r)
  /\ UNCHANGED <<up, keyv, authv, config, sshd, requests>>

-----------------------------------------------------------------------------
(* The server and the robot                                                *)

Filling == {r \in Reqs : req[r].step = "sshFill"}
Restarting == {r \in Reqs : req[r].step = "sshRestart"}

\* Requests die with the server, and what they hold with them.
Dies ==
  /\ up' = FALSE
  /\ req' = [r \in Reqs |-> [req[r] EXCEPT !.step = IF @ \in Ended THEN @ ELSE "error"]]
  /\ keyMu' = None /\ authMu' = None /\ hash' = None
  /\ toggled' = IF Running(Toggles) = {} THEN toggled ELSE {}
  /\ UNCHANGED <<authKeys, keyTmp, blind, stored, storeTmp, requests>>

\* A tee that was fed, and a restart that was asked for, go on without the server.
Exit ==
  /\ up /\ Fails /\ Dies
  /\ config' \in {config} \cup {Addr(req[r].op) : r \in Filling}
  /\ sshd' \in {sshd} \cup (IF Restarting = {} THEN {} ELSE {config, config'})

Power ==
  /\ Fails /\ Dies
  /\ UNCHANGED config
  /\ sshd' = config

Start ==
  /\ ~up
  /\ up' = TRUE
  /\ hash' = stored
  /\ UNCHANGED <<req, keyv, authMu, stored, storeTmp, sshv, requests, faults>>

Init ==
  /\ up = TRUE
  /\ req = [r \in Reqs |-> NoRequest]
  /\ keyMu = None /\ authKeys \in {{}, OwnLines} /\ keyTmp = {} /\ blind = FALSE
  /\ authMu = None /\ hash = None /\ stored = None /\ storeTmp = None
  /\ config = "local" /\ sshd = "local"
  /\ toggled = {"disable"}
  /\ requests = 0 /\ faults = 0

Asks(r) == AddKey(r) \/ RemoveKey(r) \/ Setup(r) \/ ChangePassword(r) \/ SetSSHEnabled(r)
KeyStep(r) == KeyLock(r) \/ List(r) \/ Read(r) \/ KeyWrite(r) \/ KeyRename(r)
AuthStep(r) == SetupChecks(r) \/ Verify(r) \/ AuthLock(r) \/ AuthWrite(r) \/ AuthRename(r) \/ AuthKeep(r)
SSHStep(r) == SSHRead(r) \/ SSHOpen(r) \/ SSHFill(r) \/ SSHRestart(r) \/ SSHReturn(r)

Next ==
  \/ \E r \in Reqs : Asks(r) \/ KeyStep(r) \/ AuthStep(r) \/ SSHStep(r)
  \/ Exit \/ Power \/ Start

Spec == Init /\ [][Next]_vars

-----------------------------------------------------------------------------
(* Properties                                                              *)

KeySteps == {"list", "read", "keyWrite", "keyRename"}
AuthSteps == {"authWrite", "authRename", "authKeep"}
Steps == Ended \cup KeySteps \cup AuthSteps
           \cup {"keyLock", "setup", "verify", "authLock", "sshRead", "sshOpen", "sshFill", "sshRestart", "sshReturn"}

\* Each variable has its type, and whoever is at a guarded step holds the mutex.
TypeOK ==
  /\ up \in BOOLEAN /\ blind \in BOOLEAN /\ toggled \subseteq Toggles
  /\ authKeys \subseteq Lines /\ keyTmp \subseteq Lines
  /\ {hash, stored, storeTmp} \subseteq Passwords \cup {None}
  /\ config \in {"none", "all", "local"}
  /\ sshd \in {"none", "all", "local", "down"}
  /\ \A r \in Reqs : /\ req[r].step \in Steps
                     /\ req[r].step \in KeySteps <=> keyMu = r
                     /\ req[r].step \in AuthSteps <=> authMu = r
  /\ requests \in 0..MaxRequests /\ faults \in 0..MaxFaults

\* authorized_keys changes only by one request being applied to the lines it has at
\* that moment, and a request that succeeds has been applied ...
KeysApplied ==
  /\ authKeys' # authKeys =>
       \E r \in Running({"add", "remove"}) : authKeys' = Edited(req[r], authKeys)
  /\ \A r \in Running({"add", "remove"}) :
       req'[r].step = "ok" => authKeys' = Edited(req[r], authKeys)

\* ... so that no key added or removed meanwhile by another request, and no line
\* written by hand, is lost -- until a request could not read the file and took it
\* for empty.
KeysByRequest == [][~blind => KeysApplied]_vars

\* Once there is a password it is replaced only by a change, never by a setup that
\* raced with another or with a restart, and it is never lost.
SetupOnce ==
  [][ stored # None /\ stored' # stored =>
        \E r \in Running({"change"}) : stored' = req[r].arg ]_vars

\* The password that lets the user in is the one a restart will load, also after a
\* change that failed at any of its steps.
PasswordInForce == up /\ authMu = None => hash = stored

\* Toggles may overlap, and sshd may start on a file that one of them has truncated,
\* without an address: on all addresses, while the status page says disabled.  Once all
\* those that overlapped have succeeded, sshd listens at the saved address, which the
\* status page reports, and one of them asked for it.
SSHAsSaved ==
  Running(Toggles) = {} /\ toggled # {} =>
    \E op \in toggled : sshd = Addr(op) /\ config = Addr(op)
=============================================================================
