----------------------------- MODULE AccessProofs -----------------------------
(* Proofs about Access, for every set of requests, keys and passwords and  *)
(* every bound.                                                            *)
EXTENDS Access, TLAPS

-----------------------------------------------------------------------------
(* The inductive invariant                                                 *)

SSHSteps == {"sshRead", "sshOpen", "sshFill", "sshRestart", "sshReturn"}
Ops == {"none", "add", "remove", "setup", "change"} \cup Toggles
Request == [op : Ops, step : Steps, arg : Keys \cup Passwords \cup {None},
            cur : Passwords \cup {None}, lines : SUBSET Lines]

Typed ==
  /\ up \in BOOLEAN /\ blind \in BOOLEAN /\ toggled \in SUBSET Toggles
  /\ req \in [Reqs -> Request]
  /\ authKeys \in SUBSET Lines /\ keyTmp \in SUBSET Lines
  /\ hash \in Passwords \cup {None} /\ stored \in Passwords \cup {None}
  /\ storeTmp \in Passwords \cup {None}
  /\ config \in {"none", "all", "local"}
  /\ sshd \in {"none", "all", "local", "down"}
  /\ requests \in 0..MaxRequests /\ faults \in 0..MaxFaults

\* Each step belongs to the operations that go through it.
Doing ==
  \A r \in Reqs :
    /\ req[r].step \in KeySteps \cup {"keyLock"} => req[r].op \in {"add", "remove"} /\ req[r].arg \in Keys
    /\ req[r].step = "list" => req[r].op = "add"
    /\ req[r].step \in AuthSteps \cup {"setup", "verify", "authLock"} =>
         req[r].op \in {"setup", "change"} /\ req[r].arg \in Passwords
    /\ req[r].step = "setup" => req[r].op = "setup"
    /\ req[r].step \in {"verify", "authLock"} => req[r].op = "change"
    /\ req[r].step \in SSHSteps => req[r].op \in Toggles

\* Whoever is at a guarded step holds the mutex; a server that is down runs nothing.
Holders ==
  /\ \A r \in Reqs : /\ req[r].step \in KeySteps <=> keyMu = r
                     /\ req[r].step \in AuthSteps <=> authMu = r
  /\ ~up => \A r \in Reqs : req[r].step \in Ended

\* What the holder of keyMu has read and written is what the file has, and what
\* it is to have.
KeysFollow ==
  ~blind => \A r \in Reqs :
    /\ req[r].step = "keyWrite" => req[r].lines = authKeys
    /\ req[r].step = "keyRename" => keyTmp = Edited(req[r], authKeys)

\* The file is what the memory has, but for the moment after the rename; a setup
\* that goes on has found no password.
StoreFollows ==
  /\ \A r \in Reqs :
       /\ req[r].step = "authRename" => storeTmp = req[r].arg
       /\ req[r].step = "authKeep" => stored = req[r].arg
       /\ req[r].step \in {"authWrite", "authRename"} /\ req[r].op = "setup" => hash = None
  /\ up /\ (\A r \in Reqs : req[r].step # "authKeep") => hash = stored

\* While no overlapping toggle of SSH has failed: each asks for one of the noted states;
\* the file has the address of one, or a toggle has yet to write it; and sshd has loaded
\* the file, or a toggle has yet to restart it.
Pending(steps) == \E r \in Running(Toggles) : req[r].step \in steps
ToWrite == {"sshRead", "sshOpen", "sshFill"}
ToRestart == ToWrite \cup {"sshRestart"}

SSHFollows ==
  toggled # {} =>
    /\ \A r \in Running(Toggles) : req[r].op \in toggled
    /\ config \in {Addr(op) : op \in toggled} \/ Pending(ToWrite)
    /\ sshd = config \/ Pending(ToRestart)

IInv == Typed /\ Doing /\ Holders /\ KeysFollow /\ StoreFollows /\ SSHFollows

-----------------------------------------------------------------------------
(* How a step moves its request                                            *)

\* The request goes on at another step; what it asks stays.
Goes(r, s) ==
  /\ req' \in [Reqs -> Request]
  /\ req'[r].step = s
  /\ req'[r].op = req[r].op /\ req'[r].arg = req[r].arg /\ req'[r].cur = req[r].cur
  /\ \A q \in Reqs \ {r} : req'[q] = req[q]

LEMMA GotoGoes ==
  ASSUME Typed, NEW r \in Reqs, NEW s \in Steps, Goto(r, s)
  PROVE  Goes(r, s)
<1>1. req[r] \in Request
  BY DEF Typed
<1>2. req'[r] = [req[r] EXCEPT !.step = s]
  BY DEF Goto, Typed
<1>3. req'[r] \in Request
  BY <1>1, <1>2 DEF Request
<1> QED
  BY <1>1, <1>2, <1>3 DEF Goes, Goto, Typed, Request

\* A request that goes on does so alone.
LEMMA OneMoves ==
  ASSUME Typed, NEW r \in Reqs, NEW s, Goto(r, s)
  PROVE  req'[r].step = s /\ \A q \in Reqs \ {r} : req'[q] = req[q]
<1>1. req[r] \in Request
  BY DEF Typed
<1>2. req'[r] = [req[r] EXCEPT !.step = s]
  BY DEF Goto, Typed
<1> QED
  BY <1>1, <1>2 DEF Goto, Typed, Request

\* A new request: what it asks, at the first step of its operation.
Asked(r) ==
  /\ req[r].step \in Ended
  /\ req' \in [Reqs -> Request]
  /\ \A q \in Reqs \ {r} : req'[q] = req[q]
  /\ \/ req'[r].step = "keyLock" /\ req'[r].op \in {"add", "remove"} /\ req'[r].arg \in Keys
     \/ req'[r].step = "setup" /\ req'[r].op = "setup" /\ req'[r].arg \in Passwords
     \/ req'[r].step = "verify" /\ req'[r].op = "change" /\ req'[r].arg \in Passwords
     \/ req'[r].step = "sshRead" /\ req'[r].op \in Toggles

LEMMA BeginRecord ==
  ASSUME Typed, NEW r \in Reqs, NEW op \in Ops, NEW arg \in Keys \cup Passwords \cup {None},
         NEW cur \in Passwords \cup {None}, NEW s \in Steps, Begin(r, op, arg, cur, s)
  PROVE  /\ req[r].step \in Ended
         /\ req' \in [Reqs -> Request]
         /\ \A q \in Reqs \ {r} : req'[q] = req[q]
         /\ req'[r].step = s /\ req'[r].op = op /\ req'[r].arg = arg
         /\ UNCHANGED <<up, keyv, authv, config, sshd, faults>>
         /\ toggled' = Joined(op)
         /\ requests' \in 0..MaxRequests
<1>1. req'[r] = [op |-> op, step |-> s, arg |-> arg, cur |-> cur, lines |-> {}]
  BY DEF Begin, NoRequest, Typed
<1>2. req'[r] \in Request
  BY <1>1 DEF Request
<1>3. requests' \in 0..MaxRequests
  BY AccessAssumption DEF Begin, Typed
<1> QED
  BY <1>1, <1>2, <1>3 DEF Begin, Typed

LEMMA AsksAsk ==
  ASSUME Typed, NEW r \in Reqs, Asks(r)
  PROVE  /\ Asked(r) /\ UNCHANGED <<up, keyv, authv, config, sshd, faults>>
         /\ toggled' = Joined(req'[r].op)
         /\ requests' \in 0..MaxRequests
<1> USE DEF Asked, Ops, Steps, KeySteps, AuthSteps, Toggles
<1>1. CASE AddKey(r)
  BY <1>1, BeginRecord DEF AddKey
<1>2. CASE RemoveKey(r)
  BY <1>2, BeginRecord DEF RemoveKey
<1>3. CASE Setup(r)
  BY <1>3, BeginRecord DEF Setup
<1>4. CASE ChangePassword(r)
  BY <1>4, BeginRecord DEF ChangePassword
<1>5. CASE SetSSHEnabled(r)
  BY <1>5, BeginRecord DEF SetSSHEnabled
<1> QED
  BY <1>1, <1>2, <1>3, <1>4, <1>5 DEF Asks

-----------------------------------------------------------------------------
(* What a step leaves alone                                                *)

\* Nobody at work on the keys has moved, and the keys have not changed.
KeyStill ==
  /\ UNCHANGED keyv
  /\ \A q \in Reqs : req[q].step \in KeySteps \/ req'[q].step \in KeySteps => req'[q] = req[q]

\* The same of the password.
AuthStill ==
  /\ UNCHANGED <<up, authv>>
  /\ \A q \in Reqs : req[q].step \in AuthSteps \/ req'[q].step \in AuthSteps => req'[q] = req[q]

\* The same of sshd.
SSHStill ==
  /\ UNCHANGED sshv
  /\ Running(Toggles)' = Running(Toggles)
  /\ \A q \in Running(Toggles) : req'[q] = req[q]

LEMMA KeysKept ==
  ASSUME IInv, KeyStill
  PROVE  KeysFollow' /\ \A r \in Reqs : req'[r].step \in KeySteps <=> keyMu' = r
  BY DEF IInv, KeyStill, KeysFollow, Holders, keyv, Edited, KeySteps

LEMMA AuthKept ==
  ASSUME IInv, AuthStill
  PROVE  StoreFollows' /\ \A r \in Reqs : req'[r].step \in AuthSteps <=> authMu' = r
  BY DEF IInv, AuthStill, StoreFollows, Holders, authv, AuthSteps

LEMMA SSHKept ==
  ASSUME IInv, SSHStill
  PROVE  SSHFollows'
<1>1. Pending(ToWrite)' = Pending(ToWrite) /\ Pending(ToRestart)' = Pending(ToRestart)
  BY DEF Pending, SSHStill, ToWrite, ToRestart
<1> QED
  BY <1>1 DEF IInv, SSHStill, SSHFollows, sshv

-----------------------------------------------------------------------------
(* Every step keeps the invariant                                          *)

LEMMA StepKinds ==
  /\ Ended \cap (KeySteps \cup AuthSteps \cup SSHSteps \cup {"keyLock", "setup", "verify", "authLock"}) = {}
  /\ KeySteps \cap (AuthSteps \cup SSHSteps \cup {"keyLock", "setup", "verify", "authLock"}) = {}
  /\ AuthSteps \cap (SSHSteps \cup {"keyLock", "setup", "verify", "authLock"}) = {}
  /\ SSHSteps \cap {"keyLock", "setup", "verify", "authLock"} = {}
  /\ Steps = Ended \cup KeySteps \cup AuthSteps \cup SSHSteps \cup {"keyLock", "setup", "verify", "authLock"}
  BY DEF Ended, KeySteps, AuthSteps, SSHSteps, Steps

\* A new toggle has the file still to write and sshd still to restart.
LEMMA AsksFollow ==
  ASSUME IInv, NEW r \in Reqs, Asked(r), UNCHANGED <<config, sshd>>, toggled' = Joined(req'[r].op)
  PROVE  SSHFollows'
<1> USE StepKinds
<1>1. req[r].step \in Ended /\ \A q \in Reqs \ {r} : req'[q] = req[q]
  BY DEF Asked
<1>2. CASE req'[r].op \notin Toggles
  <2>1. SSHStill
    BY <1>1, <1>2 DEF SSHStill, Running, Joined, sshv
  <2> QED
    BY <2>1, SSHKept
<1>3. CASE req'[r].op \in Toggles
  <2>1. req'[r].step = "sshRead"
    BY <1>3 DEF Asked, Toggles
  <2>2. r \in Running(Toggles)' /\ Running(Toggles)' = Running(Toggles) \cup {r}
    BY <1>1, <1>3, <2>1 DEF Running, Ended
  <2>3. Pending(ToWrite)' /\ Pending(ToRestart)'
    BY <2>1, <2>2 DEF Pending, ToWrite, ToRestart
  <2>4. toggled' # {} => \A q \in Running(Toggles)' : req'[q].op \in toggled'
    BY <1>1, <1>3, <2>2 DEF Joined, IInv, SSHFollows, Running
  <2> QED
    BY <2>3, <2>4 DEF SSHFollows
<1> QED
  BY <1>2, <1>3

LEMMA AsksKeep ==
  ASSUME IInv, NEW r \in Reqs, Asks(r), up
  PROVE  IInv'
<1>1. /\ Asked(r) /\ UNCHANGED <<up, keyv, authv, config, sshd, faults>>
      /\ toggled' = Joined(req'[r].op)
      /\ requests' \in 0..MaxRequests
  BY AsksAsk DEF IInv
<1>2. KeyStill
  BY <1>1 DEF KeyStill, Asked, KeySteps, Ended
<1>3. AuthStill
  BY <1>1 DEF AuthStill, Asked, AuthSteps, Ended, authv
<1>4. SSHFollows'
  BY <1>1, AsksFollow
<1>5. Typed'
  BY <1>1 DEF IInv, Typed, Asked, Joined, keyv, authv
<1>6. Doing'
  BY <1>1 DEF IInv, Doing, Asked, KeySteps, AuthSteps, SSHSteps
<1>7. Holders'
  BY <1>1, <1>2, <1>3, KeysKept, AuthKept DEF Holders
<1> QED
  BY <1>2, <1>3, <1>4, <1>5, <1>6, <1>7, KeysKept, AuthKept DEF IInv

LEMMA FaultsBounded ==
  ASSUME Typed, Works \/ Fails
  PROVE  faults' \in 0..MaxFaults
  BY AccessAssumption DEF Works, Fails, Typed

\* Steps on authorized_keys.

LEMMA KeyStepMoves ==
  ASSUME IInv, NEW r \in Reqs, req[r].step \in KeySteps \cup {"keyLock"},
         NEW s \in KeySteps \cup {"ok", "error"}, Goes(r, s), s = "list" => req[r].op = "add",
         req[r].step = "keyLock" => keyMu = None,
         keyMu' = IF s \in KeySteps THEN r ELSE None,
         up, UNCHANGED <<up, authv, sshv>>
  PROVE  AuthStill /\ SSHStill /\ Doing' /\ Holders'
<1> USE StepKinds
<1>1. req[r].op \in {"add", "remove"} /\ req[r].arg \in Keys
  BY DEF IInv, Doing
<1>2. AuthStill
  BY DEF Goes, AuthStill, Ended
<1>3. SSHStill
  BY <1>1 DEF Goes, SSHStill, Running, Toggles
<1>4. Doing'
  BY <1>1 DEF IInv, Doing, Goes, Ended
<1>5. \A q \in Reqs : req'[q].step \in KeySteps <=> keyMu' = q
  BY AccessAssumption DEF IInv, Holders, Goes, Ended
<1> QED
  BY <1>2, <1>3, <1>4, <1>5, AuthKept DEF Holders

LEMMA KeyStepsKeep ==
  ASSUME IInv, NEW r \in Reqs, KeyStep(r), up
  PROVE  IInv'
<1> USE DEF KeySteps, Steps, Ended
<1>1. CASE KeyLock(r)
  <2>1. PICK s \in {"list", "read"} : Goes(r, s) /\ (s = "list" => req[r].op = "add")
    BY <1>1, GotoGoes DEF KeyLock, IInv
  <2>2. AuthStill /\ SSHStill /\ Doing' /\ Holders'
    BY <1>1, <2>1, KeyStepMoves DEF KeyLock, KeyFree
  <2>3. Typed'
    BY <1>1, <2>1 DEF KeyLock, IInv, Typed, Goes, authv, sshv
  <2>4. KeysFollow'
    BY <1>1, <2>1 DEF KeyLock, IInv, KeysFollow, Goes, Edited
  <2> QED
    BY <2>2, <2>3, <2>4, AuthKept, SSHKept DEF IInv
<1>2. CASE List(r)
  <2>0. keyMu = r
    BY <1>2 DEF List, IInv, Holders
  <2>1. PICK s \in {"ok", "read"} : Goes(r, s) /\ keyMu' = IF s = "ok" THEN None ELSE r
    BY <1>2, <2>0, GotoGoes DEF List, KeyReturn, IInv
  <2>2. AuthStill /\ SSHStill /\ Doing' /\ Holders'
    BY <1>2, <2>1, KeyStepMoves DEF List
  <2>3. Typed'
    BY <1>2, <2>1, FaultsBounded DEF List, IInv, Typed, Goes, authv, sshv
  <2>4. KeysFollow'
    BY <1>2, <2>1 DEF List, IInv, KeysFollow, Goes, Edited
  <2> QED
    BY <2>2, <2>3, <2>4, AuthKept, SSHKept DEF IInv
<1>3. CASE Read(r)
  <2>0. keyMu = r /\ keyMu' = r
    BY <1>3 DEF Read, IInv, Holders
  <2>1. Goes(r, "keyWrite") /\ (~blind' => req'[r].lines = authKeys)
    <3>1. CASE Goto(r, "keyWrite") /\ blind'
      BY <3>1, GotoGoes DEF IInv
    <3>2. CASE req' = [req EXCEPT ![r].step = "keyWrite", ![r].lines = authKeys]
      <4>1. req[r] \in Request
        BY DEF IInv, Typed
      <4>2. req'[r] = [req[r] EXCEPT !.step = "keyWrite", !.lines = authKeys]
        BY <3>2 DEF IInv, Typed
      <4>3. req'[r] \in Request
        BY <4>1, <4>2 DEF Request, IInv, Typed
      <4> QED
        BY <3>2, <4>1, <4>2, <4>3 DEF Goes, IInv, Typed, Request
    <3> QED
      BY <1>3, <3>1, <3>2 DEF Read
  <2>2. AuthStill /\ SSHStill /\ Doing' /\ Holders'
    BY <1>3, <2>0, <2>1, KeyStepMoves DEF Read
  <2>3. Typed'
    BY <1>3, <2>1, FaultsBounded DEF Read, IInv, Typed, Goes, authv, sshv
  <2>4. KeysFollow'
    BY <1>3, <2>0, <2>1, <2>2 DEF Read, IInv, KeysFollow, Goes, Holders
  <2> QED
    BY <2>2, <2>3, <2>4, AuthKept, SSHKept DEF IInv
<1>4. CASE KeyWrite(r)
  <2>0. keyMu = r
    BY <1>4 DEF KeyWrite, IInv, Holders
  <2>1. PICK s \in {"keyRename", "error"} :
          /\ Goes(r, s) /\ keyMu' = IF s = "error" THEN None ELSE r
          /\ s = "keyRename" => keyTmp' = Edited(req[r], req[r].lines)
    BY <1>4, <2>0, GotoGoes DEF KeyWrite, KeyReturn, IInv
  <2>2. AuthStill /\ SSHStill /\ Doing' /\ Holders'
    BY <1>4, <2>1, KeyStepMoves DEF KeyWrite
  <2>3. Typed'
    BY <1>4, <2>1, FaultsBounded DEF KeyWrite, IInv, Typed, Request, Doing, Goes, authv, sshv, Edited, Lines
  <2>4. KeysFollow'
    BY <1>4, <2>0, <2>1, <2>2 DEF KeyWrite, IInv, KeysFollow, Goes, Edited, Holders
  <2> QED
    BY <2>2, <2>3, <2>4, AuthKept, SSHKept DEF IInv
<1>5. CASE KeyRename(r)
  <2>0. keyMu = r
    BY <1>5 DEF KeyRename, IInv, Holders
  <2>1. PICK s \in {"ok", "error"} : Goes(r, s) /\ keyMu' = None
    BY <1>5, <2>0, GotoGoes DEF KeyRename, KeyReturn, IInv
  <2>2. AuthStill /\ SSHStill /\ Doing' /\ Holders'
    BY <1>5, <2>1, KeyStepMoves DEF KeyRename
  <2>3. Typed'
    BY <1>5, <2>1, FaultsBounded DEF KeyRename, IInv, Typed, Goes, authv, sshv
  <2>4. KeysFollow'
    BY <1>5, <2>0, <2>1, <2>2, AccessAssumption DEF KeyRename, IInv, KeysFollow, Goes, Holders
  <2> QED
    BY <2>2, <2>3, <2>4, AuthKept, SSHKept DEF IInv
<1> QED
  BY <1>1, <1>2, <1>3, <1>4, <1>5 DEF KeyStep

\* Steps on the password.

LEMMA AuthStepMoves ==
  ASSUME IInv, NEW r \in Reqs, req[r].step \in AuthSteps \cup {"setup", "verify", "authLock"},
         NEW s \in AuthSteps \cup {"ok", "error", "authLock"}, Goes(r, s),
         s = "authLock" => req[r].op = "change",
         s \in AuthSteps => authMu \in {r, None} /\ authMu' = r,
         s \notin AuthSteps => authMu' = IF req[r].step \in AuthSteps THEN None ELSE authMu,
         up, UNCHANGED <<up, keyv, sshv>>
  PROVE  KeyStill /\ SSHStill /\ Doing' /\ Holders'
<1> USE StepKinds
<1>1. req[r].op \in {"setup", "change"} /\ req[r].arg \in Passwords
  BY DEF IInv, Doing
<1>2. KeyStill
  BY DEF Goes, KeyStill, Ended
<1>3. SSHStill
  BY <1>1 DEF Goes, SSHStill, Running, Toggles
<1>4. Doing'
  BY <1>1 DEF IInv, Doing, Goes, Ended, AuthSteps
<1>5. \A q \in Reqs : req'[q].step \in AuthSteps <=> authMu' = q
  BY AccessAssumption DEF IInv, Holders, Goes, Ended
<1> QED
  BY <1>2, <1>3, <1>4, <1>5, KeysKept DEF Holders

LEMMA AuthStepsKeep ==
  ASSUME IInv, NEW r \in Reqs, AuthStep(r), up
  PROVE  IInv'
<1> USE DEF AuthSteps, Steps, Ended
<1>1. CASE SetupChecks(r)
  <2>1. PICK s \in {"authWrite", "error"} :
          /\ Goes(r, s) /\ authMu = None /\ authMu' = IF s = "error" THEN None ELSE r
          /\ s = "authWrite" => hash = None
    BY <1>1, GotoGoes DEF SetupChecks, SetupLock, IInv
  <2>2. KeyStill /\ SSHStill /\ Doing' /\ Holders'
    BY <1>1, <2>1, AuthStepMoves DEF SetupChecks, SetupLock
  <2>3. Typed'
    BY <1>1, <2>1 DEF SetupChecks, IInv, Typed, Goes, keyv, sshv
  <2>4. StoreFollows'
    BY <1>1, <2>1 DEF SetupChecks, SetupLock, IInv, StoreFollows, Goes
  <2> QED
    BY <2>2, <2>3, <2>4, KeysKept, SSHKept DEF IInv
<1>2. CASE Verify(r)
  <2>1. PICK s \in {"authLock", "error"} : Goes(r, s)
    BY <1>2, GotoGoes DEF Verify, IInv
  <2>2. KeyStill /\ SSHStill /\ Doing' /\ Holders'
    BY <1>2, <2>1, AuthStepMoves DEF Verify, IInv, Doing, authv
  <2>3. Typed'
    BY <1>2, <2>1 DEF Verify, IInv, Typed, Goes, authv, keyv, sshv
  <2>4. StoreFollows'
    BY <1>2, <2>1 DEF Verify, IInv, StoreFollows, Goes, authv
  <2> QED
    BY <2>2, <2>3, <2>4, KeysKept, SSHKept DEF IInv
<1>3. CASE AuthLock(r)
  <2>1. Goes(r, "authWrite")
    BY <1>3, GotoGoes DEF AuthLock, IInv
  <2>2. KeyStill /\ SSHStill /\ Doing' /\ Holders'
    BY <1>3, <2>1, AuthStepMoves DEF AuthLock
  <2>3. Typed'
    BY <1>3, <2>1 DEF AuthLock, IInv, Typed, Goes, keyv, sshv
  <2>4. StoreFollows'
    BY <1>3, <2>1 DEF AuthLock, IInv, StoreFollows, Doing, Goes
  <2> QED
    BY <2>2, <2>3, <2>4, KeysKept, SSHKept DEF IInv
<1>4. CASE AuthWrite(r)
  <2>0. authMu = r
    BY <1>4 DEF AuthWrite, IInv, Holders
  <2>1. PICK s \in {"authRename", "error"} :
          /\ Goes(r, s) /\ authMu' = IF s = "error" THEN None ELSE r
          /\ s = "authRename" => storeTmp' = req[r].arg
          /\ s = "error" => storeTmp' = storeTmp
    BY <1>4, <2>0, GotoGoes DEF AuthWrite, AuthReturn, IInv
  <2>2. KeyStill /\ SSHStill /\ Doing' /\ Holders'
    BY <1>4, <2>0, <2>1, AuthStepMoves DEF AuthWrite
  <2>3. Typed'
    BY <1>4, <2>1, FaultsBounded DEF AuthWrite, IInv, Typed, Doing, Goes, keyv, sshv
  <2>4. StoreFollows'
    BY <1>4, <2>0, <2>1, <2>2 DEF AuthWrite, IInv, StoreFollows, Holders, Goes
  <2> QED
    BY <2>2, <2>3, <2>4, KeysKept, SSHKept DEF IInv
<1>5. CASE AuthRename(r)
  <2>0. authMu = r
    BY <1>5 DEF AuthRename, IInv, Holders
  <2>1. PICK s \in {"authKeep", "error"} :
          /\ Goes(r, s) /\ authMu' = IF s = "error" THEN None ELSE r
          /\ s = "authKeep" => stored' = storeTmp
          /\ s = "error" => stored' = stored
    BY <1>5, <2>0, GotoGoes DEF AuthRename, AuthReturn, IInv
  <2>2. KeyStill /\ SSHStill /\ Doing' /\ Holders'
    BY <1>5, <2>0, <2>1, AuthStepMoves DEF AuthRename
  <2>3. Typed'
    BY <1>5, <2>1, FaultsBounded DEF AuthRename, HashAfter, IInv, Typed, Goes, keyv, sshv
  <2>4. StoreFollows'
    BY <1>5, <2>0, <2>1, <2>2 DEF AuthRename, HashAfter, IInv, StoreFollows, Holders, Goes
  <2> QED
    BY <2>2, <2>3, <2>4, KeysKept, SSHKept DEF IInv
<1>6. CASE AuthKeep(r)
  <2>0. authMu = r
    BY <1>6 DEF AuthKeep, IInv, Holders
  <2>1. Goes(r, "ok") /\ authMu' = None
    BY <1>6, GotoGoes DEF AuthKeep, AuthReturn, IInv
  <2>2. KeyStill /\ SSHStill /\ Doing' /\ Holders'
    BY <1>6, <2>0, <2>1, AuthStepMoves DEF AuthKeep
  <2>3. Typed'
    BY <1>6, <2>1 DEF AuthKeep, IInv, Typed, Doing, Goes, keyv, sshv
  <2>4. StoreFollows'
    BY <1>6, <2>0, <2>1, <2>2, AccessAssumption DEF AuthKeep, IInv, StoreFollows, Holders, Goes
  <2> QED
    BY <2>2, <2>3, <2>4, KeysKept, SSHKept DEF IInv
<1> QED
  BY <1>1, <1>2, <1>3, <1>4, <1>5, <1>6 DEF AuthStep

\* Steps of a toggle of SSH.

LEMMA SSHStepMoves ==
  ASSUME IInv, NEW r \in Reqs, req[r].step \in SSHSteps, NEW s \in SSHSteps \cup {"ok", "error"}, Goes(r, s),
         up, UNCHANGED <<up, keyv, authv>>
  PROVE  /\ KeyStill /\ AuthStill /\ Doing' /\ Holders'
         /\ r \in Running(Toggles) /\ req[r].op \in Toggles
         /\ s \in SSHSteps => Running(Toggles)' = Running(Toggles)
         /\ s \notin SSHSteps => Running(Toggles)' = Running(Toggles) \ {r}
<1> USE StepKinds
<1>1. req[r].op \in Toggles
  BY DEF IInv, Doing
<1>2. KeyStill /\ AuthStill
  BY DEF Goes, KeyStill, AuthStill, Ended
<1>3. Doing'
  BY <1>1 DEF IInv, Doing, Goes, Ended, SSHSteps
<1>4. r \in Running(Toggles)
  BY <1>1 DEF Running
<1>5. \A q \in Reqs : q # r => (q \in Running(Toggles)' <=> q \in Running(Toggles))
  BY DEF Running, Goes
<1>6. r \in Running(Toggles)' <=> s \in SSHSteps
  BY <1>1 DEF Running, Goes, Ended
<1>7. /\ s \in SSHSteps => Running(Toggles)' = Running(Toggles)
      /\ s \notin SSHSteps => Running(Toggles)' = Running(Toggles) \ {r}
  BY <1>4, <1>5, <1>6 DEF Running
<1> QED
  BY <1>1, <1>2, <1>3, <1>4, <1>7, KeysKept, AuthKept DEF Holders

\* Whoever else is still to write or to restart remains so.
LEMMA OthersPend ==
  ASSUME IInv, NEW r \in Reqs, NEW s, Goes(r, s), NEW S, Pending(S),
         Running(Toggles) \ {r} \subseteq Running(Toggles)',
         r \in Running(Toggles) /\ req[r].step \in S => r \in Running(Toggles)' /\ s \in S
  PROVE  \E q \in Running(Toggles)' : req'[q].step \in S
<1>1. PICK q \in Running(Toggles) : req[q].step \in S
  BY DEF Pending
<1>2. CASE q = r
  BY <1>1, <1>2 DEF Goes
<1>3. CASE q # r
  BY <1>1, <1>3 DEF Goes, Running
<1> QED
  BY <1>2, <1>3

\* The operations of the toggles that go on stay.
LEMMA OpsStay ==
  ASSUME IInv, NEW r \in Reqs, NEW s, Goes(r, s), Running(Toggles)' \subseteq Running(Toggles), toggled # {}
  PROVE  \A q \in Running(Toggles)' : req'[q].op \in toggled
  BY DEF IInv, SSHFollows, Goes, Running

LEMMA SSHStepsKeep ==
  ASSUME IInv, NEW r \in Reqs, SSHStep(r), up
  PROVE  IInv'
<1> USE DEF SSHSteps, Steps, Ended
<1>1. CASE SSHRead(r)
  <2>1. PICK s \in {"sshOpen", "error"} : Goes(r, s) /\ toggled' = IF s = "error" THEN {} ELSE toggled
    BY <1>1, GotoGoes DEF SSHRead, ToggleFailed, IInv
  <2>2. /\ KeyStill /\ AuthStill /\ Doing' /\ Holders'
        /\ r \in Running(Toggles) /\ req[r].op \in Toggles
        /\ s = "sshOpen" => Running(Toggles)' = Running(Toggles)
    BY <1>1, <2>1, SSHStepMoves DEF SSHRead
  <2>3. Typed'
    BY <1>1, <2>1, FaultsBounded DEF SSHRead, IInv, Typed, Goes, keyv, authv
  <2>4. SSHFollows'
    <3> SUFFICES ASSUME toggled # {}, s = "sshOpen", UNCHANGED <<toggled, config, sshd>>
                 PROVE  SSHFollows'
      BY <1>1, <2>1 DEF SSHRead, SSHFollows
    <3>1. Pending(ToWrite)' /\ Pending(ToRestart)'
      BY <2>1, <2>2 DEF Pending, ToWrite, ToRestart, Goes
    <3> QED
      BY <2>1, <2>2, <3>1, OpsStay DEF SSHFollows
  <2> QED
    BY <2>2, <2>3, <2>4, KeysKept, AuthKept DEF IInv
<1>2. CASE SSHOpen(r)
  <2>1. PICK s \in {"sshFill", "error"} : Goes(r, s) /\ toggled' = IF s = "error" THEN {} ELSE toggled
    BY <1>2, GotoGoes DEF SSHOpen, ToggleFailed, IInv
  <2>2. /\ KeyStill /\ AuthStill /\ Doing' /\ Holders'
        /\ r \in Running(Toggles) /\ req[r].op \in Toggles
        /\ s = "sshFill" => Running(Toggles)' = Running(Toggles)
    BY <1>2, <2>1, SSHStepMoves DEF SSHOpen
  <2>3. Typed'
    BY <1>2, <2>1, FaultsBounded DEF SSHOpen, IInv, Typed, Goes, keyv, authv
  <2>4. SSHFollows'
    <3> SUFFICES ASSUME toggled # {}, s = "sshFill", UNCHANGED toggled
                 PROVE  SSHFollows'
      BY <1>2, <2>1 DEF SSHFollows
    <3>1. Pending(ToWrite)' /\ Pending(ToRestart)'
      BY <2>1, <2>2 DEF Pending, ToWrite, ToRestart, Goes
    <3> QED
      BY <2>1, <2>2, <3>1, OpsStay DEF SSHFollows
  <2> QED
    BY <2>2, <2>3, <2>4, KeysKept, AuthKept DEF IInv
<1>3. CASE SSHFill(r)
  <2>1. PICK s \in {"sshRestart", "error"} : Goes(r, s) /\ toggled' = IF s = "error" THEN {} ELSE toggled
    BY <1>3, GotoGoes DEF SSHFill, ToggleFailed, IInv
  <2>2. /\ KeyStill /\ AuthStill /\ Doing' /\ Holders'
        /\ r \in Running(Toggles) /\ req[r].op \in Toggles
        /\ s = "sshRestart" => Running(Toggles)' = Running(Toggles)
    BY <1>3, <2>1, SSHStepMoves DEF SSHFill
  <2>3. Typed'
    BY <1>3, <2>1, FaultsBounded DEF SSHFill, IInv, Typed, Goes, keyv, authv, Addr
  <2>4. SSHFollows'
    <3> SUFFICES ASSUME toggled # {}, s = "sshRestart", UNCHANGED toggled
                 PROVE  SSHFollows'
      BY <1>3, <2>1 DEF SSHFollows
    <3>1. config' = Addr(req[r].op) /\ req[r].op \in toggled
      BY <1>3, <2>1, <2>2, OneMoves DEF Goes, SSHFill, ToggleFailed, IInv, SSHFollows
    <3>2. Pending(ToRestart)'
      BY <2>1, <2>2 DEF Pending, ToWrite, ToRestart, Goes
    <3> QED
      BY <2>1, <2>2, <3>1, <3>2, OpsStay DEF SSHFollows
  <2> QED
    BY <2>2, <2>3, <2>4, KeysKept, AuthKept DEF IInv
<1>4. CASE SSHRestart(r)
  <2>1. PICK s \in {"sshReturn", "error"} : Goes(r, s) /\ toggled' = IF s = "error" THEN {} ELSE toggled
    BY <1>4, GotoGoes DEF SSHRestart, RestartFailed, ToggleFailed, IInv
  <2>2. /\ KeyStill /\ AuthStill /\ Doing' /\ Holders'
        /\ r \in Running(Toggles) /\ req[r].op \in Toggles
        /\ s = "sshReturn" => Running(Toggles)' = Running(Toggles)
    BY <1>4, <2>1, SSHStepMoves DEF SSHRestart
  <2>3. Typed'
    BY <1>4, <2>1, FaultsBounded DEF SSHRestart, IInv, Typed, Goes, keyv, authv
  <2>4. SSHFollows'
    <3> SUFFICES ASSUME toggled # {}, s = "sshReturn", UNCHANGED toggled
                 PROVE  SSHFollows'
      BY <1>4, <2>1 DEF SSHFollows
    <3>1. sshd' = config /\ config' = config
      BY <1>4, <2>1, OneMoves DEF Goes, SSHRestart, RestartFailed, ToggleFailed, IInv
    <3>2. Pending(ToWrite) => Pending(ToWrite)'
      BY <1>4, <2>1, <2>2, OthersPend DEF Pending, ToWrite, SSHRestart
    <3> QED
      BY <2>1, <2>2, <3>1, <3>2, OpsStay DEF SSHFollows, IInv
  <2> QED
    BY <2>2, <2>3, <2>4, KeysKept, AuthKept DEF IInv
<1>5. CASE SSHReturn(r)
  <2>1. PICK s \in {"ok", "error"} : Goes(r, s) /\ toggled' = IF s = "error" THEN {} ELSE toggled
    BY <1>5, GotoGoes DEF SSHReturn, RestartFailed, ToggleFailed, IInv
  <2>2. /\ KeyStill /\ AuthStill /\ Doing' /\ Holders'
        /\ r \in Running(Toggles) /\ req[r].op \in Toggles
        /\ s = "ok" => Running(Toggles)' = Running(Toggles) \ {r}
    BY <1>5, <2>1, SSHStepMoves DEF SSHReturn
  <2>3. Typed'
    BY <1>5, <2>1, FaultsBounded DEF SSHReturn, IInv, Typed, Goes, keyv, authv
  <2>4. SSHFollows'
    <3> SUFFICES ASSUME toggled # {}, s = "ok", UNCHANGED <<toggled, config, sshd>>
                 PROVE  SSHFollows'
      BY <1>5, <2>1 DEF SSHReturn, SSHFollows
    <3>1. Pending(ToWrite) => Pending(ToWrite)'
      BY <1>5, <2>1, <2>2, OthersPend DEF Pending, ToWrite, SSHReturn
    <3>2. Pending(ToRestart) => Pending(ToRestart)'
      BY <1>5, <2>1, <2>2, OthersPend DEF Pending, ToWrite, ToRestart, SSHReturn
    <3> QED
      BY <2>1, <2>2, <3>1, <3>2, OpsStay DEF SSHFollows, IInv
  <2> QED
    BY <2>2, <2>3, <2>4, KeysKept, AuthKept DEF IInv
<1> QED
  BY <1>1, <1>2, <1>3, <1>4, <1>5 DEF SSHStep

\* The end of the server and its start.

LEMMA DyingEndsAll ==
  ASSUME IInv, Dies
  PROVE  /\ req' \in [Reqs -> Request]
         /\ \A q \in Reqs : req'[q].step \in Ended
         /\ Running(Toggles)' = {}
<1>1. \A q \in Reqs : req'[q] = [req[q] EXCEPT !.step = IF req[q].step \in Ended THEN req[q].step ELSE "error"]
  BY DEF Dies
<1>2. \A q \in Reqs : req[q] \in Request
  BY DEF IInv, Typed
<1>3. \A q \in Reqs : req'[q] \in Request /\ req'[q].step \in Ended
  <2> TAKE q \in Reqs
  <2>1. CASE req[q].step \in Ended
    <3>1. req[q] = [req[q] EXCEPT !.step = req[q].step]
      BY <1>2 DEF Request
    <3> QED
      BY <1>1, <1>2, <2>1, <3>1
  <2>2. CASE req[q].step \notin Ended
    <3>1. req'[q] = [req[q] EXCEPT !.step = "error"]
      BY <1>1, <2>2
    <3>2. "error" \in Steps /\ "error" \in Ended
      BY DEF Steps, Ended
    <3> QED
      BY <1>2, <3>1, <3>2 DEF Request
  <2> QED
    BY <2>1, <2>2
<1>4. req' \in [Reqs -> Request]
  BY <1>3 DEF Dies
<1>5. Running(Toggles)' = {}
  BY <1>3 DEF Running
<1> QED
  BY <1>3, <1>4, <1>5

LEMMA CrashesKeep ==
  ASSUME IInv, Exit \/ Power
  PROVE  IInv'
<1> USE StepKinds
<1>1. Dies
  BY DEF Exit, Power
<1>2. Typed'
  BY <1>1, DyingEndsAll, FaultsBounded DEF Exit, Power, Dies, Addr, IInv, Typed
<1>3. Doing'
  BY <1>1, DyingEndsAll DEF Doing, Ended
<1>4. Holders'
  BY <1>1, DyingEndsAll, AccessAssumption DEF Holders, Dies
<1>5. KeysFollow'
  BY <1>1, DyingEndsAll DEF KeysFollow, Ended
<1>6. StoreFollows'
  BY <1>1, DyingEndsAll DEF StoreFollows, Ended, Dies
<1>7. SSHFollows'
  <2> SUFFICES ASSUME toggled' # {} PROVE SSHFollows'
    BY DEF SSHFollows
  <2>1. Running(Toggles) = {} /\ toggled' = toggled
    BY <1>1 DEF Dies
  <2>2. sshd = config /\ config \in {Addr(op) : op \in toggled}
    BY <2>1 DEF IInv, SSHFollows, Pending
  <2>3. Filling = {} /\ Restarting = {}
    BY <2>1 DEF IInv, Doing, Filling, Restarting, Running, SSHSteps, Ended
  <2>4. config' = config /\ sshd' = config
    BY <2>2, <2>3 DEF Exit, Power
  <2> QED
    BY <1>1, <2>1, <2>2, <2>4, DyingEndsAll DEF SSHFollows
<1> QED
  BY <1>2, <1>3, <1>4, <1>5, <1>6, <1>7 DEF IInv

LEMMA StartKeeps ==
  ASSUME IInv, Start
  PROVE  IInv'
<1>1. \A q \in Reqs : req'[q] = req[q] /\ req[q].step \in Ended
  BY DEF Start, IInv, Holders
<1>2. Typed'
  BY DEF Start, IInv, Typed, keyv, sshv
<1>3. Doing'
  BY <1>1 DEF Doing, IInv
<1>4. Holders'
  BY <1>1 DEF Start, Holders, IInv, keyv
<1>5. KeysFollow'
  BY <1>1, StepKinds DEF KeysFollow, Ended
<1>6. StoreFollows'
  BY <1>1 DEF Start, StoreFollows, Ended
<1>7. SSHFollows'
  <2>1. SSHStill
    BY <1>1 DEF Start, SSHStill, Running, sshv
  <2> QED
    BY <2>1, SSHKept
<1> QED
  BY <1>2, <1>3, <1>4, <1>5, <1>6, <1>7 DEF IInv

-----------------------------------------------------------------------------
(* The invariant and what it implies                                       *)

LEMMA InvInit == Init => IInv
<1> SUFFICES ASSUME Init PROVE IInv
  OBVIOUS
<1>1. NoRequest \in Request
  BY DEF NoRequest, Request, Ops, Steps, Ended
<1>2. \A r \in Reqs : req[r] = NoRequest /\ req[r].step = "idle"
  BY DEF Init, NoRequest
<1>3. Typed
  <2>1. req \in [Reqs -> Request]
    BY <1>1 DEF Init
  <2>2. authKeys \in SUBSET Lines /\ keyTmp \in SUBSET Lines
    BY DEF Init, Lines
  <2>3. requests \in 0..MaxRequests /\ faults \in 0..MaxFaults
    BY AccessAssumption DEF Init
  <2> QED
    BY <2>1, <2>2, <2>3 DEF Init, Typed, Toggles
<1>4. Doing
  BY <1>2 DEF Doing, KeySteps, AuthSteps, SSHSteps
<1>5. Holders
  BY <1>2, AccessAssumption DEF Init, Holders, KeySteps, AuthSteps
<1>6. KeysFollow
  BY <1>2 DEF KeysFollow
<1>7. StoreFollows
  BY <1>2 DEF Init, StoreFollows
<1>8. SSHFollows
  <2>1. Running(Toggles) = {}
    BY <1>2 DEF Running, Ended
  <2>2. Addr("disable") = config /\ sshd = config
    BY DEF Init, Addr
  <2> QED
    BY <2>1, <2>2 DEF Init, SSHFollows
<1> QED
  BY <1>3, <1>4, <1>5, <1>6, <1>7, <1>8 DEF IInv

\* Only a server that is up takes a step of a request.
LEMMA UpToAct ==
  ASSUME IInv, NEW r \in Reqs, Asks(r) \/ KeyStep(r) \/ AuthStep(r) \/ SSHStep(r)
  PROVE  up
<1>1. CASE Asks(r)
  BY <1>1 DEF Asks, AddKey, RemoveKey, Setup, ChangePassword, SetSSHEnabled, Begin
<1>2. CASE KeyStep(r)
  BY <1>2 DEF KeyStep, KeyLock, List, Read, KeyWrite, KeyRename, IInv, Holders, Ended
<1>3. CASE AuthStep(r)
  BY <1>3 DEF AuthStep, SetupChecks, SetupLock, Verify, AuthLock, AuthWrite, AuthRename, AuthKeep,
              IInv, Holders, Ended
<1>4. CASE SSHStep(r)
  BY <1>4 DEF SSHStep, SSHRead, SSHOpen, SSHFill, SSHRestart, SSHReturn, IInv, Holders, Ended
<1> QED
  BY <1>1, <1>2, <1>3, <1>4

LEMMA InvStep == IInv /\ [Next]_vars => IInv'
<1> SUFFICES ASSUME IInv, [Next]_vars PROVE IInv'
  OBVIOUS
<1>1. ASSUME NEW r \in Reqs, Asks(r) \/ KeyStep(r) \/ AuthStep(r) \/ SSHStep(r)
      PROVE  IInv'
  BY <1>1, UpToAct, AsksKeep, KeyStepsKeep, AuthStepsKeep, SSHStepsKeep
<1>2. CASE Exit \/ Power
  BY <1>2, CrashesKeep
<1>3. CASE Start
  BY <1>3, StartKeeps
<1>4. CASE UNCHANGED vars
  <2>1. KeyStill /\ AuthStill /\ SSHStill
    BY <1>4 DEF vars, KeyStill, AuthStill, SSHStill, Running
  <2>2. Typed' /\ Doing' /\ Holders'
    BY <1>4 DEF vars, keyv, authv, sshv, IInv, Typed, Doing, Holders
  <2> QED
    BY <2>1, <2>2, KeysKept, AuthKept, SSHKept DEF IInv
<1> QED
  BY <1>1, <1>2, <1>3, <1>4 DEF Next

LEMMA Invariant == Spec => []IInv
  BY InvInit, InvStep, PTL DEF Spec

\* Each variable has its type, and a request is at a guarded step exactly while it
\* holds the mutex, with any number of requests, failures and restarts.
THEOREM TypeCorrect == Spec => []TypeOK
<1>1. IInv => TypeOK
  BY DEF IInv, Typed, Holders, TypeOK, Request
<1> QED
  BY Invariant, <1>1, PTL

\* The password in memory is the one a restart loads, whenever no change is in the
\* middle of its critical section; whatever failed or was interrupted before.
THEOREM PasswordStaysInForce == Spec => []PasswordInForce
<1>1. IInv => PasswordInForce
  BY AccessAssumption DEF IInv, Holders, StoreFollows, PasswordInForce, AuthSteps
<1> QED
  BY Invariant, <1>1, PTL

\* Once all the toggles of SSH that overlapped have succeeded, however many they were and
\* however one truncated the file while another restarted sshd, sshd listens at the saved
\* address, and it is that of one of them.
THEOREM SSHListensAsSaved == Spec => []SSHAsSaved
<1>1. IInv => SSHAsSaved
  BY DEF IInv, SSHFollows, Pending, SSHAsSaved
<1> QED
  BY Invariant, <1>1, PTL

\* authorized_keys changes only by a whole request being applied to the lines it has,
\* and a request that succeeds has been applied.
THEOREM NoLineIsLost == Spec => KeysByRequest
<1>1. IInv /\ [Next]_vars => [~blind => KeysApplied]_vars
  <2> SUFFICES ASSUME IInv, Next, ~blind
               PROVE  KeysApplied
    OBVIOUS
  <2> USE StepKinds DEF KeysApplied
  <2>1. ASSUME NEW r \in Reqs, Asks(r)
        PROVE  KeysApplied
    BY <2>1, AsksAsk DEF Asked, IInv, keyv, Running, Ended
  <2>2. ASSUME NEW r \in Reqs, KeyStep(r)
        PROVE  KeysApplied
    <3>1. req[r].op \in {"add", "remove"}
      BY <2>2 DEF KeyStep, KeyLock, List, Read, KeyWrite, KeyRename, IInv, Doing, KeySteps
    <3>2. \A q \in Reqs \ {r} : req'[q] = req[q]
      BY <2>2, OneMoves DEF KeyStep, KeyLock, List, Read, KeyWrite, KeyRename, KeyReturn, IInv, Typed
    <3>3. \A q \in Running({"add", "remove"}) \ {r} : req'[q].step # "ok"
      BY <3>2 DEF Running, Ended
    <3>4. CASE KeyLock(r) \/ Read(r) \/ KeyWrite(r)
      <4>1. authKeys' = authKeys
        BY <3>4 DEF KeyLock, Read, KeyWrite
      <4>2. req'[r].step # "ok"
        <5>1. CASE KeyLock(r)
          BY <5>1, OneMoves DEF KeyLock, IInv
        <5>2. CASE KeyWrite(r)
          BY <5>2, OneMoves DEF KeyWrite, KeyReturn, IInv
        <5>3. CASE Read(r)
          <6>1. req[r] \in Request
            BY DEF IInv, Typed
          <6>2. \/ Goto(r, "keyWrite")
                \/ req'[r] = [req[r] EXCEPT !.step = "keyWrite", !.lines = authKeys]
            BY <5>3 DEF Read, IInv, Typed
          <6>3. CASE Goto(r, "keyWrite")
            BY <6>3, OneMoves DEF IInv
          <6>4. CASE req'[r] = [req[r] EXCEPT !.step = "keyWrite", !.lines = authKeys]
            BY <6>1, <6>4 DEF Request
          <6> QED
            BY <6>2, <6>3, <6>4
        <5> QED
          BY <3>4, <5>1, <5>2, <5>3
      <4> QED
        BY <4>1, <4>2, <3>3
    <3>5. CASE List(r)
      <4>1. authKeys' = authKeys
        BY <3>5 DEF List
      <4>2. req'[r].step = "ok" => req[r].op = "add" /\ req[r].arg \in authKeys
        BY <3>5, OneMoves DEF List, KeyReturn, IInv, Doing
      <4>3. req'[r].step = "ok" => authKeys' = Edited(req[r], authKeys)
        BY <4>1, <4>2 DEF Edited
      <4> QED
        BY <4>1, <4>3, <3>3
    <3>6. CASE KeyRename(r)
      <4>1. r \in Running({"add", "remove"})
        BY <3>1, <3>6 DEF Running, KeyRename, Ended
      <4>2. keyTmp = Edited(req[r], authKeys)
        BY <3>6 DEF IInv, KeysFollow, KeyRename
      <4>3. \/ authKeys' = keyTmp
            \/ authKeys' = authKeys /\ req'[r].step # "ok"
        BY <3>6, OneMoves DEF KeyRename, KeyReturn, IInv
      <4>4. \A q \in Running({"add", "remove"}) : req'[q].step = "ok" => q = r
        BY <3>3
      <4> QED
        BY <4>1, <4>2, <4>3, <4>4
    <3> QED
      BY <2>2, <3>4, <3>5, <3>6 DEF KeyStep
  <2>3. ASSUME NEW r \in Reqs, AuthStep(r) \/ SSHStep(r)
        PROVE  KeysApplied
    <3>1. authKeys' = authKeys
      BY <2>3 DEF AuthStep, SetupChecks, Verify, AuthLock, AuthWrite, AuthRename, AuthKeep,
                  SSHStep, SSHRead, SSHOpen, SSHFill, SSHRestart, SSHReturn, keyv
    <3>2. r \notin Running({"add", "remove"})
      BY <2>3 DEF AuthStep, SetupChecks, SetupLock, Verify, AuthLock, AuthWrite, AuthRename, AuthKeep,
                  SSHStep, SSHRead, SSHOpen, SSHFill, SSHRestart, SSHReturn, IInv, Doing, AuthSteps, SSHSteps, Toggles, Running
    <3>3. \A q \in Reqs \ {r} : req'[q] = req[q]
      BY <2>3, OneMoves DEF AuthStep, SetupChecks, SetupLock, Verify, AuthLock, AuthWrite, AuthRename, AuthKeep,
                  AuthReturn, SSHStep, SSHRead, SSHOpen, SSHFill, SSHRestart, SSHReturn, RestartFailed, ToggleFailed, IInv
    <3> QED
      BY <3>1, <3>2, <3>3 DEF Running, Ended
  <2>4. CASE Exit \/ Power
    <3>1. authKeys' = authKeys
      BY <2>4 DEF Exit, Power, Dies
    <3>2. \A q \in Running({"add", "remove"}) : req'[q].step = "error"
      <4>1. \A q \in Reqs : req'[q] = [req[q] EXCEPT !.step = IF req[q].step \in Ended THEN req[q].step ELSE "error"]
        BY <2>4 DEF Exit, Power, Dies
      <4>2. \A q \in Reqs : req[q] \in Request
        BY DEF IInv, Typed
      <4> QED
        BY <4>1, <4>2 DEF Running, Request
    <3> QED
      BY <3>1, <3>2
  <2>5. CASE Start
    BY <2>5 DEF Start, keyv, Running, Ended
  <2> QED
    BY <2>1, <2>2, <2>3, <2>4, <2>5 DEF Next
<1> QED
  BY Invariant, <1>1, PTL DEF Spec, KeysByRequest

\* Once there is a password, only a change replaces it, by the one it asks for.
THEOREM NoSecondSetup == Spec => SetupOnce
<1> DEFINE Step == stored # None /\ stored' # stored =>
                     \E r \in Running({"change"}) : stored' = req[r].arg
<1>1. IInv /\ [Next]_vars => [Step]_vars
  <2> SUFFICES ASSUME IInv, Next, stored # None, stored' # stored
               PROVE  \E r \in Running({"change"}) : stored' = req[r].arg
    OBVIOUS
  <2>1. PICK r \in Reqs : AuthRename(r)
    BY DEF Next, Asks, AddKey, RemoveKey, Setup, ChangePassword, SetSSHEnabled, Begin,
           KeyStep, KeyLock, List, Read, KeyWrite, KeyRename,
           AuthStep, SetupChecks, Verify, AuthLock, AuthWrite, AuthKeep,
           SSHStep, SSHRead, SSHOpen, SSHFill, SSHRestart, SSHReturn, Exit, Power, Dies, Start, authv
  <2>2. stored' = storeTmp /\ storeTmp = req[r].arg
    BY <2>1 DEF AuthRename, IInv, StoreFollows
  <2>3. hash = stored
    <3>1. \A q \in Reqs : req[q].step # "authKeep"
      BY <2>1 DEF AuthRename, IInv, Holders, AuthSteps
    <3> QED
      BY <2>1, <3>1 DEF AuthRename, IInv, Holders, StoreFollows, Ended
  <2>4. req[r].op = "change"
    BY <2>1, <2>3 DEF AuthRename, IInv, Doing, StoreFollows, AuthSteps
  <2> QED
    BY <2>1, <2>2, <2>4 DEF Running, AuthRename, Ended
<1> QED
  BY Invariant, <1>1, PTL DEF Spec, SetupOnce
=============================================================================
