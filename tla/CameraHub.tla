------------------------------ MODULE CameraHub ------------------------------
(***************************************************************************)
(* The registry of live cameras (hub.py) as the service uses it (open,      *)
(* close and close_all of service.py): host threads open, select and close  *)
(* cameras while the workers of the registered managers start, run and die. *)
(* A manager is here what the hub can see of it -- whether it says it is    *)
(* connected -- and the claim its worker holds on a device; its threads and *)
(* timeouts are in ManagerLifecycle.  All bodies are the same model without *)
(* a serial, so the uid is the index the hub appends (1: no suffix).  The     *)
(* connect mutex registers a manager before the next one is made, so the     *)
(* insertion order of the registry is the order of the numbers of managers.  *)
(***************************************************************************)
EXTENDS Integers, FiniteSets, FiniteSetsExt

CONSTANTS
  Hosts,           \* threads that call the service
  Devices,         \* physical cameras
  DefaultDevice,   \* the one the default driver picks
  MaxManagers,     \* bound: managers ever made, one per hub.connect()
  NoHost,          \* "nobody holds the lock"
  Default          \* open() without a camera id

ASSUME HubAssumption ==
  /\ DefaultDevice \in Devices
  /\ MaxManagers \in Nat \ {0}
  /\ NoHost \notin Hosts
  /\ Default \notin Devices

Managers == 1..MaxManagers
Ids      == Devices \cup {Default}

VARIABLES
  phase,       \* phase[m]: how far the worker of manager m is
  conn,        \* conn[m]: status()["connected"]
  given,       \* given[m]: the camera id its connect() was given
  answer,      \* answer[m]: what its worker told connect()
  stopped,     \* stopped[m]: its stop event
  uid,         \* uid[m]: its key in the registry, 0 for none
  made,        \* number of managers made
  registry,    \* _managers
  active,      \* _active_uid, 0 for None
  openLock,    \* CameraService._open_lock: its owner
  connectLock, \* CameraHub._connect_lock: its owner
  hpc,         \* hpc[h]: where host h is in its call
  want,        \* want[h]: the camera id, or the uid, the call was given
  mine         \* mine[h]: the managers the call makes or disconnects

workers  == <<phase, conn, answer>>
managers == <<given, uid, made>>
reg      == <<registry, active>>
locks    == <<openLock, connectLock>>
vars     == <<workers, managers, stopped, reg, locks, hpc, want, mine>>

Phases == {"none", "starting", "set_up", "live", "ending", "dead"}
HostPCs == {"idle", "open", "check", "resolve", "await", "pop", "join", "select"}

TypeOK ==
  /\ phase \in [Managers -> Phases]
  /\ conn \in [Managers -> BOOLEAN]
  /\ given \in [Managers -> Ids]
  /\ answer \in [Managers -> {"none", "ok", "failed"}]
  /\ stopped \in [Managers -> BOOLEAN]
  /\ uid \in [Managers -> 0..MaxManagers]
  /\ made \in 0..MaxManagers
  /\ registry \subseteq Managers
  /\ active \in 0..MaxManagers
  /\ openLock \in Hosts \cup {NoHost}
  /\ connectLock \in Hosts \cup {NoHost}
  /\ hpc \in [Hosts -> HostPCs]
  /\ want \in [Hosts -> Ids \cup 0..MaxManagers]
  /\ mine \in [Hosts -> SUBSET Managers]

Init ==
  /\ phase = [m \in Managers |-> "none"]
  /\ conn = [m \in Managers |-> FALSE]
  /\ given = [m \in Managers |-> Default]
  /\ answer = [m \in Managers |-> "none"]
  /\ stopped = [m \in Managers |-> FALSE]
  /\ uid = [m \in Managers |-> 0]
  /\ made = 0
  /\ registry = {}
  /\ active = 0
  /\ openLock = NoHost
  /\ connectLock = NoHost
  /\ hpc = [h \in Hosts |-> "idle"]
  /\ want = [h \in Hosts |-> 0]
  /\ mine = [h \in Hosts |-> {}]

Claims(m)    == phase[m] \in {"set_up", "live", "ending"}
Device(m)    == IF given[m] = Default THEN DefaultDevice ELSE given[m]
FirstOf(s)   == IF s = {} THEN 0 ELSE uid[Min(s)]
Addressed(u) == {m \in registry : uid[m] = u}

\* Only the managers of s stay in the registry.
Keep(s) ==
  /\ registry' = s
  /\ uid' = [m \in Managers |-> IF m \in s THEN uid[m] ELSE 0]

HostStep(h, from, to) == hpc[h] = from /\ hpc' = [hpc EXCEPT ![h] = to]
Return(h, from) ==
  /\ HostStep(h, from, "idle")
  /\ mine' = [mine EXCEPT ![h] = {}]
  /\ want' = [want EXCEPT ![h] = 0]

-----------------------------------------------------------------------------
(***************************************************************************)
(* The workers of the managers.                                            *)
(***************************************************************************)

Work(m, from, to) ==
  /\ phase[m] = from
  /\ phase' = [phase EXCEPT ![m] = to]
  /\ UNCHANGED <<managers, reg, locks, stopped, hpc, want, mine>>

Answer(m, a) == answer' = [answer EXCEPT ![m] = a]

Claim(m)      == Work(m, "starting", "set_up") /\ UNCHANGED <<conn, answer>>
ClaimFails(m) == Work(m, "starting", "dead") /\ Answer(m, "failed") /\ UNCHANGED conn
SetUp(m) ==
  /\ Work(m, "set_up", "live")
  /\ conn' = [conn EXCEPT ![m] = TRUE]
  /\ Answer(m, "ok")
SetUpFails(m) == Work(m, "set_up", "ending") /\ Answer(m, "failed") /\ UNCHANGED conn

\* The watchdog gives up on the camera, or the loop sees the stop event.
Leave(m) == Work(m, "live", "ending") /\ UNCHANGED <<conn, answer>>

\* Mutant: the flag is cleared on the way out, before the camera is released.
Release_FlagFirst(m) ==
  /\ conn[m]
  /\ conn' = [conn EXCEPT ![m] = FALSE]
  /\ phase[m] = "ending"
  /\ UNCHANGED <<managers, reg, locks, phase, answer, stopped, hpc, want, mine>>

\* The end of finally: camera.exit(), then the flag.
Release(m) ==
  /\ Work(m, "ending", "dead")
  /\ conn' = [conn EXCEPT ![m] = FALSE]
  /\ UNCHANGED answer

Worker(m) ==
  \/ Claim(m) \/ ClaimFails(m) \/ SetUp(m) \/ SetUpFails(m) \/ Leave(m) \/ Release(m)

-----------------------------------------------------------------------------
(***************************************************************************)
(* open(): the service's lock, then the hub's.                              *)
(***************************************************************************)

Opening  == {h \in Hosts : hpc[h] \in {"open", "check", "resolve"}}
MayOpen  == made + Cardinality(Opening) < MaxManagers    \* bound

\* A direct caller of hub.connect() has no service lock.
HubConnect(h, id) ==
  /\ MayOpen
  /\ HostStep(h, "idle", "resolve")
  /\ want' = [want EXCEPT ![h] = id]
  /\ UNCHANGED <<workers, managers, reg, locks, stopped, mine>>

Open(h, id) ==
  /\ MayOpen
  /\ openLock = NoHost
  /\ openLock' = h
  /\ HostStep(h, "idle", IF id = Default THEN "open" ELSE "resolve")
  /\ want' = [want EXCEPT ![h] = id]
  /\ UNCHANGED <<workers, managers, reg, stopped, connectLock, mine>>

\* The first read of a default open: active_uid.
ReadActive(h) ==
  /\ HostStep(h, "open", IF active = 0 THEN "resolve" ELSE "check")
  /\ want' = [want EXCEPT ![h] = active]
  /\ UNCHANGED <<workers, managers, reg, locks, stopped, mine>>

\* manager_for(active) is connected: the open is answered with it.
AlreadyOpen(h) ==
  /\ \E m \in Addressed(want[h]) : conn[m]
  /\ Return(h, "check")
  /\ openLock' = NoHost
  /\ UNCHANGED <<workers, managers, reg, stopped, connectLock>>

NotOpen(h) ==
  /\ ~\E m \in Addressed(want[h]) : conn[m]
  /\ HostStep(h, "check", "resolve")
  /\ want' = [want EXCEPT ![h] = Default]
  /\ UNCHANGED <<workers, managers, reg, locks, stopped, mine>>

\* The call lets go of what it holds.
Unlock(h) ==
  /\ openLock' = IF openLock = h THEN NoHost ELSE openLock
  /\ connectLock' = NoHost

WantedId(h) == IF want[h] \in Ids THEN want[h] ELSE Default

Living      == {m \in registry : conn[m]}
Existing(h) == {m \in Living : given[m] = WantedId(h) /\ WantedId(h) # Default}

\* _reap_dead_locked(): the active selection moves off a corpse to the first
\* camera left; a corpse is disconnected (its worker is dead) and forgotten.
Reap ==
  /\ Keep(Living)
  /\ active' = IF \E m \in registry : uid[m] = active /\ ~conn[m]
               THEN FirstOf(Living) ELSE active

\* Mutant: the selection is set to the camera id instead of the uid.
JoinExisting_StoresId(h) ==
  /\ connectLock = NoHost
  /\ Return(h, "resolve")
  /\ Existing(h) # {}
  /\ Keep(Living)
  /\ active' = want[h]
  /\ Unlock(h)
  /\ UNCHANGED <<workers, given, made, stopped>>

\* hub.connect(): the session this explicit id already has.
JoinExisting(h) ==
  /\ connectLock = NoHost
  /\ Return(h, "resolve")
  /\ Keep(Living)
  /\ \E m \in Existing(h) : active' = uid[m]
  /\ Unlock(h)
  /\ UNCHANGED <<workers, given, made, stopped>>

\* hub.connect(): a new manager, whose connect() starts a worker.
Connect(h) ==
  /\ connectLock = NoHost
  /\ Existing(h) = {}
  /\ made < MaxManagers
  /\ HostStep(h, "resolve", "await")
  /\ Reap
  /\ connectLock' = h
  /\ made' = made + 1
  /\ given' = [given EXCEPT ![made + 1] = WantedId(h)]
  /\ phase' = [phase EXCEPT ![made + 1] = "starting"]
  /\ mine' = [mine EXCEPT ![h] = {made + 1}]
  /\ UNCHANGED <<conn, answer, stopped, openLock, want>>

FreeUid == CHOOSE u \in Managers :
             /\ Addressed(u) = {}
             /\ \A v \in 1..(u - 1) : Addressed(v) # {}

\* Mutant: the new manager always gets the uid without a suffix.
Register_SameUid(h) ==
  /\ hpc[h] = "await"
  /\ \E m \in mine[h] :
       /\ answer[m] = "ok"
       /\ uid' = [uid EXCEPT ![m] = 1]
       /\ registry' = {n \in registry : uid[n] # 1} \cup {m}
  /\ Return(h, "await")
  /\ active' = 1
  /\ Unlock(h)
  /\ UNCHANGED <<workers, given, stopped, made>>

\* manager.connect() returned: _register_locked() and the active selection.
Register(h) ==
  /\ hpc[h] = "await"
  /\ \E m \in mine[h] :
       /\ answer[m] = "ok"
       /\ uid' = [uid EXCEPT ![m] = FreeUid]
       /\ registry' = registry \cup {m}
  /\ Return(h, "await")
  /\ active' = FreeUid
  /\ Unlock(h)
  /\ UNCHANGED <<workers, given, stopped, made>>

\* It raised the worker's failure.
ConnectFails(h) ==
  /\ hpc[h] = "await"
  /\ \E m \in mine[h] : answer[m] = "failed"
  /\ Return(h, "await")
  /\ Unlock(h)
  /\ UNCHANGED <<workers, managers, reg, stopped>>

\* It waited 20 seconds and told the worker to stop.
ConnectTimesOut(h) ==
  /\ hpc[h] = "await"
  /\ \E m \in mine[h] : answer[m] = "none" /\ stopped' = [stopped EXCEPT ![m] = TRUE]
  /\ Return(h, "await")
  /\ Unlock(h)
  /\ UNCHANGED <<workers, managers, reg>>

-----------------------------------------------------------------------------
(***************************************************************************)
(* close(), close_all(), select(): no lock but the registry's.              *)
(***************************************************************************)

\* close() first asks for the manager whose events it will harvest; uid 0
\* addresses the active camera.
Close(h, u) ==
  /\ Addressed(IF u = 0 THEN active ELSE u) # {}
  /\ HostStep(h, "idle", "pop")
  /\ want' = [want EXCEPT ![h] = u]
  /\ UNCHANGED <<workers, managers, reg, locks, stopped, mine>>

\* hub.disconnect() pops the registry, resolving the address again; a
\* camera that is gone is an error.
Pop(h) ==
  LET u    == IF want[h] = 0 THEN active ELSE want[h]
      rest == registry \ Addressed(u)
  IN
  /\ HostStep(h, "pop", IF Addressed(u) = {} THEN "idle" ELSE "join")
  /\ want' = [want EXCEPT ![h] = 0]
  /\ Keep(rest)
  /\ active' = IF active = u THEN FirstOf(rest) ELSE active
  /\ mine' = [mine EXCEPT ![h] = Addressed(u)]
  /\ stopped' = [m \in Managers |-> stopped[m] \/ m \in Addressed(u)]
  /\ UNCHANGED <<workers, given, made, locks>>

\* disconnect_all() empties the registry and stops the managers one by one.
CloseAll(h) ==
  /\ HostStep(h, "idle", "join")
  /\ registry # {}
  /\ Keep({})
  /\ active' = 0
  /\ mine' = [mine EXCEPT ![h] = registry]
  /\ stopped' = [stopped EXCEPT ![Min(registry)] = TRUE]
  /\ UNCHANGED <<workers, given, made, locks, want>>

\* manager.disconnect(): the join ends, or gives up after 10 seconds; on to
\* the next manager.
Join(h) ==
  LET m    == Min(mine[h])
      rest == mine[h] \ {m}
  IN
  /\ hpc[h] = "join"
  /\ conn' = [conn EXCEPT ![m] = FALSE]
  /\ mine' = [mine EXCEPT ![h] = rest]
  /\ hpc' = [hpc EXCEPT ![h] = IF rest = {} THEN "idle" ELSE "join"]
  /\ stopped' = IF rest = {} THEN stopped ELSE [stopped EXCEPT ![Min(rest)] = TRUE]
  /\ UNCHANGED <<managers, reg, locks, phase, answer, want>>

\* select() looks the manager up in one lock block and assigns in the next.
Select(h, u) ==
  /\ made < MaxManagers    \* bound: a selection is for the opens to come
  /\ Addressed(u) # {}
  /\ HostStep(h, "idle", "select")
  /\ want' = [want EXCEPT ![h] = u]
  /\ UNCHANGED <<workers, managers, reg, locks, stopped, mine>>

Assign(h) ==
  /\ Return(h, "select")
  /\ active' = want[h]
  /\ UNCHANGED <<workers, managers, locks, stopped, registry>>

\* The steps of a call that was made.
Goes(h) ==
  \/ ReadActive(h) \/ AlreadyOpen(h) \/ NotOpen(h) \/ JoinExisting(h) \/ Connect(h)
  \/ Register(h) \/ ConnectFails(h) \/ ConnectTimesOut(h) \/ Pop(h) \/ Join(h) \/ Assign(h)

Next ==
  \/ \E m \in Managers : Worker(m)
  \/ \E h \in Hosts :
       \/ \E id \in Ids : Open(h, id) \/ HubConnect(h, id)
       \/ \E u \in 0..MaxManagers : Close(h, u) \/ Select(h, u)
       \/ CloseAll(h)
       \/ Goes(h)

Spec == Init /\ [][Next]_vars

-----------------------------------------------------------------------------
(***************************************************************************)
(* Properties.                                                             *)
(***************************************************************************)

\* Two managers never hold the same device, as long as both were opened by id
\* and neither is being disconnected or has failed: what the connect mutex, the
\* reaping and the search of the registry are for (hub.py:31-39, 113-125).  It needs a manager
\* to say it is connected until its camera is released, and a corpse to leave
\* the registry before its device is claimed again.
Leaving(m) == stopped[m] \/ \E h \in Hosts : hpc[h] = "join" /\ m \in mine[h]
Holding    == {m \in Managers : /\ Claims(m) /\ given[m] # Default
                                /\ answer[m] # "failed" /\ ~Leaving(m)}
ClaimsAreDistinct ==
  LET holding == Holding IN
  \A m, n \in holding : m # n => Device(m) # Device(n)

\* No session is leaked: one that is open is in the registry, or in the hands
\* of a call, or its worker has been told to stop or is leaving.
NoLeakedSession ==
  \A m \in Managers : Claims(m) =>
    \/ stopped[m] \/ phase[m] = "ending"
    \/ m \in registry
    \/ \E h \in Hosts : m \in mine[h]
=============================================================================
