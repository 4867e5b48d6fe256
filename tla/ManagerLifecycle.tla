--------------------------- MODULE ManagerLifecycle ---------------------------
(***************************************************************************)
(* One CameraManager as seen by the threads that open and close it: the     *)
(* host threads running connect() and disconnect() (camera_manager.py), and *)
(* the worker threads connect() starts (_worker_main in worker.py).         *)
(*                                                                         *)
(* The blocks the code runs under _state_lock are single actions.  The lock *)
(* itself is a variable only because connect() may keep it while it blocks. *)
(* Timeouts have no clock here: a wait that has a timeout may give up at any *)
(* moment.                                                                 *)
(***************************************************************************)
EXTENDS Integers, FiniteSets

CONSTANTS
  Hosts,             \* threads that call the manager's public API
  Connectors,        \* the hosts among them that may call connect()
  MaxConnects,       \* bound: how many workers are ever started
  ConnectOverRemains,\* connect() may be called while a worker that an earlier
                     \* call gave up on still runs
  OverlapCalls,      \* connect() may overlap other calls on the manager
  NoHost             \* "nobody holds the state lock"

ASSUME LifecycleAssumption ==
  /\ Connectors \subseteq Hosts
  /\ MaxConnects \in Nat \ {0}
  /\ {ConnectOverRemains, OverlapCalls} \subseteq BOOLEAN
  /\ NoHost \notin Hosts

Workers == 1..MaxConnects
None    == 0             \* the null worker reference / no frame

VARIABLES
  wpc,        \* wpc[w]: where worker thread w is ("new" = not started)
  started,    \* started[w]: the Event connect() waits for
  failed,     \* failed[w]: the failure list is not empty
  launched,   \* number of workers started so far
  hpc,        \* hpc[h]: where host h is in the call it is making
  mine,       \* mine[h]: the worker the call of h starts or joins
  held,       \* the host that keeps _state_lock while it blocks, or NoHost
  stop,       \* _stop_requested
  worker,     \* _worker
  connected,  \* _connected
  adapter,    \* _adapter is not None
  frame,      \* _latest_frame: the worker that delivered it, or None
  session,    \* the workers whose camera session is open (init() .. exit())
  abandoned   \* history: workers a call gave up on while they ran

wvars == <<wpc, started, failed>>
hvars == <<launched, hpc, mine, held, abandoned>>
mvars == <<stop, worker, connected, adapter, frame, session>>
vars  == <<wpc, started, failed, launched, hpc, mine, held, abandoned,
           stop, worker, connected, adapter, frame, session>>

WorkerPCs == {"new", "create", "setup", "cache", "publish", "announce",
              "loop", "frame", "flush", "exit", "final", "dead"}
HostPCs   == {"idle", "status_in_lock", "prepare", "launch", "await",
              "read_worker", "join", "reset"}

TypeOK ==
  /\ wpc \in [Workers -> WorkerPCs]
  /\ started \in [Workers -> BOOLEAN]
  /\ failed \in [Workers -> BOOLEAN]
  /\ launched \in 0..MaxConnects
  /\ hpc \in [Hosts -> HostPCs]
  /\ mine \in [Hosts -> Workers \cup {None}]
  /\ held \in Hosts \cup {NoHost}
  /\ stop \in BOOLEAN
  /\ worker \in Workers \cup {None}
  /\ connected \in BOOLEAN
  /\ adapter \in BOOLEAN
  /\ frame \in Workers \cup {None}
  /\ session \subseteq Workers /\ abandoned \subseteq Workers

Init ==
  /\ wpc = [w \in Workers |-> "new"]
  /\ started = [w \in Workers |-> FALSE]
  /\ failed = [w \in Workers |-> FALSE]
  /\ launched = 0
  /\ hpc = [h \in Hosts |-> "idle"]
  /\ mine = [h \in Hosts |-> None]
  /\ held = NoHost
  /\ stop = FALSE
  /\ worker = None
  /\ connected = FALSE
  /\ adapter = FALSE
  /\ frame = None
  /\ session = {} /\ abandoned = {}

LockFree == held = NoHost

Quiet        == \A h \in Hosts : hpc[h] = "idle"
InConnect(h) == hpc[h] \in {"status_in_lock", "prepare", "launch", "await"}

\* A call ends its wait for w.
GiveUpOn(w) ==
  abandoned' = abandoned \cup {v \in {w} \ {None} : wpc[v] # "dead"}

WorkerStep(w, from, to) == wpc[w] = from /\ wpc' = [wpc EXCEPT ![w] = to]
HostStep(h, from, to)   == hpc[h] = from /\ hpc' = [hpc EXCEPT ![h] = to]

-----------------------------------------------------------------------------
(***************************************************************************)
(* The worker thread.                                                      *)
(***************************************************************************)

\* driver.create_session() and camera.init() succeed: the session is open.
CreateSession(w) ==
  /\ WorkerStep(w, "create", "setup")
  /\ session' = session \cup {w}
  /\ UNCHANGED <<started, failed, stop, worker, connected, adapter, frame>>
  /\ UNCHANGED hvars

\* They raise: the thread reports the failure and returns, with no finally.
CreateFails(w) ==
  /\ WorkerStep(w, "create", "dead")
  /\ started' = [started EXCEPT ![w] = TRUE]
  /\ failed' = [failed EXCEPT ![w] = TRUE]
  /\ UNCHANGED <<hvars, mvars>>

SelectAdapter(w) ==
  /\ LockFree
  /\ WorkerStep(w, "setup", "cache")
  /\ adapter' = TRUE
  /\ UNCHANGED <<started, failed, stop, worker, connected, frame, session>>
  /\ UNCHANGED hvars

\* The early return of a failed family setup runs the finally block.
AdapterFails(w) ==
  /\ WorkerStep(w, "setup", "flush")
  /\ started' = [started EXCEPT ![w] = TRUE]
  /\ failed' = [failed EXCEPT ![w] = TRUE]
  /\ UNCHANGED <<hvars, mvars>>

\* The first reads of the camera, through self._adapter.
RefreshCache(w) ==
  /\ LockFree
  /\ adapter
  /\ WorkerStep(w, "cache", "publish")
  /\ UNCHANGED <<started, failed, hvars, mvars>>

\* A read raises (the camera's fault, or a disconnect() cleared _adapter): the
\* thread dies through finally and never announces itself.
RefreshFails(w) ==
  /\ WorkerStep(w, "cache", "flush")
  /\ UNCHANGED <<started, failed, hvars, mvars>>

Publish(w) ==
  /\ LockFree
  /\ WorkerStep(w, "publish", "announce")
  /\ connected' = TRUE
  /\ UNCHANGED <<started, failed, stop, worker, adapter, frame, session>>
  /\ UNCHANGED hvars

Announce(w) ==
  /\ WorkerStep(w, "announce", "loop")
  /\ started' = [started EXCEPT ![w] = TRUE]
  /\ UNCHANGED <<failed, hvars, mvars>>

\* Mutant: the loop no longer looks at the stop event.
LoopTop_Unstoppable(w) ==
  /\ WorkerStep(w, "loop", "frame")
  /\ UNCHANGED <<started, failed, hvars, mvars>>

\* while not self._stop_requested.is_set()
LoopTop(w) ==
  /\ WorkerStep(w, "loop", IF stop THEN "flush" ELSE "frame")
  /\ UNCHANGED <<started, failed, hvars, mvars>>

\* One iteration: a preview frame is published under the lock.
DeliverFrame(w) ==
  /\ LockFree
  /\ WorkerStep(w, "frame", "loop")
  /\ frame' = w
  /\ UNCHANGED <<started, failed, stop, worker, connected, adapter, session>>
  /\ UNCHANGED hvars

\* Mutant: the watchdog itself reports the manager disconnected.
LoseCamera_ClearsConnected(w) ==
  /\ LockFree
  /\ WorkerStep(w, "frame", "flush")
  /\ connected' = FALSE
  /\ UNCHANGED <<started, failed, stop, worker, adapter, frame, session>>
  /\ UNCHANGED hvars

\* The liveness watchdog breaks out, or an exception leaves the loop.
LoseCamera(w) ==
  /\ WorkerStep(w, "frame", "flush")
  /\ UNCHANGED <<started, failed, hvars, mvars>>

\* finally: stop a recording, drain and flush what the camera still owes.
FinalFlush(w) ==
  /\ WorkerStep(w, "flush", "exit")
  /\ UNCHANGED <<started, failed, hvars, mvars>>

CloseSession(w) ==
  /\ WorkerStep(w, "exit", "final")
  /\ session' = session \ {w}
  /\ UNCHANGED <<started, failed, stop, worker, connected, adapter, frame>>
  /\ UNCHANGED hvars

\* Mutant: the block forgets the flag.
ClearState_KeepsConnected(w) ==
  /\ LockFree
  /\ WorkerStep(w, "final", "dead")
  /\ frame' = None
  /\ UNCHANGED <<started, failed, stop, worker, connected, adapter, session>>
  /\ UNCHANGED hvars

\* The last locked block of finally, whichever session it now belongs to.
ClearState(w) ==
  /\ LockFree
  /\ WorkerStep(w, "final", "dead")
  /\ connected' = FALSE
  /\ frame' = None
  /\ UNCHANGED <<started, failed, stop, worker, adapter, session>>
  /\ UNCHANGED hvars

WorkerThread(w) ==
  \/ CreateSession(w) \/ CreateFails(w)
  \/ SelectAdapter(w) \/ AdapterFails(w)
  \/ RefreshCache(w)  \/ RefreshFails(w) \/ Publish(w)  \/ Announce(w)
  \/ LoopTop(w)       \/ DeliverFrame(w) \/ LoseCamera(w)
  \/ FinalFlush(w)    \/ CloseSession(w) \/ ClearState(w)

-----------------------------------------------------------------------------
(***************************************************************************)
(* The host threads: connect().                                            *)
(***************************************************************************)

\* The first block under the lock.  On a connected manager it returns
\* status(), which takes the same non-reentrant lock again: the thread waits
\* for itself, and no step leaves "status_in_lock".
Connect(h) ==
  /\ h \in Connectors
  /\ LockFree
  /\ launched < MaxConnects
  /\ Quiet \/ OverlapCalls
  /\ ConnectOverRemains \/ \A w \in abandoned : wpc[w] = "dead"
  /\ HostStep(h, "idle", IF connected THEN "status_in_lock" ELSE "prepare")
  /\ held' = IF connected THEN h ELSE NoHost
  /\ UNCHANGED <<wvars, launched, mine, abandoned, mvars>>

\* New driver and event-id space under the lock, then the two Event.clear().
PrepareSession(h) ==
  /\ LockFree
  /\ HostStep(h, "prepare", "launch")
  /\ stop' = FALSE
  /\ UNCHANGED <<wvars, launched, mine, held, abandoned>>
  /\ UNCHANGED <<worker, connected, adapter, frame, session>>

LaunchWorker(h) ==
  /\ launched < MaxConnects
  /\ HostStep(h, "launch", "await")
  /\ launched' = launched + 1
  /\ mine' = [mine EXCEPT ![h] = launched + 1]
  /\ wpc' = [wpc EXCEPT ![launched + 1] = "create"]
  /\ UNCHANGED <<started, failed, held, abandoned, mvars>>

\* started.wait() answers; a failure is raised, and with it no registration.
ConnectRaises(h) ==
  /\ HostStep(h, "await", "idle")
  /\ started[mine[h]] /\ failed[mine[h]]
  /\ GiveUpOn(mine[h])
  /\ UNCHANGED <<wvars, launched, mine, held, mvars>>

RegisterWorker(h) ==
  /\ LockFree
  /\ HostStep(h, "await", "idle")
  /\ started[mine[h]] /\ ~failed[mine[h]]
  /\ worker' = mine[h]
  /\ UNCHANGED <<wvars, launched, mine, held, abandoned>>
  /\ UNCHANGED <<stop, connected, adapter, frame, session>>

\* Mutant: a timeout that abandons the worker without telling it to stop.
ConnectTimesOut_LeavesWorker(h) ==
  /\ HostStep(h, "await", "idle")
  /\ ~started[mine[h]]
  /\ GiveUpOn(mine[h])
  /\ UNCHANGED <<wvars, launched, mine, held, mvars>>

\* The wait expires: the worker is late, or has died unannounced.
ConnectTimesOut(h) ==
  /\ HostStep(h, "await", "idle")
  /\ ~started[mine[h]]
  /\ GiveUpOn(mine[h])
  /\ stop' = TRUE
  /\ UNCHANGED <<wvars, launched, mine, held>>
  /\ UNCHANGED <<worker, connected, adapter, frame, session>>

-----------------------------------------------------------------------------
(***************************************************************************)
(* The host threads: disconnect(), on any manager.                         *)
(***************************************************************************)

Disconnect(h) ==
  /\ OverlapCalls \/ \A g \in Hosts : ~InConnect(g)
  /\ HostStep(h, "idle", "read_worker")
  /\ stop' = TRUE
  /\ UNCHANGED <<wvars, launched, mine, held, abandoned>>
  /\ UNCHANGED <<worker, connected, adapter, frame, session>>

ReadWorker(h) ==
  /\ HostStep(h, "read_worker", "join")
  /\ mine' = [mine EXCEPT ![h] = worker]
  /\ UNCHANGED <<wvars, launched, held, abandoned, mvars>>

\* worker.join(timeout=10.0): returns when the thread is dead, or gives up.
JoinWorker(h) ==
  /\ HostStep(h, "join", "reset")
  /\ GiveUpOn(mine[h])
  /\ UNCHANGED <<wvars, launched, mine, held, mvars>>

\* Mutant: the frame is cleared to a sentinel that is not the null frame.
ResetManager_WrongNull(h) ==
  /\ LockFree
  /\ HostStep(h, "reset", "idle")
  /\ worker' = None
  /\ connected' = FALSE
  /\ adapter' = FALSE
  /\ frame' = NoHost
  /\ UNCHANGED <<wvars, launched, mine, held, abandoned, stop, session>>

ResetManager(h) ==
  /\ LockFree
  /\ HostStep(h, "reset", "idle")
  /\ worker' = None
  /\ connected' = FALSE
  /\ adapter' = FALSE
  /\ frame' = None
  /\ UNCHANGED <<wvars, launched, mine, held, abandoned, stop, session>>

\* A call in progress; its steps are the ones that deserve fairness.
CallStep(h) ==
  \/ PrepareSession(h) \/ LaunchWorker(h)
  \/ ConnectRaises(h)  \/ RegisterWorker(h) \/ ConnectTimesOut(h)
  \/ ReadWorker(h)     \/ JoinWorker(h)     \/ ResetManager(h)

Next ==
  \/ \E w \in Workers : WorkerThread(w)
  \/ \E h \in Hosts : Connect(h) \/ Disconnect(h) \/ CallStep(h)

Spec == Init /\ [][Next]_vars

\* A thread that can run does run, a call that was made goes on; no host has
\* to make a call.  (A wait that may time out does so at the latest when the
\* thread it waits for is dead.)
Fairness ==
  /\ \A w \in Workers : WF_vars(WorkerThread(w))
  /\ \A h \in Hosts : WF_vars(CallStep(h))

FairSpec == Spec /\ Fairness

-----------------------------------------------------------------------------
(***************************************************************************)
(* Properties.                                                             *)
(***************************************************************************)

Looping(w) == wpc[w] \in {"loop", "frame"}

\* "ONE thread owns every camera call" (docs/architecture.md:11): two workers
\* of one manager never have a camera session open at once.
SingleOwner == Cardinality(session) <= 1

\* status()["connected"] never survives the worker that published it: a
\* manager that says it is connected has a thread that still runs past its
\* own publication (worker.py:78-83, 412-413).
ConnectedTruthful ==
  connected => \E w \in Workers :
                 wpc[w] \in {"announce", "loop", "frame", "flush", "exit", "final"}

\* Between calls every worker that still loops is one that disconnect() can
\* join, or has been told to stop: no worker is orphaned (camera_manager.py
\* 300-313 and the worker's loop guard).
NoOrphan ==
  Quiet => \A w \in Workers : Looping(w) => worker = w \/ stop

\* A stop request, by disconnect() or by a connect() that gave up, ends with
\* the camera released ("Stops the worker", docs/api.md:80).
StopReleases == stop ~> (session = {})
=============================================================================
