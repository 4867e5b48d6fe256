------------------------ MODULE ManagerLifecycle_proofs ------------------------
(***************************************************************************)
(* For any number of hosts and connects: what the manager says of itself is  *)
(* true however it is called; and when calls are serialized as the hub       *)
(* serializes them, one camera session is open at a time and no worker is    *)
(* left that nobody can stop.                                              *)
(***************************************************************************)
EXTENDS ManagerLifecycle, FiniteSetTheorems, TLAPS

\* How the hub uses a manager: one call at a time, and no connect() over a
\* worker that was given up on.  connect() on a connected manager is allowed.
Serialized == ~ConnectOverRemains /\ ~OverlapCalls

Active(w) == wpc[w] \notin {"new", "dead"}

\* A worker is started once, and failed means that it never looped.
WorkersSound ==
  \A w \in Workers :
    /\ wpc[w] = "new" <=> w > launched
    /\ wpc[w] \in {"new", "create"} => ~started[w] /\ ~failed[w]
    /\ failed[w] => wpc[w] \in {"flush", "exit", "final", "dead"}
    /\ w \in session => wpc[w] \in {"setup", "cache", "publish", "announce", "loop", "frame",
                                    "flush", "exit"}

\* A connect() has the manager to itself.
ConnectsAlone == \A g, h \in Hosts : InConnect(h) /\ g # h => hpc[g] = "idle"

OneActiveWorker == \A v, w \in Workers : Active(v) /\ Active(w) => v = w

\* An active worker is awaited by the call that started it, or is the one a
\* connected manager names, or has been given up on.
Accounted ==
  \A w \in Workers : Active(w) =>
    \/ \E h \in Hosts : hpc[h] = "await" /\ mine[h] = w
    \/ w \in abandoned
    \/ worker = w /\ connected

\* What a call knows of it at each of its steps.
CallsKnow ==
  \A h \in Hosts :
    /\ hpc[h] \in {"prepare", "launch"} => \A w \in Workers : ~Active(w)
    /\ hpc[h] = "await" =>
         /\ mine[h] \in Workers
         /\ \A w \in Workers : Active(w) => w = mine[h]
         /\ wpc[mine[h]] = "announce" => connected
         /\ started[mine[h]] /\ ~failed[mine[h]] /\ Active(mine[h]) => connected
    /\ hpc[h] = "join" => \A w \in Workers : Active(w) => mine[h] = w \/ w \in abandoned
    /\ hpc[h] = "reset" => \A w \in Workers : Active(w) => w \in abandoned
    /\ hpc[h] \in {"read_worker", "join", "reset"} => stop

\* A worker that was given up on has been told to stop, or has failed.
AbandonedStops == \A w \in abandoned : Active(w) => stop \/ failed[w]

\* Only workers that were started are named.
NamesStarted ==
  /\ worker <= launched
  /\ \A h \in Hosts : mine[h] <= launched
  /\ \A w \in abandoned : w <= launched

OwnerInv ==
  /\ WorkersSound
  /\ ConnectsAlone
  /\ OneActiveWorker
  /\ Accounted
  /\ CallsKnow
  /\ AbandonedStops
  /\ NamesStarted

-----------------------------------------------------------------------------
(***************************************************************************)
(* Types.                                                                  *)
(***************************************************************************)

\* The steps of a worker.
LEMMA WorkerTypes ==
  ASSUME TypeOK, NEW w \in Workers, WorkerThread(w)
  PROVE  TypeOK'
<1> USE DEF TypeOK, WorkerPCs, WorkerStep, hvars, mvars
<1>1. CASE CreateSession(w) \/ CreateFails(w) \/ SelectAdapter(w) \/ AdapterFails(w)
  BY <1>1 DEF CreateSession, CreateFails, SelectAdapter, AdapterFails
<1>2. CASE RefreshCache(w) \/ RefreshFails(w) \/ Publish(w) \/ Announce(w)
  BY <1>2 DEF RefreshCache, RefreshFails, Publish, Announce
<1>3. CASE LoopTop(w) \/ DeliverFrame(w) \/ LoseCamera(w)
  BY <1>3 DEF LoopTop, DeliverFrame, LoseCamera
<1>4. CASE FinalFlush(w) \/ CloseSession(w) \/ ClearState(w)
  BY <1>4 DEF FinalFlush, CloseSession, ClearState
<1>5. QED
  BY <1>1, <1>2, <1>3, <1>4 DEF WorkerThread

\* The steps of a call.
LEMMA CallTypes ==
  ASSUME TypeOK, NEW h \in Hosts, Connect(h) \/ Disconnect(h) \/ CallStep(h)
  PROVE  TypeOK'
<1> USE LifecycleAssumption DEF TypeOK, HostPCs, HostStep, wvars, mvars, Workers, None
<1>1. CASE Connect(h) \/ Disconnect(h)
  BY <1>1 DEF Connect, Disconnect
<1>2. CASE PrepareSession(h)
  BY <1>2 DEF PrepareSession
<1>3. CASE LaunchWorker(h)
  BY <1>3 DEF LaunchWorker, WorkerPCs
<1>4. CASE ConnectRaises(h) \/ ConnectTimesOut(h) \/ JoinWorker(h)
  BY <1>4 DEF ConnectRaises, ConnectTimesOut, JoinWorker, GiveUpOn
<1>5. CASE RegisterWorker(h)
  BY <1>5 DEF RegisterWorker
<1>6. CASE ReadWorker(h) \/ ResetManager(h)
  BY <1>6 DEF ReadWorker, ResetManager
<1>7. QED
  BY <1>1, <1>2, <1>3, <1>4, <1>5, <1>6 DEF CallStep

-----------------------------------------------------------------------------
(***************************************************************************)
(* The invariant of serialized calls.                                      *)
(***************************************************************************)

\* What every step of a worker leaves as it is.
LEMMA WorkerLeaves ==
  ASSUME TypeOK, NEW w \in Workers, WorkerThread(w)
  PROVE  /\ UNCHANGED <<launched, hpc, mine, abandoned, stop, worker>>
         /\ Active(w) /\ wpc'[w] # "new"
         /\ \A v \in Workers \ {w} :
              /\ wpc'[v] = wpc[v] /\ started'[v] = started[v] /\ failed'[v] = failed[v]
              /\ v \in session' <=> v \in session
<1> USE DEF TypeOK, WorkerStep, hvars, mvars, Active
<1>1. CASE CreateSession(w) \/ CreateFails(w) \/ SelectAdapter(w) \/ AdapterFails(w)
  BY <1>1 DEF CreateSession, CreateFails, SelectAdapter, AdapterFails
<1>2. CASE RefreshCache(w) \/ RefreshFails(w) \/ Publish(w) \/ Announce(w)
  BY <1>2 DEF RefreshCache, RefreshFails, Publish, Announce
<1>3. CASE LoopTop(w) \/ DeliverFrame(w) \/ LoseCamera(w)
  BY <1>3 DEF LoopTop, DeliverFrame, LoseCamera
<1>4. CASE FinalFlush(w) \/ CloseSession(w) \/ ClearState(w)
  BY <1>4 DEF FinalFlush, CloseSession, ClearState
<1>5. QED
  BY <1>1, <1>2, <1>3, <1>4 DEF WorkerThread

\* The flag falls only with the worker, which is then dead; a worker that is about
\* to announce itself has raised it; and a failure never loops.
LEMMA WorkerTells ==
  ASSUME TypeOK, WorkersSound, NEW w \in Workers, WorkerThread(w)
  PROVE  /\ connected /\ ~connected' => wpc'[w] = "dead"
         /\ wpc'[w] = "announce" => connected'
         /\ started'[w] /\ ~failed'[w] =>
              wpc[w] = "announce" \/ (started[w] /\ ~failed[w])
         /\ failed[w] => failed'[w]
         /\ failed'[w] => wpc'[w] \in {"flush", "exit", "final", "dead"}
         /\ wpc'[w] = "create" => FALSE
         /\ w \in session' => wpc'[w] \in {"setup", "cache", "publish", "announce", "loop",
                                           "frame", "flush", "exit"}
<1> USE DEF TypeOK, WorkersSound, WorkerStep, hvars, mvars
<1>1. CASE CreateSession(w) \/ CreateFails(w)
  BY <1>1 DEF CreateSession, CreateFails
<1>2. CASE SelectAdapter(w) \/ AdapterFails(w)
  BY <1>2 DEF SelectAdapter, AdapterFails
<1>3. CASE RefreshCache(w) \/ RefreshFails(w) \/ Publish(w) \/ Announce(w)
  BY <1>3 DEF RefreshCache, RefreshFails, Publish, Announce
<1>4. CASE LoopTop(w) \/ DeliverFrame(w) \/ LoseCamera(w)
  BY <1>4 DEF LoopTop, DeliverFrame, LoseCamera
<1>5. CASE FinalFlush(w) \/ CloseSession(w) \/ ClearState(w)
  BY <1>5 DEF FinalFlush, CloseSession, ClearState
<1>6. QED
  BY <1>1, <1>2, <1>3, <1>4, <1>5 DEF WorkerThread

\* A step of a worker keeps the invariant.
LEMMA WorkerKeeps ==
  ASSUME TypeOK, OwnerInv, NEW w \in Workers, WorkerThread(w)
  PROVE  OwnerInv'
<1> USE DEF OwnerInv
<1>1. /\ UNCHANGED <<launched, hpc, mine, abandoned, stop, worker>>
      /\ Active(w) /\ wpc'[w] # "new"
      /\ \A v \in Workers \ {w} :
           /\ wpc'[v] = wpc[v] /\ started'[v] = started[v] /\ failed'[v] = failed[v]
           /\ v \in session' <=> v \in session
  BY WorkerLeaves
<1>2. /\ connected /\ ~connected' => wpc'[w] = "dead"
      /\ wpc'[w] = "announce" => connected'
      /\ started'[w] /\ ~failed'[w] =>
           wpc[w] = "announce" \/ (started[w] /\ ~failed[w])
      /\ failed[w] => failed'[w]
      /\ failed'[w] => wpc'[w] \in {"flush", "exit", "final", "dead"}
      /\ wpc'[w] # "create"
      /\ w \in session' => wpc'[w] \in {"setup", "cache", "publish", "announce", "loop",
                                        "frame", "flush", "exit"}
  BY WorkerTells
<1>3. \A v \in Workers : Active(v)' => Active(v) /\ v = w
  <2>1. \A v \in Workers \ {w} : Active(v)' <=> Active(v)
    BY <1>1 DEF Active
  <2>2. QED
    BY <1>1, <2>1 DEF OneActiveWorker
<1>4. WorkersSound'
  <2> SUFFICES ASSUME NEW v \in Workers PROVE
       /\ wpc'[v] = "new" <=> v > launched
       /\ wpc'[v] \in {"new", "create"} => ~started'[v] /\ ~failed'[v]
       /\ failed'[v] => wpc'[v] \in {"flush", "exit", "final", "dead"}
       /\ v \in session' => wpc'[v] \in {"setup", "cache", "publish", "announce", "loop",
                                         "frame", "flush", "exit"}
    BY <1>1 DEF WorkersSound
  <2>1. CASE v = w
    BY <1>1, <1>2, <2>1 DEF WorkersSound, Active
  <2>2. CASE v # w
    BY <1>1, <2>2 DEF WorkersSound
  <2>3. QED
    BY <2>1, <2>2
<1>5. ConnectsAlone' /\ OneActiveWorker'
  BY <1>1, <1>3 DEF ConnectsAlone, InConnect, OneActiveWorker
<1>6. Accounted'
  BY <1>1, <1>2, <1>3 DEF Accounted, Active
<1>7. CallsKnow'
  <2> SUFFICES ASSUME NEW h \in Hosts PROVE
       /\ hpc[h] \in {"prepare", "launch"} => \A v \in Workers : ~Active(v)'
       /\ hpc[h] = "await" =>
            /\ mine[h] \in Workers
            /\ \A v \in Workers : Active(v)' => v = mine[h]
            /\ wpc'[mine[h]] = "announce" => connected'
            /\ started'[mine[h]] /\ ~failed'[mine[h]] /\ Active(mine[h])' => connected'
       /\ hpc[h] = "join" => \A v \in Workers : Active(v)' => mine[h] = v \/ v \in abandoned
       /\ hpc[h] = "reset" => \A v \in Workers : Active(v)' => v \in abandoned
       /\ hpc[h] \in {"read_worker", "join", "reset"} => stop
    BY <1>1 DEF CallsKnow
  <2>1. CASE hpc[h] = "await"
    <3>1. w = mine[h]
      BY <1>1, <2>1 DEF CallsKnow
    <3>2. /\ wpc[w] = "announce" => connected
          /\ started[w] /\ ~failed[w] /\ Active(w) => connected
      BY <2>1, <3>1 DEF CallsKnow
    <3>3. ASSUME started'[w], ~failed'[w], Active(w)' PROVE connected'
      <4>1. connected /\ wpc'[w] # "dead"
        BY <1>1, <1>2, <3>2, <3>3 DEF Active
      <4>2. QED
        BY <1>2, <4>1
    <3>4. Active(mine[h])' <=> Active(w)'
      BY <1>1, <3>1 DEF Active
    <3>5. QED
      BY <1>1, <1>2, <1>3, <2>1, <3>1, <3>3, <3>4
  <2>2. CASE hpc[h] # "await"
    BY <1>3, <2>2 DEF CallsKnow
  <2>3. QED
    BY <2>1, <2>2
<1>8. AbandonedStops'
  BY <1>1, <1>2, <1>3 DEF AbandonedStops, TypeOK
<1>9. NamesStarted'
  BY <1>1 DEF NamesStarted
<1>10. QED
  BY <1>4, <1>5, <1>6, <1>7, <1>8, <1>9

\* The beginning of a call keeps it: who connects finds no worker active.
LEMMA CallBegins ==
  ASSUME Serialized, TypeOK, OwnerInv, NEW h \in Hosts, Connect(h) \/ Disconnect(h)
  PROVE  OwnerInv'
<1> USE DEF OwnerInv, TypeOK, HostStep, wvars, mvars
<1>1. UNCHANGED <<wpc, started, failed, launched, mine, abandoned, session, worker, connected>>
  BY DEF Connect, Disconnect
<1>2. WorkersSound' /\ OneActiveWorker' /\ NamesStarted'
  BY <1>1 DEF WorkersSound, OneActiveWorker, Active, NamesStarted
<1>3. hpc[h] = "idle" /\ \A g \in Hosts : g # h => hpc'[g] = hpc[g]
  BY DEF Connect, Disconnect
<1>4. CASE Connect(h) /\ ~connected
  <2>1. /\ ~connected /\ Quiet /\ hpc'[h] = "prepare" /\ stop' = stop
        /\ \A w \in abandoned : wpc[w] = "dead"
    BY <1>4 DEF Connect, Serialized
  <2>2. \A w \in Workers : ~Active(w)
    BY <2>1 DEF Accounted, Active, Quiet
  <2>3. ConnectsAlone'
    BY <1>3, <2>1 DEF ConnectsAlone, InConnect, Quiet
  <2>4. CallsKnow'
    BY <1>1, <1>3, <2>1, <2>2 DEF CallsKnow, Active, Quiet
  <2>5. Accounted' /\ AbandonedStops'
    BY <1>1, <2>1, <2>2 DEF Accounted, AbandonedStops, Active
  <2>6. QED
    BY <1>2, <2>3, <2>4, <2>5
<1>5. CASE Connect(h) /\ connected
  <2>1. Quiet /\ hpc'[h] = "status_in_lock" /\ stop' = stop
    BY <1>5 DEF Connect, Serialized
  <2>2. ConnectsAlone'
    BY <1>3, <2>1 DEF ConnectsAlone, InConnect, Quiet
  <2>3. CallsKnow'
    BY <1>1, <1>3, <2>1 DEF CallsKnow, Active, Quiet
  <2>4. Accounted' /\ AbandonedStops'
    BY <1>1, <1>3, <2>1 DEF Accounted, AbandonedStops, Active, Quiet
  <2>5. QED
    BY <1>2, <2>2, <2>3, <2>4
<1>6. CASE Disconnect(h)
  <2>1. /\ \A g \in Hosts : ~InConnect(g)
        /\ hpc'[h] = "read_worker" /\ stop'
    BY <1>6 DEF Disconnect, Serialized
  <2>2. ConnectsAlone'
    BY <1>3, <2>1 DEF ConnectsAlone, InConnect
  <2>3. CallsKnow'
    BY <1>1, <1>3, <2>1 DEF CallsKnow, Active, InConnect
  <2>4. Accounted' /\ AbandonedStops'
    BY <1>1, <1>3, <2>1 DEF Accounted, AbandonedStops, Active
  <2>5. QED
    BY <1>2, <2>2, <2>3, <2>4
<1>7. QED
  BY <1>4, <1>5, <1>6

\* connect() goes on: it clears the stop event when no worker is active, starts one,
\* and registers it or gives it up.
LEMMA ConnectContinues ==
  ASSUME Serialized, TypeOK, OwnerInv, NEW h \in Hosts,
         \/ PrepareSession(h) \/ LaunchWorker(h)
         \/ ConnectRaises(h) \/ RegisterWorker(h) \/ ConnectTimesOut(h)
  PROVE  OwnerInv'
<1> USE DEF OwnerInv, TypeOK, HostStep, wvars, mvars
<1>1. /\ hpc[h] \in {"prepare", "launch", "await"}
      /\ \A g \in Hosts \ {h} : hpc[g] = "idle" /\ hpc'[g] = "idle"
      /\ UNCHANGED <<started, failed, session, connected>>
  BY DEF PrepareSession, LaunchWorker, ConnectRaises, RegisterWorker, ConnectTimesOut,
         ConnectsAlone, InConnect
<1>2. ConnectsAlone'
  BY <1>1 DEF ConnectsAlone, InConnect
<1>3. CASE PrepareSession(h)
  <2>1. /\ UNCHANGED <<wpc, launched, mine, abandoned, worker>>
        /\ hpc[h] = "prepare" /\ hpc'[h] = "launch"
        /\ \A w \in Workers : ~Active(w)
    BY <1>3 DEF PrepareSession, CallsKnow
  <2>2. \A w \in Workers : ~Active(w)'
    BY <2>1 DEF Active
  <2>3. WorkersSound' /\ NamesStarted'
    BY <1>1, <2>1 DEF WorkersSound, NamesStarted
  <2>4. OneActiveWorker' /\ Accounted' /\ AbandonedStops'
    BY <2>2, <2>1 DEF OneActiveWorker, Accounted, AbandonedStops
  <2>5. CallsKnow'
    BY <1>1, <2>1, <2>2 DEF CallsKnow
  <2>6. QED
    BY <1>2, <2>3, <2>4, <2>5
<1>4. CASE LaunchWorker(h)
  <2> DEFINE n == launched + 1
  <2>1. /\ n \in Workers /\ launched' = n /\ mine'[h] = n
        /\ wpc' = [wpc EXCEPT ![n] = "create"]
        /\ hpc[h] = "launch" /\ hpc'[h] = "await"
        /\ UNCHANGED <<abandoned, stop, worker>>
        /\ \A w \in Workers : ~Active(w)
    BY <1>4, LifecycleAssumption DEF LaunchWorker, CallsKnow, Workers
  <2>2. wpc[n] = "new" /\ ~started[n] /\ ~failed[n] /\ n \notin session
    BY <2>1 DEF WorkersSound, Workers
  <2>3. /\ wpc'[n] = "create"
        /\ \A w \in Workers \ {n} : wpc'[w] = wpc[w] /\ ~Active(w)'
    BY <2>1 DEF Active
  <2>4. WorkersSound'
    BY <1>1, <2>1, <2>2, <2>3 DEF WorkersSound, Workers
  <2>5. OneActiveWorker' /\ Accounted'
    BY <2>1, <2>3 DEF OneActiveWorker, Accounted
  <2>6. AbandonedStops'
    BY <1>1, <2>1, <2>3 DEF AbandonedStops, NamesStarted, Workers
  <2>7. CallsKnow'
    BY <1>1, <2>1, <2>2, <2>3 DEF CallsKnow
  <2>8. NamesStarted'
    <3>1. \A g \in Hosts \ {h} : mine'[g] = mine[g]
      BY <1>4 DEF LaunchWorker
    <3>2. launched \in Nat /\ worker \in Nat /\ (\A g \in Hosts : mine[g] \in Nat)
          /\ abandoned \subseteq Nat
      BY DEF Workers, None
    <3>3. QED
      BY <2>1, <3>1, <3>2 DEF NamesStarted
  <2>9. QED
    BY <1>2, <2>4, <2>5, <2>6, <2>7, <2>8
<1>5. CASE ConnectRaises(h) \/ RegisterWorker(h) \/ ConnectTimesOut(h)
  <2>1. /\ UNCHANGED <<wpc, launched, mine>> /\ abandoned \subseteq abandoned'
        /\ hpc[h] = "await" /\ hpc'[h] = "idle"
        /\ mine[h] \in Workers
        /\ \A w \in Workers : Active(w) => w = mine[h]
    BY <1>5 DEF ConnectRaises, RegisterWorker, ConnectTimesOut, GiveUpOn, CallsKnow
  <2>2. WorkersSound' /\ OneActiveWorker'
    BY <1>1, <2>1 DEF WorkersSound, OneActiveWorker, Active
  <2>3. CallsKnow'
    BY <1>1, <2>1 DEF CallsKnow
  <2>4. Active(mine[h]) =>
          \/ mine[h] \in abandoned' /\ (stop' \/ failed[mine[h]])
          \/ worker' = mine[h] /\ connected /\ UNCHANGED <<abandoned, stop>>
    BY <1>5, <2>1 DEF ConnectRaises, RegisterWorker, ConnectTimesOut, GiveUpOn, CallsKnow,
                      Active, Workers, None
  <2>5. Accounted'
    BY <1>1, <2>1, <2>4 DEF Accounted, Active
  <2>6. AbandonedStops'
    <3> SUFFICES ASSUME NEW w \in abandoned', Active(w)
                 PROVE  stop' \/ failed[w]
      BY <1>1, <2>1 DEF AbandonedStops, Active
    <3>1. CASE w \in abandoned
      BY <1>5, <3>1 DEF AbandonedStops, ConnectRaises, RegisterWorker, ConnectTimesOut
    <3>2. CASE w \notin abandoned
      <4>1. w = mine[h]
        BY <1>5, <3>2 DEF ConnectRaises, RegisterWorker, ConnectTimesOut, GiveUpOn
      <4>2. QED
        BY <2>4, <3>2, <4>1
    <3>3. QED
      BY <3>1, <3>2
  <2>7. NamesStarted'
    BY <1>5, <2>1 DEF NamesStarted, ConnectRaises, RegisterWorker, ConnectTimesOut, GiveUpOn
  <2>8. QED
    BY <1>2, <2>2, <2>3, <2>5, <2>6, <2>7
<1>6. QED
  BY <1>3, <1>4, <1>5

\* disconnect() goes on: what it does not join it has given up on by the time it
\* forgets the worker.
LEMMA DisconnectContinues ==
  ASSUME Serialized, TypeOK, OwnerInv, NEW h \in Hosts,
         ReadWorker(h) \/ JoinWorker(h) \/ ResetManager(h)
  PROVE  OwnerInv'
<1> USE DEF OwnerInv, TypeOK, HostStep, wvars, mvars
<1>1. /\ hpc[h] \in {"read_worker", "join", "reset"} /\ stop
      /\ \A g \in Hosts : ~InConnect(g)
      /\ \A g \in Hosts \ {h} : hpc'[g] = hpc[g]
      /\ UNCHANGED <<wpc, started, failed, launched, stop, session>>
  BY DEF ReadWorker, JoinWorker, ResetManager, ConnectsAlone, InConnect, CallsKnow
<1>2. WorkersSound' /\ OneActiveWorker'
  BY <1>1 DEF WorkersSound, OneActiveWorker, Active
<1>3. ~InConnect(h)' /\ \A g \in Hosts : ~InConnect(g)'
  BY <1>1 DEF ReadWorker, JoinWorker, ResetManager, InConnect
<1>4. ConnectsAlone'
  BY <1>3 DEF ConnectsAlone
<1>5. AbandonedStops' /\ NamesStarted'
  <2>1. AbandonedStops'
    BY <1>1 DEF AbandonedStops
  <2>2. NamesStarted'
    <3>1. CASE ReadWorker(h)
      BY <1>1, <3>1 DEF NamesStarted, ReadWorker
    <3>2. CASE JoinWorker(h)
      BY <1>1, <3>2 DEF NamesStarted, JoinWorker, GiveUpOn
    <3>3. CASE ResetManager(h)
      <4>1. 0 <= launched'
        BY <1>1
      <4>2. QED
        BY <1>1, <3>3, <4>1 DEF NamesStarted, ResetManager, None
    <3>4. QED
      BY <3>1, <3>2, <3>3
  <2>3. QED
    BY <2>1, <2>2
<1>6. \A w \in Workers : Active(w) => w \in abandoned \/ (worker = w /\ connected)
  BY <1>1 DEF Accounted, InConnect
<1>7. CASE ReadWorker(h)
  <2>1. /\ UNCHANGED <<abandoned, worker, connected>>
        /\ mine'[h] = worker /\ \A g \in Hosts \ {h} : mine'[g] = mine[g]
        /\ hpc'[h] = "join"
    BY <1>7 DEF ReadWorker
  <2>2. Accounted'
    BY <1>1, <1>6, <2>1 DEF Accounted, Active
  <2>3. CallsKnow'
    BY <1>1, <1>3, <1>6, <2>1 DEF CallsKnow, Active, InConnect
  <2>4. QED
    BY <1>2, <1>4, <1>5, <2>2, <2>3
<1>8. CASE JoinWorker(h)
  <2>1. /\ UNCHANGED <<mine, worker, connected>> /\ abandoned \subseteq abandoned'
        /\ hpc[h] = "join" /\ hpc'[h] = "reset"
        /\ \A w \in Workers : Active(w) => w \in abandoned'
    BY <1>8 DEF JoinWorker, GiveUpOn, CallsKnow, Active, Workers, None
  <2>2. Accounted'
    BY <1>1, <2>1 DEF Accounted, Active
  <2>3. CallsKnow'
    BY <1>1, <1>3, <2>1 DEF CallsKnow, Active, InConnect
  <2>4. QED
    BY <1>2, <1>4, <1>5, <2>2, <2>3
<1>9. CASE ResetManager(h)
  <2>1. /\ UNCHANGED <<mine, abandoned>> /\ hpc'[h] = "idle"
        /\ \A w \in Workers : Active(w) => w \in abandoned
    BY <1>9 DEF ResetManager, CallsKnow
  <2>2. Accounted'
    BY <1>1, <2>1 DEF Accounted, Active
  <2>3. CallsKnow'
    BY <1>1, <1>3, <2>1 DEF CallsKnow, Active, InConnect
  <2>4. QED
    BY <1>2, <1>4, <1>5, <2>2, <2>3
<1>10. QED
  BY <1>7, <1>8, <1>9

-----------------------------------------------------------------------------
\* The initial states.
LEMMA InitOwner == Init => TypeOK /\ OwnerInv
<1> SUFFICES ASSUME Init PROVE TypeOK /\ OwnerInv
  OBVIOUS
<1> USE LifecycleAssumption DEF Init, Workers, None
<1>1. TypeOK
  <2>1. wpc \in [Workers -> WorkerPCs] /\ hpc \in [Hosts -> HostPCs]
    BY DEF WorkerPCs, HostPCs
  <2>2. /\ started \in [Workers -> BOOLEAN] /\ failed \in [Workers -> BOOLEAN]
        /\ launched \in 0..MaxConnects /\ mine \in [Hosts -> Workers \cup {None}]
    OBVIOUS
  <2>3. /\ held \in Hosts \cup {NoHost} /\ worker \in Workers \cup {None}
        /\ frame \in Workers \cup {None} /\ session \subseteq Workers
        /\ abandoned \subseteq Workers
    OBVIOUS
  <2>4. stop \in BOOLEAN /\ connected \in BOOLEAN /\ adapter \in BOOLEAN
    OBVIOUS
  <2>5. QED
    BY <2>1, <2>2, <2>3, <2>4 DEF TypeOK
<1>2. WorkersSound /\ ConnectsAlone /\ OneActiveWorker /\ Accounted
  BY DEF WorkersSound, ConnectsAlone, InConnect, OneActiveWorker, Accounted, Active
<1>3. CallsKnow /\ AbandonedStops /\ NamesStarted
  BY DEF CallsKnow, AbandonedStops, NamesStarted
<1>4. QED
  BY <1>1, <1>2, <1>3 DEF OwnerInv

\* Every step keeps the types, however the manager is called.
LEMMA TypeStep == TypeOK /\ [Next]_vars => TypeOK'
<1> SUFFICES ASSUME TypeOK, [Next]_vars PROVE TypeOK'
  OBVIOUS
<1>1. CASE UNCHANGED vars
  BY <1>1 DEF vars, TypeOK
<1>2. QED
  BY <1>1, WorkerTypes, CallTypes DEF Next

\* Every step of serialized calls keeps the invariant.
LEMMA OwnerStep == Serialized /\ TypeOK /\ OwnerInv /\ [Next]_vars => OwnerInv'
<1> SUFFICES ASSUME Serialized, TypeOK, OwnerInv, [Next]_vars PROVE OwnerInv'
  OBVIOUS
<1>1. CASE UNCHANGED vars
  BY <1>1 DEF vars, OwnerInv, WorkersSound, ConnectsAlone, InConnect, OneActiveWorker, Accounted,
              CallsKnow, AbandonedStops, NamesStarted, Active
<1>2. QED
  BY <1>1, WorkerKeeps, CallBegins, ConnectContinues, DisconnectContinues DEF Next, CallStep

\* Every reachable state is well typed, with any hosts and any use of the manager.
THEOREM TypeCorrect == Spec => []TypeOK
<1>1. Init => TypeOK
  BY InitOwner
<1>2. QED
  BY <1>1, TypeStep, PTL DEF Spec

\* A worker that no connect() has started yet has not run.
FreshWorkers == \A w \in Workers : w > launched => wpc[w] = "new"

LEMMA WorkersStartFresh == Spec => []FreshWorkers
<1>1. Init => FreshWorkers
  BY DEF Init, FreshWorkers
<1>2. TypeOK /\ FreshWorkers /\ [Next]_vars => FreshWorkers'
  <2> SUFFICES ASSUME TypeOK, FreshWorkers, [Next]_vars PROVE FreshWorkers'
    OBVIOUS
  <2>1. ASSUME NEW w \in Workers, WorkerThread(w) PROVE FreshWorkers'
    BY <2>1, WorkerLeaves DEF FreshWorkers, Active
  <2>2. ASSUME NEW h \in Hosts, LaunchWorker(h) PROVE FreshWorkers'
    BY <2>2, LifecycleAssumption DEF FreshWorkers, LaunchWorker, TypeOK, Workers
  <2>3. ASSUME NEW h \in Hosts, Connect(h) \/ Disconnect(h) \/ CallStep(h), ~LaunchWorker(h)
        PROVE  FreshWorkers'
    BY <2>3 DEF FreshWorkers, wvars, Connect, Disconnect, CallStep, PrepareSession,
                ConnectRaises, RegisterWorker, ConnectTimesOut, ReadWorker, JoinWorker,
                ResetManager
  <2>4. CASE UNCHANGED vars
    BY <2>4 DEF vars, FreshWorkers
  <2>5. QED
    BY <2>1, <2>2, <2>3, <2>4 DEF Next
<1>3. QED
  BY <1>1, <1>2, TypeCorrect, PTL DEF Spec

\* A manager that says it is connected has a worker that has not ended, even when
\* calls overlap and a worker outlives the call that gave up on it.
THEOREM FlagTruthful == Spec => []ConnectedTruthful
<1>1. Init => ConnectedTruthful
  BY DEF Init, ConnectedTruthful
<1>2. TypeOK /\ FreshWorkers /\ ConnectedTruthful /\ [Next]_vars => ConnectedTruthful'
  <2> SUFFICES ASSUME TypeOK, FreshWorkers, ConnectedTruthful, [Next]_vars, connected'
               PROVE  \E w \in Workers :
                        wpc'[w] \in {"announce", "loop", "frame", "flush", "exit", "final"}
    BY DEF ConnectedTruthful
  <2>1. ASSUME NEW w \in Workers, WorkerThread(w)
        PROVE  \E v \in Workers :
                 wpc'[v] \in {"announce", "loop", "frame", "flush", "exit", "final"}
    <3> USE DEF WorkerStep, TypeOK
    <3>1. CASE Publish(w)
      BY <3>1 DEF Publish
    <3>2. CASE ~Publish(w)
      <4>1. connected
        BY <2>1, <3>2 DEF WorkerThread, CreateSession, CreateFails, SelectAdapter, AdapterFails,
           RefreshCache, RefreshFails, Announce, LoopTop, DeliverFrame, LoseCamera, FinalFlush,
           CloseSession, ClearState, mvars
      <4>2. PICK v \in Workers :
                   wpc[v] \in {"announce", "loop", "frame", "flush", "exit", "final"}
        BY <4>1 DEF ConnectedTruthful
      <4>3. wpc'[v] \in {"announce", "loop", "frame", "flush", "exit", "final"}
        <5>1. CASE v # w
          BY <2>1, <4>2, <5>1, WorkerLeaves
        <5>2. CASE v = w
          BY <2>1, <3>2, <4>2, <5>2 DEF WorkerThread, CreateSession, CreateFails, SelectAdapter,
             AdapterFails, RefreshCache, RefreshFails, Announce, LoopTop, DeliverFrame,
             LoseCamera, FinalFlush, CloseSession, ClearState
        <5>3. QED
          BY <5>1, <5>2
      <4>4. QED
        BY <4>3
    <3>3. QED
      BY <3>1, <3>2
  <2>2. ASSUME NEW h \in Hosts, Connect(h) \/ Disconnect(h) \/ CallStep(h)
        PROVE  \E v \in Workers :
                 wpc'[v] \in {"announce", "loop", "frame", "flush", "exit", "final"}
    <3> USE DEF TypeOK, wvars, mvars
    <3>1. connected
      BY <2>2 DEF Connect, Disconnect, CallStep, PrepareSession, LaunchWorker, ConnectRaises,
                  RegisterWorker, ConnectTimesOut, ReadWorker, JoinWorker, ResetManager
    <3>2. PICK v \in Workers :
                 wpc[v] \in {"announce", "loop", "frame", "flush", "exit", "final"}
      BY <3>1 DEF ConnectedTruthful
    <3>3. CASE LaunchWorker(h)
      <4>1. launched' = launched + 1 /\ launched + 1 \in Workers
        BY <3>3, LifecycleAssumption DEF LaunchWorker, Workers
      <4>2. v # launched + 1
        BY <3>2, <4>1 DEF FreshWorkers, Workers
      <4>3. wpc'[v] = wpc[v]
        BY <3>3, <4>2 DEF LaunchWorker
      <4>4. QED
        BY <3>2, <4>3
    <3>4. CASE ~LaunchWorker(h)
      BY <2>2, <3>2, <3>4 DEF Connect, Disconnect, CallStep, PrepareSession, ConnectRaises,
         RegisterWorker, ConnectTimesOut, ReadWorker, JoinWorker, ResetManager
    <3>5. QED
      BY <3>3, <3>4
  <2>3. CASE UNCHANGED vars
    BY <2>3 DEF vars, ConnectedTruthful
  <2>4. QED
    BY <2>1, <2>2, <2>3 DEF Next
<1>3. QED
  BY <1>1, <1>2, TypeCorrect, WorkersStartFresh, PTL DEF Spec

\* The invariant of serialized calls holds in every reachable state.
LEMMA OwnerInvariant ==
  ASSUME Serialized PROVE Spec => []OwnerInv
<1>1. Init => OwnerInv
  BY InitOwner
<1>2. TypeOK /\ OwnerInv /\ [Next]_vars => OwnerInv'
  BY OwnerStep
<1>3. QED
  BY <1>1, <1>2, TypeCorrect, PTL DEF Spec

\* "ONE thread owns every camera call": when calls are serialized, at most one
\* camera session of the manager is open, however many workers were started.
THEOREM OneOwner ==
  ASSUME Serialized PROVE Spec => []SingleOwner
<1>1. TypeOK /\ OwnerInv => SingleOwner
  <2> SUFFICES ASSUME TypeOK, OwnerInv PROVE Cardinality(session) <= 1
    BY DEF SingleOwner
  <2>1. \A v, w \in session : v = w
    <3>1. session \subseteq Workers
      BY DEF TypeOK
    <3>2. \A w \in session : Active(w)
      BY <3>1 DEF OwnerInv, WorkersSound, Active
    <3>3. QED
      BY <3>1, <3>2 DEF OwnerInv, OneActiveWorker
  <2>2. CASE session = {}
    BY <2>2, FS_EmptySet
  <2>3. CASE session # {}
    <3>1. PICK w \in session : session = {w}
      BY <2>1, <2>3
    <3>2. Cardinality({w}) = 1
      BY FS_Singleton
    <3>3. QED
      BY <3>1, <3>2
  <2>4. QED
    BY <2>2, <2>3
<1>2. QED
  BY <1>1, TypeCorrect, OwnerInvariant, PTL

\* When calls are serialized, a worker that loops between calls is the one that
\* disconnect() would join, or has been told to stop.
THEOREM NoneOrphaned ==
  ASSUME Serialized PROVE Spec => []NoOrphan
<1>1. TypeOK /\ OwnerInv => NoOrphan
  <2> SUFFICES ASSUME TypeOK, OwnerInv, Quiet, NEW w \in Workers, Looping(w)
               PROVE  worker = w \/ stop
    BY DEF NoOrphan
  <2>1. Active(w)
    BY DEF Looping, Active
  <2>2. w \in abandoned \/ worker = w
    BY <2>1 DEF OwnerInv, Accounted, Quiet
  <2>3. ~failed[w]
    BY DEF OwnerInv, WorkersSound, Looping
  <2>4. QED
    BY <2>1, <2>2, <2>3 DEF OwnerInv, AbandonedStops
<1>2. QED
  BY <1>1, TypeCorrect, OwnerInvariant, PTL
=============================================================================
