--------------------------- MODULE CameraHub_proofs ---------------------------
(***************************************************************************)
(* For any number of threads, cameras and managers: no device opened by id   *)
(* is claimed by two managers, no open session is out of reach, and a uid    *)
(* addresses one registered camera.                                         *)
(***************************************************************************)
EXTENDS CameraHub, WellFoundedInduction, FiniteSetTheorems, TLAPS

\* The types the argument needs: not the uids, nor what a call was given.
HubType ==
  /\ phase \in [Managers -> Phases]
  /\ conn \in [Managers -> BOOLEAN]
  /\ given \in [Managers -> Ids]
  /\ answer \in [Managers -> {"none", "ok", "failed"}]
  /\ stopped \in [Managers -> BOOLEAN]
  /\ made \in 0..MaxManagers
  /\ registry \subseteq Managers
  /\ hpc \in [Hosts -> HostPCs]
  /\ mine \in [Hosts -> SUBSET Managers]

\* What a worker has answered fits how far it is, and its flag is up from its
\* answer to its end unless it was told to stop.
WorkersTell ==
  \A m \in Managers :
    /\ m > made <=> phase[m] = "none"
    /\ conn[m] => phase[m] \in {"live", "ending"}
    /\ answer[m] = "ok" => phase[m] \in {"live", "ending", "dead"}
    /\ answer[m] = "failed" => phase[m] \in {"ending", "dead"}
    /\ phase[m] \in {"live", "ending"} => answer[m] # "none"
    /\ answer[m] = "ok" /\ phase[m] \in {"live", "ending"} => conn[m] \/ stopped[m]

\* Only a manager whose connect() returned is registered.
RegisteredAnswered == \A m \in registry : answer[m] = "ok"

\* A host that waits for the one manager it made holds the connect mutex; one
\* that disconnects managers has stopped the first of them.
CallsKnow ==
  \A h \in Hosts :
    /\ hpc[h] = "await" => connectLock = h /\ \E m \in Managers : mine[h] = {m}
    /\ hpc[h] = "join" => mine[h] # {} /\ stopped[Min(mine[h])]

\* A session that starts or is open, and that nothing has ended, is registered or
\* in the hands of a call.
Going(m)  == /\ phase[m] \in {"starting", "set_up", "live", "ending"}
             /\ ~stopped[m] /\ answer[m] # "failed"
InCall(m, pcs) == \E h \in Hosts : hpc[h] \in pcs /\ m \in mine[h]
Placed == \A m \in Managers : Going(m) => m \in registry \/ InCall(m, {"await", "join"})

\* Of those opened by id and not being disconnected, no two share a device, from
\* the start of their workers on.
Active   == {m \in Managers : Going(m) /\ given[m] # Default /\ ~InCall(m, {"join"})}
Distinct == \A m, n \in Active : m # n => given[m] # given[n]

HubInv == HubType /\ WorkersTell /\ RegisteredAnswered /\ CallsKnow /\ Placed /\ Distinct

-----------------------------------------------------------------------------
\* A set of managers has a first one.
LEMMA FirstManager ==
  ASSUME NEW S \in SUBSET Managers, S # {}
  PROVE  Min(S) \in S /\ Min(S) \in Managers /\ \A y \in S : Min(S) <= y
<1> DEFINE R == {ss \in Nat \X Nat : ss[1] < ss[2]}
<1>1. S \subseteq Nat
  BY HubAssumption DEF Managers
<1>2. IsWellFoundedOn(R, Nat)
  BY ONLY NatLessThanWellFounded DEF OpToRel
<1>3. PICK x \in S : \A y \in S : <<y, x>> \notin R
  <2> HIDE DEF R
  <2>1. QED
    BY <1>1, <1>2, WFMin
<1>4. \A y, z \in Nat : y < z => <<y, z>> \in R
  OBVIOUS
<1>5. \A y \in S : ~(y < x)
  <2> HIDE DEF R
  <2>1. QED
    BY <1>1, <1>3, <1>4
<1>6. \A y \in S : x <= y
  BY <1>1, <1>5
<1>7. QED
  BY <1>6 DEF Min

LEMMA HubInvInit == Init => HubInv
<1> SUFFICES ASSUME Init PROVE HubInv
  OBVIOUS
<1>1. HubType
  BY HubAssumption DEF Init, HubType, Phases, HostPCs, Ids
<1>2. WorkersTell
  BY HubAssumption DEF Init, WorkersTell, Managers
<1>3. RegisteredAnswered /\ CallsKnow /\ Placed /\ Distinct
  BY DEF Init, RegisteredAnswered, CallsKnow, Placed, Distinct, Active, Going
<1>4. QED
  BY <1>1, <1>2, <1>3 DEF HubInv

\* Devices stay apart while no manager joins the active ones.
LEMMA FewerStayApart ==
  ASSUME Distinct, Active' \subseteq Active, given' = given
  PROVE  Distinct'
BY DEF Distinct

\* A worker's step changes its own phase, flag and answer, and never makes it go.
LEMMA WorkerKeeps ==
  ASSUME HubInv, NEW w \in Managers, Worker(w)
  PROVE  HubInv'
<1> USE DEF HubInv
<1>1. UNCHANGED <<given, made, stopped, registry, connectLock, hpc, mine>>
  BY DEF Worker, Claim, ClaimFails, SetUp, SetUpFails, Leave, Release, Work, managers, reg, locks
<1>2. HubType' /\ \A m \in Managers \ {w} : UNCHANGED <<phase[m], conn[m], answer[m]>>
  <2>1. /\ phase' \in [Managers -> Phases] /\ conn' \in [Managers -> BOOLEAN]
        /\ answer' \in [Managers -> {"none", "ok", "failed"}]
        /\ \A m \in Managers \ {w} : UNCHANGED <<phase[m], conn[m], answer[m]>>
    BY DEF Worker, Claim, ClaimFails, SetUp, SetUpFails, Leave, Release, Work, Answer, HubType, Phases
  <2>2. QED
    BY <1>1, <2>1 DEF HubType
<1>3. /\ phase[w] # "none" /\ phase'[w] # "none"
      /\ conn'[w] => phase'[w] \in {"live", "ending"}
      /\ answer'[w] = "ok" => phase'[w] \in {"live", "ending", "dead"}
      /\ answer'[w] = "failed" => phase'[w] \in {"ending", "dead"}
      /\ phase'[w] \in {"live", "ending"} => answer'[w] # "none"
      /\ answer'[w] = "ok" /\ phase'[w] \in {"live", "ending"} => conn'[w] \/ stopped[w]
      /\ answer[w] = "ok" => answer'[w] = "ok"
      /\ phase'[w] \in {"starting", "set_up", "live", "ending"} /\ answer'[w] # "failed"
           => phase[w] \in {"starting", "set_up", "live", "ending"} /\ answer[w] # "failed"
  BY DEF Worker, Claim, ClaimFails, SetUp, SetUpFails, Leave, Release, Work, Answer, HubType, WorkersTell
<1>4. WorkersTell'
  BY <1>1, <1>2, <1>3 DEF WorkersTell
<1>5. RegisteredAnswered'
  BY <1>1, <1>2, <1>3 DEF RegisteredAnswered, HubType
<1>6. CallsKnow'
  BY <1>1 DEF CallsKnow
<1>7. \A m \in Managers : Going(m)' => Going(m)
  BY <1>1, <1>2, <1>3 DEF Going
<1>8. Placed'
  BY <1>1, <1>7 DEF Placed, InCall
<1>9. Distinct'
  BY <1>1, <1>7, FewerStayApart DEF Active, InCall
<1>10. QED
  BY <1>2, <1>4, <1>5, <1>6, <1>8, <1>9

\* The registered managers that do not say they are connected are not going.
LEMMA ReapedAreDead ==
  ASSUME HubInv, NEW m \in registry, ~conn[m]
  PROVE  ~Going(m)
BY DEF HubInv, HubType, WorkersTell, RegisteredAnswered, Going

\* A host that moves outside the two waits, and at most reaps.
LEMMA QuietKeeps ==
  ASSUME HubInv, NEW h \in Hosts, hpc[h] \notin {"await", "join"},
         NEW p \in HostPCs \ {"await", "join"}, hpc' = [hpc EXCEPT ![h] = p],
         mine' = mine \/ mine' = [mine EXCEPT ![h] = {}],
         registry' = registry \/ registry' = Living,
         UNCHANGED <<workers, given, made, stopped, connectLock>>
  PROVE  HubInv'
<1> USE DEF HubInv
<1>1. \A g \in Hosts : \/ g = h /\ hpc'[g] \notin {"await", "join"}
                       \/ g # h /\ hpc'[g] = hpc[g] /\ mine'[g] = mine[g]
  BY DEF HubType
<1>2. HubType'
  BY DEF HubType, workers, Living
<1>3. WorkersTell'
  BY DEF WorkersTell, workers
<1>4. RegisteredAnswered'
  BY DEF RegisteredAnswered, workers, Living
<1>5. CallsKnow'
  BY <1>1 DEF CallsKnow
<1>6. \A m \in Managers : Going(m)' <=> Going(m)
  BY DEF Going, workers
<1>7. \A m : /\ InCall(m, {"await", "join"})' <=> InCall(m, {"await", "join"})
             /\ InCall(m, {"join"})' <=> InCall(m, {"join"})
  BY <1>1 DEF InCall
<1>8. Placed'
  BY <1>6, <1>7, ReapedAreDead DEF Placed, Living
<1>9. Distinct'
  BY <1>6, <1>7, FewerStayApart DEF Active
<1>10. QED
  BY <1>2, <1>3, <1>4, <1>5, <1>8, <1>9

\* A connect that returns: its manager is registered, has failed, or is stopped.
LEMMA ReturnKeeps ==
  ASSUME HubInv, NEW h \in Hosts, hpc[h] = "await", hpc' = [hpc EXCEPT ![h] = "idle"],
         mine' = [mine EXCEPT ![h] = {}], connectLock' = NoHost,
         NEW m \in Managers, m \in mine[h],
         registry' = registry \/ (registry' = registry \cup {m} /\ answer[m] = "ok"),
         stopped' \in [Managers -> BOOLEAN], \A n \in Managers : stopped[n] => stopped'[n],
         m \in registry' \/ answer[m] = "failed" \/ stopped'[m],
         UNCHANGED <<workers, given, made>>
  PROVE  HubInv'
<1> USE DEF HubInv
<1>1. mine[h] = {m} /\ connectLock = h /\ h # NoHost
  BY HubAssumption DEF CallsKnow
<1>2. \A g \in Hosts : \/ g = h /\ hpc'[g] = "idle" /\ mine'[g] = {}
                       \/ g # h /\ hpc'[g] = hpc[g] /\ mine'[g] = mine[g] /\ hpc[g] # "await"
  BY <1>1 DEF HubType, CallsKnow
<1>3. HubType'
  BY DEF HubType, workers, HostPCs
<1>4. WorkersTell'
  BY DEF WorkersTell, workers
<1>5. RegisteredAnswered'
  BY DEF RegisteredAnswered, workers
<1>6. CallsKnow'
  <2>1. ASSUME NEW g \in Hosts, hpc'[g] = "join" PROVE mine'[g] # {} /\ stopped'[Min(mine'[g])]
    BY <1>2, <2>1, FirstManager DEF CallsKnow, HubType
  <2>2. QED
    BY <1>2, <2>1 DEF CallsKnow
<1>7. \A n \in Managers : Going(n)' => Going(n)
  BY DEF Going, workers
<1>8. \A n : n # m /\ InCall(n, {"await", "join"}) => InCall(n, {"await", "join"})'
  BY <1>1, <1>2 DEF InCall
<1>9. \A n : InCall(n, {"join"})' <=> InCall(n, {"join"})
  BY <1>2 DEF InCall
<1>10. ~Going(m)' \/ m \in registry'
  BY DEF Going, workers
<1>11. Placed'
  BY <1>7, <1>8, <1>10 DEF Placed
<1>12. Distinct'
  BY <1>7, <1>9, FewerStayApart DEF Active
<1>13. QED
  BY <1>3, <1>4, <1>5, <1>6, <1>11, <1>12

\* A disconnect takes managers out of the registry and stops the first of them.
LEMMA PopKeeps ==
  ASSUME HubInv, NEW h \in Hosts, hpc[h] \notin {"await", "join"},
         NEW gone \in SUBSET registry, registry' = registry \ gone,
         mine' = [mine EXCEPT ![h] = gone],
         hpc' = [hpc EXCEPT ![h] = IF gone = {} THEN "idle" ELSE "join"],
         stopped' \in [Managers -> BOOLEAN], \A n \in Managers : stopped[n] => stopped'[n],
         gone # {} => stopped'[Min(gone)],
         UNCHANGED <<workers, given, made, connectLock>>
  PROVE  HubInv'
<1> USE DEF HubInv
<1>1. \A g \in Hosts : \/ g = h /\ hpc'[g] = (IF gone = {} THEN "idle" ELSE "join") /\ mine'[g] = gone
                       \/ g # h /\ hpc'[g] = hpc[g] /\ mine'[g] = mine[g]
  BY DEF HubType
<1>2. HubType'
  BY DEF HubType, workers, HostPCs
<1>3. WorkersTell'
  BY DEF WorkersTell, workers
<1>4. RegisteredAnswered'
  BY DEF RegisteredAnswered, workers
<1>5. CallsKnow'
  <2>1. ASSUME NEW g \in Hosts, hpc'[g] = "join" PROVE mine'[g] # {} /\ stopped'[Min(mine'[g])]
    BY <1>1, <2>1, FirstManager DEF CallsKnow, HubType
  <2>2. ASSUME NEW g \in Hosts, hpc'[g] = "await"
        PROVE  connectLock' = g /\ \E m \in Managers : mine'[g] = {m}
    BY <1>1, <2>2 DEF CallsKnow
  <2>3. QED
    BY <2>1, <2>2 DEF CallsKnow
<1>6. \A n \in Managers : Going(n)' => Going(n)
  BY DEF Going, workers
<1>7. \A n : /\ InCall(n, {"await", "join"}) => InCall(n, {"await", "join"})'
             /\ InCall(n, {"join"}) => InCall(n, {"join"})'
             /\ n \in gone => InCall(n, {"await", "join"})'
  BY <1>1 DEF InCall
<1>8. Placed'
  BY <1>6, <1>7 DEF Placed
<1>9. Distinct'
  BY <1>6, <1>7, FewerStayApart DEF Active
<1>10. QED
  BY <1>2, <1>3, <1>4, <1>5, <1>8, <1>9

\* A join that ends, or is given up, goes on to the next manager.
LEMMA JoinKeeps ==
  ASSUME HubInv, NEW h \in Hosts, Join(h)
  PROVE  HubInv'
<1> USE DEF HubInv
<1> DEFINE m == Min(mine[h])
           rest == mine[h] \ {m}
<1>1. /\ hpc[h] = "join" /\ mine[h] # {} /\ mine[h] \subseteq Managers /\ stopped[m]
      /\ conn' = [conn EXCEPT ![m] = FALSE] /\ mine' = [mine EXCEPT ![h] = rest]
      /\ hpc' = [hpc EXCEPT ![h] = IF rest = {} THEN "idle" ELSE "join"]
      /\ stopped' = IF rest = {} THEN stopped ELSE [stopped EXCEPT ![Min(rest)] = TRUE]
      /\ UNCHANGED <<given, made, registry, connectLock, phase, answer>>
  BY DEF Join, CallsKnow, HubType, managers, reg, locks
<1>2. m \in mine[h] /\ m \in Managers /\ (rest # {} => Min(rest) \in rest /\ Min(rest) \in Managers)
  <2>1. rest \in SUBSET Managers /\ mine[h] \in SUBSET Managers
    BY <1>1
  <2>2. QED
    BY ONLY <1>1, <2>1, FirstManager
<1> HIDE DEF m, rest
<1>3. \A g \in Hosts : \/ g = h /\ hpc'[g] = (IF rest = {} THEN "idle" ELSE "join") /\ mine'[g] = rest
                       \/ g # h /\ hpc'[g] = hpc[g] /\ mine'[g] = mine[g]
  BY <1>1 DEF HubType
<1>4. /\ stopped' \in [Managers -> BOOLEAN] /\ \A n \in Managers : stopped[n] => stopped'[n]
      /\ rest # {} => stopped'[Min(rest)]
      /\ conn' \in [Managers -> BOOLEAN]
      /\ \A n \in Managers : conn'[n] = IF n = m THEN FALSE ELSE conn[n]
  BY <1>1, <1>2 DEF HubType
<1>5. HubType'
  <2>1. rest \subseteq Managers
    BY <1>1 DEF rest
  <2>2. QED
    BY <1>1, <1>4, <2>1 DEF HubType, HostPCs
<1>6. WorkersTell'
  BY <1>1, <1>2, <1>4 DEF WorkersTell
<1>7. RegisteredAnswered'
  BY <1>1 DEF RegisteredAnswered
<1>8. CallsKnow'
  <2>1. ASSUME NEW g \in Hosts, hpc'[g] = "join" PROVE mine'[g] # {} /\ stopped'[Min(mine'[g])]
    BY <1>3, <1>4, <2>1, FirstManager DEF CallsKnow, HubType
  <2>2. ASSUME NEW g \in Hosts, hpc'[g] = "await"
        PROVE  connectLock' = g /\ \E n \in Managers : mine'[g] = {n}
    BY <1>1, <1>3, <2>2 DEF CallsKnow
  <2>3. QED
    BY <2>1, <2>2 DEF CallsKnow
<1>9. \A n \in Managers : Going(n)' => Going(n) /\ n # m
  BY <1>1, <1>4 DEF Going
<1>10. \A n : n # m => /\ InCall(n, {"await", "join"}) => InCall(n, {"await", "join"})'
                       /\ InCall(n, {"join"}) => InCall(n, {"join"})'
  <2>1. \A n : n # m /\ n \in mine[h] => n \in rest
    BY DEF rest
  <2>2. QED
    BY <1>3, <2>1 DEF InCall
<1>11. Placed'
  BY <1>1, <1>9, <1>10 DEF Placed
<1>12. Distinct'
  BY <1>1, <1>9, <1>10, FewerStayApart DEF Active
<1>13. QED
  BY <1>5, <1>6, <1>7, <1>8, <1>11, <1>12

\* A new manager is opened by default, or for a device no active one holds: with
\* the mutex free and the corpses gone, those are registered and say they are
\* connected, and the search of the registry finds them.
LEMMA ConnectKeeps ==
  ASSUME HubInv, NEW h \in Hosts, Connect(h)
  PROVE  HubInv'
<1> USE DEF HubInv
<1> DEFINE n == made + 1
           id == WantedId(h)
<1>1. /\ hpc[h] = "resolve" /\ hpc' = [hpc EXCEPT ![h] = "await"]
      /\ connectLock = NoHost /\ connectLock' = h /\ h # NoHost
      /\ made < MaxManagers /\ made' = n
      /\ given' = [given EXCEPT ![n] = id]
      /\ phase' = [phase EXCEPT ![n] = "starting"]
      /\ mine' = [mine EXCEPT ![h] = {n}]
      /\ registry' = Living /\ Existing(h) = {}
      /\ UNCHANGED <<conn, answer, stopped>>
  BY HubAssumption DEF Connect, Reap, Keep, HostStep
<1>2. n \in Managers /\ id \in Ids
  BY <1>1, HubAssumption DEF HubType, Managers, WantedId, Ids
<1>3. phase[n] = "none" /\ \A k \in Managers : k > n <=> k > made /\ k # n
  BY <1>2, HubAssumption DEF WorkersTell, Managers, HubType
<1>4. ~conn[n] /\ answer[n] = "none" /\ n \notin registry
  BY <1>2, <1>3 DEF WorkersTell, RegisteredAnswered, HubType
<1> HIDE DEF n, id
<1>5. \A g \in Hosts : \/ g = h /\ hpc'[g] = "await" /\ mine'[g] = {n}
                       \/ g # h /\ hpc'[g] = hpc[g] /\ mine'[g] = mine[g] /\ hpc[g] # "await"
  BY <1>1, HubAssumption DEF HubType, CallsKnow
<1>6. \A k \in Managers : /\ given'[k] = IF k = n THEN id ELSE given[k]
                          /\ phase'[k] = IF k = n THEN "starting" ELSE phase[k]
  BY <1>1, <1>2 DEF HubType
<1>7. HubType'
  <2>1. made' \in 0..MaxManagers
    BY <1>1, <1>2 DEF Managers
  <2>2. given' \in [Managers -> Ids] /\ phase' \in [Managers -> Phases]
    BY <1>1, <1>2 DEF HubType, Phases
  <2>3. mine' \in [Hosts -> SUBSET Managers] /\ hpc' \in [Hosts -> HostPCs]
    BY <1>1, <1>2 DEF HubType, HostPCs
  <2>4. QED
    BY <1>1, <2>1, <2>2, <2>3 DEF HubType, Living
<1>8. WorkersTell'
  BY <1>1, <1>3, <1>4, <1>6 DEF WorkersTell
<1>9. RegisteredAnswered'
  BY <1>1 DEF RegisteredAnswered, Living
<1>10. CallsKnow'
  BY <1>1, <1>2, <1>5 DEF CallsKnow
<1>11. \A k \in Managers : k # n => (Going(k)' <=> Going(k))
  BY <1>1, <1>6 DEF Going
<1>12. \A k : /\ InCall(k, {"await", "join"}) => InCall(k, {"join"})'
              /\ InCall(k, {"join"})' <=> InCall(k, {"join"})
              /\ InCall(k, {"join"})' => InCall(k, {"await", "join"})'
  BY <1>1, <1>5 DEF InCall
<1>13. \A k : k = n => InCall(k, {"await", "join"})'
  BY <1>5 DEF InCall
<1>14. \A k \in registry : Going(k) => k \in Living
  BY ReapedAreDead DEF Living
<1>15. Placed'
  BY <1>1, <1>11, <1>12, <1>13, <1>14 DEF Placed
<1>16. Distinct'
  <2>1. \A k \in Active' : k # n => k \in Active /\ k \in Living
    <3>1. \A k \in Active' : k # n => k \in Active /\ ~InCall(k, {"await", "join"})
      BY <1>6, <1>11, <1>12 DEF Active
    <3>2. QED
      BY <1>14, <3>1 DEF Placed, Active
  <2>2. \A k \in Active' : k # n /\ n \in Active' => given[k] # id
    <3>1. n \in Active' => id # Default
      BY <1>2, <1>6 DEF Active
    <3>2. QED
      BY <1>1, <2>1, <3>1 DEF Existing, id
  <2>3. \A k \in Active' : k \in Managers
    BY DEF Active
  <2>4. QED
    BY <1>6, <2>1, <2>2, <2>3 DEF Distinct
<1>17. QED
  BY <1>7, <1>8, <1>9, <1>10, <1>15, <1>16

LEMMA HubInvStep == HubInv /\ [Next]_vars => HubInv'
<1> SUFFICES ASSUME HubInv, [Next]_vars PROVE HubInv'
  OBVIOUS
<1>1. CASE \E m \in Managers : Worker(m)
  BY <1>1, WorkerKeeps
<1>2. ASSUME NEW h \in Hosts, NEW id \in Ids, Open(h, id) \/ HubConnect(h, id)
      PROVE  HubInv'
  <2>1. \E p \in {"open", "resolve"} : hpc' = [hpc EXCEPT ![h] = p]
    BY <1>2 DEF Open, HubConnect, HostStep
  <2>2. hpc[h] = "idle" /\ UNCHANGED <<workers, given, made, stopped, registry, connectLock, mine>>
    BY <1>2 DEF Open, HubConnect, HostStep, managers, reg, locks
  <2>3. QED
    BY <2>1, <2>2, QuietKeeps DEF HostPCs
<1>3. ASSUME NEW h \in Hosts, NEW u, Close(h, u) \/ Select(h, u)
      PROVE  HubInv'
  <2>1. \E p \in {"pop", "select"} : hpc' = [hpc EXCEPT ![h] = p]
    BY <1>3 DEF Close, Select, HostStep
  <2>2. hpc[h] = "idle" /\ UNCHANGED <<workers, given, made, stopped, registry, connectLock, mine>>
    BY <1>3 DEF Close, Select, HostStep, managers, reg, locks
  <2>3. QED
    BY <2>1, <2>2, QuietKeeps DEF HostPCs
<1>4. ASSUME NEW h \in Hosts, ReadActive(h) \/ NotOpen(h)
      PROVE  HubInv'
  <2>1. \E p \in {"check", "resolve"} : hpc' = [hpc EXCEPT ![h] = p]
    BY <1>4 DEF ReadActive, NotOpen, HostStep
  <2>2. /\ hpc[h] \in {"open", "check"}
        /\ UNCHANGED <<workers, given, made, stopped, registry, connectLock, mine>>
    BY <1>4 DEF ReadActive, NotOpen, HostStep, managers, reg, locks
  <2>3. QED
    BY <2>1, <2>2, QuietKeeps DEF HostPCs
<1>5. ASSUME NEW h \in Hosts, AlreadyOpen(h) \/ Assign(h) \/ JoinExisting(h)
      PROVE  HubInv'
  <2>1. hpc[h] \in {"check", "select", "resolve"} /\ hpc' = [hpc EXCEPT ![h] = "idle"]
        /\ mine' = [mine EXCEPT ![h] = {}]
    BY <1>5 DEF AlreadyOpen, Assign, JoinExisting, Return, HostStep
  <2>2. UNCHANGED <<workers, given, made, stopped, connectLock>>
    BY <1>5 DEF AlreadyOpen, Assign, JoinExisting, Unlock, managers, locks
  <2>3. registry' = registry \/ registry' = Living
    BY <1>5 DEF AlreadyOpen, Assign, JoinExisting, Keep, reg
  <2>4. QED
    BY <2>1, <2>2, <2>3, QuietKeeps DEF HostPCs
<1>6. ASSUME NEW h \in Hosts, Register(h) \/ ConnectFails(h) \/ ConnectTimesOut(h)
      PROVE  HubInv'
  <2>1. /\ hpc[h] = "await" /\ hpc' = [hpc EXCEPT ![h] = "idle"]
        /\ mine' = [mine EXCEPT ![h] = {}] /\ connectLock' = NoHost
        /\ UNCHANGED <<workers, given, made>>
    BY <1>6 DEF Register, ConnectFails, ConnectTimesOut, Return, HostStep, Unlock, managers
  <2>2. mine[h] \subseteq Managers /\ stopped \in [Managers -> BOOLEAN]
    BY DEF HubInv, HubType
  <2>3. CASE Register(h)
    BY <2>1, <2>2, <2>3, ReturnKeeps DEF Register
  <2>4. CASE ConnectFails(h)
    BY <2>1, <2>2, <2>4, ReturnKeeps DEF ConnectFails, reg
  <2>5. CASE ConnectTimesOut(h)
    <3>1. PICK m \in mine[h] : stopped' = [stopped EXCEPT ![m] = TRUE]
      BY <2>5 DEF ConnectTimesOut
    <3>2. stopped' \in [Managers -> BOOLEAN] /\ stopped'[m] /\ \A n \in Managers : stopped[n] => stopped'[n]
      BY <2>2, <3>1
    <3>3. QED
      BY <2>1, <2>2, <2>5, <3>2, ReturnKeeps DEF ConnectTimesOut, reg
  <2>6. QED
    BY <1>6, <2>3, <2>4, <2>5
<1>7. ASSUME NEW h \in Hosts, Pop(h)
      PROVE  HubInv'
  <2> DEFINE gone == Addressed(IF want[h] = 0 THEN active ELSE want[h])
  <2>1. /\ hpc[h] = "pop" /\ hpc' = [hpc EXCEPT ![h] = IF gone = {} THEN "idle" ELSE "join"]
        /\ registry' = registry \ gone /\ mine' = [mine EXCEPT ![h] = gone]
        /\ stopped' = [m \in Managers |-> stopped[m] \/ m \in gone]
        /\ UNCHANGED <<workers, given, made, connectLock>>
    BY <1>7 DEF Pop, HostStep, Keep, locks
  <2>2. gone \in SUBSET registry /\ gone \in SUBSET Managers
    BY DEF Addressed, HubInv, HubType
  <2> HIDE DEF gone
  <2>3. stopped \in [Managers -> BOOLEAN]
    BY DEF HubInv, HubType
  <2>4. /\ stopped' \in [Managers -> BOOLEAN] /\ \A n \in Managers : stopped[n] => stopped'[n]
        /\ gone # {} => stopped'[Min(gone)]
    BY <2>1, <2>2, <2>3, FirstManager
  <2>5. QED
    BY <2>1, <2>2, <2>4, PopKeeps
<1>8. ASSUME NEW h \in Hosts, CloseAll(h)
      PROVE  HubInv'
  <2>1. /\ hpc[h] = "idle" /\ hpc' = [hpc EXCEPT ![h] = "join"] /\ registry # {}
        /\ registry' = registry \ registry /\ mine' = [mine EXCEPT ![h] = registry]
        /\ stopped' = [stopped EXCEPT ![Min(registry)] = TRUE]
        /\ UNCHANGED <<workers, given, made, connectLock>>
    BY <1>8 DEF CloseAll, HostStep, Keep, locks
  <2>2. stopped \in [Managers -> BOOLEAN] /\ registry \in SUBSET Managers
    BY DEF HubInv, HubType
  <2>3. /\ stopped' \in [Managers -> BOOLEAN] /\ \A n \in Managers : stopped[n] => stopped'[n]
        /\ stopped'[Min(registry)]
    BY <2>1, <2>2, FirstManager
  <2>4. QED
    BY <2>1, <2>3, PopKeeps
<1>9. ASSUME NEW h \in Hosts, Connect(h) \/ Join(h)
      PROVE  HubInv'
  BY <1>9, ConnectKeeps, JoinKeeps
<1>10. CASE UNCHANGED vars
  BY <1>10 DEF vars, workers, managers, reg, locks, HubInv, HubType, WorkersTell, RegisteredAnswered,
               CallsKnow, Placed, Distinct, Active, Going, InCall
<1>11. QED
  BY <1>1, <1>2, <1>3, <1>4, <1>5, <1>6, <1>7, <1>8, <1>9, <1>10 DEF Next, Goes

LEMMA HubInvariant == Spec => []HubInv
BY HubInvInit, HubInvStep, PTL DEF Spec

\* No device opened by id is held by two managers that nothing has ended.
THEOREM OneManagerPerDevice == Spec => []ClaimsAreDistinct
<1>1. HubInv => ClaimsAreDistinct
  <2> SUFFICES ASSUME HubInv, NEW m \in Holding, NEW n \in Holding, m # n
               PROVE  Device(m) # Device(n)
    BY DEF ClaimsAreDistinct
  <2>1. \A k \in Holding : k \in Active /\ Device(k) = given[k]
    BY DEF Holding, Active, Going, Claims, Leaving, InCall, Device
  <2>2. QED
    BY <2>1 DEF HubInv, Distinct
<1>2. QED
  BY <1>1, HubInvariant, PTL

\* An open session is in the registry or in the hands of a call, or it was told
\* to stop or is leaving.
THEOREM NoneLeaked == Spec => []NoLeakedSession
<1>1. HubInv => NoLeakedSession
  BY DEF HubInv, HubType, WorkersTell, Placed, Going, InCall, NoLeakedSession, Claims
<1>2. QED
  BY <1>1, HubInvariant, PTL

-----------------------------------------------------------------------------
(***************************************************************************)
(* The keys of the registry.  A new manager gets the first uid that addresses *)
(* no registered camera: there is one, because the manager is not registered  *)
(* itself and the others have a uid each.                                     *)
(***************************************************************************)
UidType ==
  /\ uid \in [Managers -> 0..MaxManagers]
  /\ active \in 0..MaxManagers
  /\ openLock \in Hosts \cup {NoHost}
  /\ connectLock \in Hosts \cup {NoHost}
  /\ want \in [Hosts -> Ids \cup 0..MaxManagers]

\* The manager a host waits for is not registered yet.
AwaitedIsNew == \A h \in Hosts : hpc[h] = "await" => mine[h] \cap registry = {}

\* What select() is about to assign is a uid.
SelectsUid == \A h \in Hosts : hpc[h] = "select" => want[h] \in 0..MaxManagers

\* No two registered managers have the same uid.
UidsApart == \A m, n \in registry : m # n => uid[m] # uid[n]

KeyInv == UidType /\ AwaitedIsNew /\ SelectsUid /\ UidsApart

\* Nothing is registered at first.
LEMMA KeyInvInit == Init => KeyInv
<1> SUFFICES ASSUME Init PROVE KeyInv
  OBVIOUS
<1>1. UidType
  BY HubAssumption DEF Init, UidType
<1> QED
  BY <1>1 DEF Init, KeyInv, AwaitedIsNew, SelectsUid, UidsApart

\* While a manager is not registered, some uid addresses no registered one, and
\* the first such uid is what _register_locked() takes (hub.py:182-199).
LEMMA FreeUidIsFree ==
  ASSUME registry \subseteq Managers, NEW k \in Managers \ registry
  PROVE  FreeUid \in Managers /\ Addressed(FreeUid) = {}
<1> DEFINE free == {u \in Managers : Addressed(u) = {}}
<1>1. IsFiniteSet(Managers)
  BY HubAssumption, FS_Interval DEF Managers
<1>2. IsFiniteSet(registry) /\ Cardinality(registry) < Cardinality(Managers)
  BY <1>1, FS_Subset, FS_CardinalityType
<1>3. free # {}
  <2> SUFFICES ASSUME free = {} PROVE FALSE
    OBVIOUS
  <2> DEFINE keyed == [u \in Managers |-> CHOOSE m \in Addressed(u) : TRUE]
  <2>1. \A u \in Managers : keyed[u] \in registry /\ uid[keyed[u]] = u
    BY DEF Addressed
  <2>2. keyed \in [Managers -> registry]
    BY <2>1
  <2> HIDE DEF keyed
  <2>3. \E u, v \in Managers : u # v /\ keyed[u] = keyed[v]
    BY <1>1, <1>2, <2>2, FS_PigeonHole
  <2> QED
    BY <2>1, <2>3
<1>4. Min(free) \in free /\ Min(free) \in Managers /\ \A y \in free : Min(free) <= y
  BY <1>3, FirstManager
<1>5. \A v \in 1..(Min(free) - 1) : Addressed(v) # {}
  BY <1>4, HubAssumption DEF Managers
<1>6. \E u \in Managers : Addressed(u) = {} /\ \A v \in 1..(u - 1) : Addressed(v) # {}
  BY <1>4, <1>5
<1> QED
  BY <1>6 DEF FreeUid

\* The manager a set comes first with has a uid of its own, or there is none.
LEMMA FirstOfTyped ==
  ASSUME UidType, NEW S \in SUBSET Managers
  PROVE  FirstOf(S) \in 0..MaxManagers
BY FirstManager, HubAssumption DEF FirstOf, UidType

\* Forgetting managers keeps the uids of the others, and as many apart.
LEMMA KeepKeeps ==
  ASSUME UidType, UidsApart, registry \subseteq Managers,
         NEW S \in SUBSET registry, Keep(S)
  PROVE  uid' \in [Managers -> 0..MaxManagers] /\ UidsApart' /\ registry' = S
<1>1. registry' = S /\ uid' = [m \in Managers |-> IF m \in S THEN uid[m] ELSE 0]
  BY DEF Keep
<1>2. uid' \in [Managers -> 0..MaxManagers]
  BY <1>1, HubAssumption DEF UidType
<1>3. \A m \in S : uid'[m] = uid[m]
  BY <1>1
<1> QED
  BY <1>1, <1>2, <1>3 DEF UidsApart

\* A worker's step is not seen by the registry.
LEMMA WorkerKeepsKeys ==
  ASSUME KeyInv, NEW w \in Managers, Worker(w)
  PROVE  KeyInv'
<1>1. UNCHANGED <<managers, reg, locks, hpc, want, mine>>
  BY DEF Worker, Claim, ClaimFails, SetUp, SetUpFails, Leave, Release, Work
<1> QED
  BY <1>1 DEF managers, reg, locks, KeyInv, UidType, AwaitedIsNew, SelectsUid, UidsApart

\* A step that leaves the registry and the active selection alone, and puts no
\* host in front of an assignment or a wait, may give a call a new address.
LEMMA QuietKeepsKeys ==
  ASSUME HubInv, KeyInv, NEW h \in Hosts, NEW w \in Ids \cup 0..MaxManagers,
         NEW p \in HostPCs, p # "await", p = "select" => w \in 0..MaxManagers,
         hpc' = [hpc EXCEPT ![h] = p], want' = [want EXCEPT ![h] = w],
         \A g \in Hosts : g # h => mine'[g] = mine[g],
         openLock' \in Hosts \cup {NoHost}, connectLock' \in Hosts \cup {NoHost},
         UNCHANGED reg, UNCHANGED uid
  PROVE  KeyInv'
<1>1. \A g \in Hosts : /\ hpc'[g] = IF g = h THEN p ELSE hpc[g]
                       /\ want'[g] = IF g = h THEN w ELSE want[g]
  BY DEF HubInv, HubType, KeyInv, UidType
<1>2. UidType'
  BY DEF KeyInv, UidType, reg
<1>3. AwaitedIsNew'
  BY <1>1 DEF KeyInv, AwaitedIsNew, reg
<1>4. SelectsUid'
  BY <1>1 DEF KeyInv, SelectsUid
<1>5. UidsApart'
  BY DEF KeyInv, UidsApart, reg
<1> QED
  BY <1>2, <1>3, <1>4, <1>5 DEF KeyInv

\* So does a step that forgets managers and settles the active selection.
LEMMA ForgetKeepsKeys ==
  ASSUME HubInv, KeyInv, NEW h \in Hosts, NEW w \in Ids \cup 0..MaxManagers,
         NEW p \in HostPCs \ {"await", "select"}, NEW S \in SUBSET registry, Keep(S),
         hpc' = [hpc EXCEPT ![h] = p], want' = [want EXCEPT ![h] = w],
         \A g \in Hosts : g # h => mine'[g] = mine[g],
         openLock' \in Hosts \cup {NoHost}, connectLock' \in Hosts \cup {NoHost},
         active' \in 0..MaxManagers
  PROVE  KeyInv'
<1>1. \A g \in Hosts : /\ hpc'[g] = IF g = h THEN p ELSE hpc[g]
                       /\ want'[g] = IF g = h THEN w ELSE want[g]
  BY DEF HubInv, HubType, KeyInv, UidType
<1>2. uid' \in [Managers -> 0..MaxManagers] /\ UidsApart' /\ registry' = S
  BY KeepKeeps DEF HubInv, HubType, KeyInv
<1>3. UidType'
  BY <1>2 DEF KeyInv, UidType
<1>4. AwaitedIsNew'
  BY <1>1, <1>2 DEF KeyInv, AwaitedIsNew
<1>5. SelectsUid'
  BY <1>1 DEF KeyInv, SelectsUid
<1> QED
  BY <1>2, <1>3, <1>4, <1>5 DEF KeyInv

\* The new manager of a connect was never registered.
LEMMA ConnectKeepsKeys ==
  ASSUME HubInv, KeyInv, NEW h \in Hosts, Connect(h)
  PROVE  KeyInv'
<1>1. /\ hpc' = [hpc EXCEPT ![h] = "await"] /\ mine' = [mine EXCEPT ![h] = {made + 1}]
      /\ Keep(Living) /\ made < MaxManagers
      /\ active' = active \/ active' = FirstOf(Living)
      /\ connectLock' = h /\ UNCHANGED <<openLock, want>>
  BY DEF Connect, HostStep, Reap
<1>2. Living \in SUBSET registry /\ Living \in SUBSET Managers
  BY DEF Living, HubInv, HubType
<1>3. uid' \in [Managers -> 0..MaxManagers] /\ UidsApart' /\ registry' = Living
  BY <1>1, <1>2, KeepKeeps DEF HubInv, HubType, KeyInv
<1>4. UidType'
  BY <1>1, <1>2, <1>3, FirstOfTyped DEF KeyInv, UidType
<1>5. made + 1 \notin registry
  <2>1. made + 1 \in Managers /\ made + 1 > made
    BY <1>1, HubAssumption DEF Managers, HubInv, HubType
  <2>2. answer[made + 1] # "ok"
    BY <2>1 DEF HubInv, WorkersTell
  <2> QED
    BY <2>2 DEF HubInv, RegisteredAnswered
<1>6. AwaitedIsNew'
  <2>1. \A g \in Hosts : g # h => hpc'[g] = hpc[g] /\ mine'[g] = mine[g]
    BY <1>1 DEF HubInv, HubType
  <2>2. mine'[h] = {made + 1}
    BY <1>1 DEF HubInv, HubType
  <2> QED
    BY <1>2, <1>3, <1>5, <2>1, <2>2 DEF KeyInv, AwaitedIsNew
<1>7. SelectsUid'
  BY <1>1 DEF KeyInv, SelectsUid, HubInv, HubType
<1> QED
  BY <1>3, <1>4, <1>6, <1>7 DEF KeyInv

\* A registration gives the manager a uid no registered one has; nobody else is
\* waiting, for want of the mutex.
LEMMA RegisterKeepsKeys ==
  ASSUME HubInv, KeyInv, NEW h \in Hosts, Register(h)
  PROVE  KeyInv'
<1>1. PICK m \in mine[h] : /\ uid' = [uid EXCEPT ![m] = FreeUid]
                           /\ registry' = registry \cup {m}
  BY DEF Register
<1>2. /\ hpc[h] = "await" /\ hpc' = [hpc EXCEPT ![h] = "idle"]
      /\ mine' = [mine EXCEPT ![h] = {}] /\ want' = [want EXCEPT ![h] = 0]
      /\ active' = FreeUid /\ connectLock' = NoHost
      /\ openLock' = IF openLock = h THEN NoHost ELSE openLock
  BY DEF Register, Return, HostStep, Unlock
<1>3. m \in Managers \ registry
  BY <1>2 DEF HubInv, HubType, KeyInv, AwaitedIsNew
<1>4. FreeUid \in Managers /\ Addressed(FreeUid) = {}
  BY <1>3, FreeUidIsFree DEF HubInv, HubType
<1>5. FreeUid \in 0..MaxManagers /\ \A k \in registry : uid[k] # FreeUid
  BY <1>4, HubAssumption DEF Managers, Addressed
<1>6. uid \in [Managers -> 0..MaxManagers]
  BY DEF KeyInv, UidType
<1>7. UidType'
  <2>1. uid' \in [Managers -> 0..MaxManagers]
    BY <1>1, <1>5, <1>6
  <2>2. want' \in [Hosts -> Ids \cup 0..MaxManagers]
    BY <1>2, HubAssumption DEF KeyInv, UidType
  <2> QED
    BY <1>2, <1>5, <2>1, <2>2 DEF KeyInv, UidType
<1>8. AwaitedIsNew'
  BY <1>2, HubAssumption DEF AwaitedIsNew, HubInv, HubType, CallsKnow
<1>9. SelectsUid'
  BY <1>2 DEF KeyInv, SelectsUid, HubInv, HubType, UidType
<1>10. UidsApart'
  <2>1. \A k \in Managers : uid'[k] = IF k = m THEN FreeUid ELSE uid[k]
    BY <1>1, <1>3, <1>6
  <2> QED
    BY <1>1, <1>3, <1>5, <2>1 DEF KeyInv, UidsApart, HubInv, HubType
<1> QED
  BY <1>7, <1>8, <1>9, <1>10 DEF KeyInv

\* KeyInv is inductive, beside HubInv.
LEMMA KeyInvStep == HubInv /\ KeyInv /\ [Next]_vars => KeyInv'
<1> SUFFICES ASSUME HubInv, KeyInv, [Next]_vars PROVE KeyInv'
  OBVIOUS
<1>a. /\ openLock \in Hosts \cup {NoHost} /\ connectLock \in Hosts \cup {NoHost}
      /\ active \in 0..MaxManagers /\ 0 \in 0..MaxManagers
      /\ want \in [Hosts -> Ids \cup 0..MaxManagers]
      /\ uid \in [Managers -> 0..MaxManagers]
      /\ registry \subseteq Managers /\ mine \in [Hosts -> SUBSET Managers]
  BY HubAssumption DEF KeyInv, UidType, HubInv, HubType
<1>1. CASE \E m \in Managers : Worker(m)
  BY <1>1, WorkerKeepsKeys
<1>2. ASSUME NEW h \in Hosts, NEW id \in Ids, Open(h, id) \/ HubConnect(h, id)
      PROVE  KeyInv'
  <2>1. /\ \E p \in {"open", "resolve"} : hpc' = [hpc EXCEPT ![h] = p]
        /\ want' = [want EXCEPT ![h] = id] /\ mine' = mine
        /\ openLock' \in {h, openLock} /\ connectLock' = connectLock
        /\ UNCHANGED <<reg, uid>>
    BY <1>2 DEF Open, HubConnect, HostStep, managers, locks
  <2> QED
    BY <1>a, <2>1, QuietKeepsKeys DEF HostPCs
<1>3. ASSUME NEW h \in Hosts, NEW u \in 0..MaxManagers, Close(h, u) \/ Select(h, u)
      PROVE  KeyInv'
  <2>1. /\ \E p \in {"pop", "select"} : hpc' = [hpc EXCEPT ![h] = p]
        /\ want' = [want EXCEPT ![h] = u] /\ mine' = mine
        /\ UNCHANGED <<reg, uid, openLock, connectLock>>
    BY <1>3 DEF Close, Select, HostStep, managers, locks
  <2> QED
    BY <1>a, <2>1, QuietKeepsKeys DEF HostPCs
<1>4. ASSUME NEW h \in Hosts, ReadActive(h) \/ NotOpen(h)
      PROVE  KeyInv'
  <2>1. /\ \E p \in {"check", "resolve"} : hpc' = [hpc EXCEPT ![h] = p]
        /\ \E w \in {active, Default} : want' = [want EXCEPT ![h] = w]
        /\ UNCHANGED <<mine, reg, uid, openLock, connectLock>>
    BY <1>4 DEF ReadActive, NotOpen, HostStep, managers, locks
  <2>2. Default \in Ids
    BY DEF Ids
  <2> QED
    BY <1>a, <2>1, <2>2, QuietKeepsKeys DEF HostPCs
<1>5. ASSUME NEW h \in Hosts, AlreadyOpen(h) \/ ConnectFails(h) \/ ConnectTimesOut(h)
      PROVE  KeyInv'
  <2>1. /\ hpc' = [hpc EXCEPT ![h] = "idle"] /\ want' = [want EXCEPT ![h] = 0]
        /\ mine' = [mine EXCEPT ![h] = {}]
        /\ openLock' \in {NoHost, openLock} /\ connectLock' \in {NoHost, connectLock}
        /\ UNCHANGED <<reg, uid>>
    BY <1>5 DEF AlreadyOpen, ConnectFails, ConnectTimesOut, Return, HostStep, Unlock, managers
  <2>2. \A g \in Hosts : g # h => mine'[g] = mine[g]
    BY <1>a, <2>1
  <2> QED
    BY <1>a, <2>1, <2>2, QuietKeepsKeys DEF HostPCs
<1>6. ASSUME NEW h \in Hosts, Assign(h)
      PROVE  KeyInv'
  <2>1. /\ hpc[h] = "select" /\ hpc' = [hpc EXCEPT ![h] = "idle"]
        /\ want' = [want EXCEPT ![h] = 0] /\ mine' = [mine EXCEPT ![h] = {}]
        /\ active' = want[h] /\ UNCHANGED <<registry, uid, openLock, connectLock>>
    BY <1>6 DEF Assign, Return, HostStep, managers, locks
  <2>2. want[h] \in 0..MaxManagers
    BY <2>1 DEF KeyInv, SelectsUid
  <2>3. UidType'
    BY <1>a, <2>1, <2>2 DEF UidType
  <2>4. AwaitedIsNew' /\ SelectsUid'
    BY <1>a, <2>1 DEF KeyInv, AwaitedIsNew, SelectsUid, HubInv, HubType
  <2>5. UidsApart'
    BY <2>1 DEF KeyInv, UidsApart
  <2> QED
    BY <2>3, <2>4, <2>5 DEF KeyInv
<1>7. ASSUME NEW h \in Hosts, JoinExisting(h)
      PROVE  KeyInv'
  <2>1. /\ hpc' = [hpc EXCEPT ![h] = "idle"] /\ want' = [want EXCEPT ![h] = 0]
        /\ mine' = [mine EXCEPT ![h] = {}] /\ Keep(Living)
        /\ openLock' \in {NoHost, openLock} /\ connectLock' = NoHost
    BY <1>7 DEF JoinExisting, Return, HostStep, Unlock
  <2>2. active' \in 0..MaxManagers
    BY <1>7, <1>a DEF JoinExisting, Existing, Living
  <2>3. Living \in SUBSET registry
    BY DEF Living
  <2>4. \A g \in Hosts : g # h => mine'[g] = mine[g]
    BY <1>a, <2>1
  <2> QED
    BY <1>a, <2>1, <2>2, <2>3, <2>4, ForgetKeepsKeys DEF HostPCs
<1>8. ASSUME NEW h \in Hosts, Pop(h)
      PROVE  KeyInv'
  <2> DEFINE u    == IF want[h] = 0 THEN active ELSE want[h]
             gone == Addressed(u)
  <2>1. /\ \E p \in {"idle", "join"} : hpc' = [hpc EXCEPT ![h] = p]
        /\ want' = [want EXCEPT ![h] = 0] /\ mine' = [mine EXCEPT ![h] = gone]
        /\ Keep(registry \ gone)
        /\ active' = IF active = u THEN FirstOf(registry \ gone) ELSE active
        /\ UNCHANGED <<openLock, connectLock>>
    BY <1>8 DEF Pop, HostStep, locks
  <2> HIDE DEF gone, u
  <2>2. FirstOf(registry \ gone) \in 0..MaxManagers
    BY <1>a, FirstOfTyped DEF KeyInv
  <2>3. \A g \in Hosts : g # h => mine'[g] = mine[g]
    BY <1>a, <2>1
  <2> QED
    BY <1>a, <2>1, <2>2, <2>3, ForgetKeepsKeys DEF HostPCs
<1>9. ASSUME NEW h \in Hosts, CloseAll(h)
      PROVE  KeyInv'
  <2>1. /\ hpc' = [hpc EXCEPT ![h] = "join"] /\ want' = want
        /\ mine' = [mine EXCEPT ![h] = registry] /\ Keep({}) /\ active' = 0
        /\ UNCHANGED <<openLock, connectLock>>
    BY <1>9 DEF CloseAll, HostStep, locks
  <2>2. want' = [want EXCEPT ![h] = want[h]] /\ want[h] \in Ids \cup 0..MaxManagers
    BY <1>a, <2>1
  <2>3. \A g \in Hosts : g # h => mine'[g] = mine[g]
    BY <1>a, <2>1
  <2> QED
    BY <1>a, <2>1, <2>2, <2>3, ForgetKeepsKeys DEF HostPCs
<1>10. ASSUME NEW h \in Hosts, Join(h)
      PROVE  KeyInv'
  <2>1. /\ \E p \in {"idle", "join"} : hpc' = [hpc EXCEPT ![h] = p]
        /\ \A g \in Hosts : g # h => mine'[g] = mine[g]
        /\ UNCHANGED <<want, reg, uid, openLock, connectLock>>
    BY <1>10, <1>a DEF Join, managers, locks
  <2>2. want' = [want EXCEPT ![h] = want[h]] /\ want[h] \in Ids \cup 0..MaxManagers
    BY <1>a, <2>1
  <2> QED
    BY <1>a, <2>1, <2>2, QuietKeepsKeys DEF HostPCs
<1>11. ASSUME NEW h \in Hosts, Connect(h) \/ Register(h)
      PROVE  KeyInv'
  BY <1>11, ConnectKeepsKeys, RegisterKeepsKeys
<1>12. CASE UNCHANGED vars
  BY <1>12 DEF vars, managers, reg, locks, KeyInv, UidType, AwaitedIsNew, SelectsUid, UidsApart
<1> QED
  BY <1>1, <1>2, <1>3, <1>4, <1>5, <1>6, <1>7, <1>8, <1>9, <1>10, <1>11, <1>12 DEF Next, Goes

LEMMA KeyInvariant == Spec => []KeyInv
BY HubInvariant, KeyInvInit, KeyInvStep, PTL DEF Spec

\* What the registry, its locks, the workers and the calls hold is what they are
\* declared for: the active selection and every uid are keys the hub made
\* (hub.py:182-199, 221-239).
THEOREM HubTyped == Spec => []TypeOK
<1>1. HubInv /\ KeyInv => TypeOK
  BY DEF HubInv, HubType, KeyInv, UidType, TypeOK
<1> QED
  BY <1>1, HubInvariant, KeyInvariant, PTL

\* A uid addresses one registered camera at most, so a call that names it reaches
\* the session it was given for while that is registered (hub.py:182-219).
THEOREM OneCameraPerUid ==
  Spec => [](\A m, n \in registry : uid[m] = uid[n] => m = n)
<1>1. KeyInv => \A m, n \in registry : uid[m] = uid[n] => m = n
  BY DEF KeyInv, UidsApart
<1> QED
  BY <1>1, KeyInvariant, PTL
=============================================================================
