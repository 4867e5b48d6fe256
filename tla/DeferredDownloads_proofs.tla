----------------------- MODULE DeferredDownloads_proofs -----------------------
(***************************************************************************)
(* For any number of files, sessions and events: a file announced while      *)
(* downloads are local is in the queue, once, until an event says what       *)
(* became of it, and the act its photo event names is one it was announced   *)
(* after.                                                                  *)
(***************************************************************************)
EXTENDS DeferredDownloads, SequenceTheorems, TLAPS

\* The types, in two parts: the flags, and what is data or a program counter.
FlagsType ==
  /\ fetchNow \in BOOLEAN /\ auto \in BOOLEAN /\ busy \in BOOLEAN /\ local \in BOOLEAN
  /\ stop \in BOOLEAN /\ flushReq \in BOOLEAN /\ armed \in BOOLEAN /\ progress \in BOOLEAN

DataType ==
  /\ shots \in 0..MaxFiles
  /\ seen \in [Files -> SUBSET (0..MaxFiles)]
  /\ inflight \subseteq Files
  /\ camq \in Seq(Files)
  /\ session \in 1..MaxSessions
  /\ triggerSeq \in 0..MaxFiles
  /\ queue \in Seq(Entry)
  /\ keys \subseteq Files
  /\ pending \in Nat
  /\ wpc \in WorkerPCs
  /\ ret \in {"top", "service", "final_flush", "exit"}
  /\ log \subseteq Entry
  /\ wanted \subseteq Files
  /\ told \subseteq Files

\* A worker that fetches or removes has something to, and removes only a file
\* whose fate has been reported.
HeadInHand ==
  /\ wpc \in {"fetch", "remove", "valve", "valve_remove"} => queue # <<>>
  /\ wpc \in {"remove", "valve_remove"} => Head(queue).file \in told

\* Every row, of the queue or of the log, has a stamp its file was announced after.
StampsSeen ==
  /\ \A i \in DOMAIN queue : queue[i].stamp \in seen[queue[i].file]
  /\ \A e \in log : e.stamp \in seen[e.file]

QueueInv == DataType /\ HeadInHand /\ StampsSeen /\ Custody

\* What Append and Tail do to the queue.
LEMMA Appended ==
  ASSUME NEW q \in Seq(Entry), NEW e \in Entry
  PROVE  /\ Append(q, e) \in Seq(Entry)
         /\ Len(Append(q, e)) = Len(q) + 1
         /\ DOMAIN Append(q, e) = 1 .. Len(q) + 1
         /\ \A i \in 1 .. Len(q) : Append(q, e)[i] = q[i]
         /\ Append(q, e)[Len(q) + 1] = e
         /\ DOMAIN q = 1 .. Len(q) /\ Len(q) \in Nat
BY AppendProperties, LenProperties

LEMMA Removed ==
  ASSUME NEW q \in Seq(Entry), q # <<>>
  PROVE  /\ Head(q) \in Entry /\ Head(q) = q[1]
         /\ Tail(q) \in Seq(Entry)
         /\ Len(q) \in Nat \ {0} /\ Len(Tail(q)) = Len(q) - 1
         /\ DOMAIN q = 1 .. Len(q) /\ DOMAIN Tail(q) = 1 .. Len(q) - 1
         /\ \A i \in 1 .. Len(q) - 1 : Tail(q)[i] = q[i + 1]
BY HeadTailProperties, LenProperties, EmptySeq

-----------------------------------------------------------------------------
\* What the steps that touch the queue or the fate of a file have to keep.
Kept ==
  /\ queue \in Seq(Entry) /\ keys \subseteq Files /\ pending \in Nat
  /\ seen \in [Files -> SUBSET (0..MaxFiles)]
  /\ log \subseteq Entry /\ wanted \subseteq Files /\ told \subseteq Files
  /\ StampsSeen /\ Custody

\* A new file joins the queue.
LEMMA EnqueueKeeps ==
  ASSUME QueueInv, NEW f \in Files, IsNew(f), Enqueue(f), UNCHANGED rvars,
         wanted' = wanted \cup {f}, seen' = [seen EXCEPT ![f] = @ \cup {triggerSeq}]
  PROVE  Kept'
<1> DEFINE e == Stamp(f)
           n == Len(queue) + 1
<1>1. e \in Entry /\ e.file = f /\ e.stamp = triggerSeq /\ triggerSeq \in 0..MaxFiles
  BY DEF Stamp, Entry, QueueInv, DataType
<1>2. queue' = Append(queue, e) /\ keys' = keys \cup {f} /\ pending' = n
  BY DEF Enqueue
<1>3. /\ queue' \in Seq(Entry) /\ Len(queue') = n /\ DOMAIN queue' = 1..n
      /\ \A i \in 1..Len(queue) : queue'[i] = queue[i]
      /\ queue'[n] = e
      /\ DOMAIN queue = 1..Len(queue) /\ Len(queue) \in Nat
  BY <1>1, <1>2, Appended DEF QueueInv, DataType
<1> HIDE DEF e
<1>4. \A i \in DOMAIN queue : queue[i] \in Entry /\ queue[i].file \in Files
  BY <1>3, ElementOfSeq DEF QueueInv, DataType, Entry
<1>5. f \notin Queued /\ Queued' = Queued \cup {f}
  <2>1. f \notin Queued
    BY DEF IsNew, QueueInv, Custody, QueuedOnce
  <2>2. \A i \in 1..n : queue'[i].file = IF i = n THEN f ELSE queue[i].file
    BY <1>1, <1>3
  <2>3. QED
    BY <1>3, <2>1, <2>2 DEF Queued
<1>6. QueuedOnce'
  BY <1>1, <1>2, <1>3, <1>5 DEF QueueInv, Custody, QueuedOnce, Queued
<1>7. NothingLost'
  BY <1>5 DEF rvars, QueueInv, Custody, NothingLost
<1>8. StampsSeen'
  <2>1. seen'[f] = seen[f] \cup {triggerSeq} /\ \A g \in Files : seen[g] \subseteq seen'[g]
    BY DEF QueueInv, DataType
  <2>2. \A i \in DOMAIN queue' : queue'[i].stamp \in seen'[queue'[i].file]
    BY <1>1, <1>3, <1>4, <2>1 DEF QueueInv, StampsSeen
  <2>3. \A r \in log' : r.stamp \in seen'[r.file]
    BY <2>1 DEF rvars, QueueInv, StampsSeen, DataType, Entry
  <2>4. QED
    BY <2>2, <2>3 DEF StampsSeen
<1>9. QED
  BY <1>1, <1>2, <1>3, <1>6, <1>7, <1>8 DEF Kept, Custody, QueueInv, DataType, rvars

\* A file fetched when it is announced never enters the queue.
LEMMA FetchNowKeeps ==
  ASSUME QueueInv, NEW f \in Files, Land(Stamp(f)) \/ Report(Stamp(f)), UNCHANGED qvars,
         wanted' = wanted \cup {f}, seen' = [seen EXCEPT ![f] = @ \cup {triggerSeq}]
  PROVE  Kept'
<1> DEFINE e == Stamp(f)
<1>1. e \in Entry /\ e.file = f /\ e.stamp = triggerSeq
  BY DEF Stamp, Entry, QueueInv, DataType
<1>2. told' = told \cup {f} /\ log' \subseteq log \cup {e}
  BY <1>1 DEF Land, Report
<1> HIDE DEF e
<1>3. seen'[f] = seen[f] \cup {triggerSeq} /\ \A g \in Files : seen[g] \subseteq seen'[g]
  BY DEF QueueInv, DataType
<1>4. \A i \in DOMAIN queue : queue[i].file \in Files
  BY ElementOfSeq, LenProperties DEF QueueInv, DataType, Entry
<1>5. Custody'
  BY <1>2 DEF qvars, QueueInv, Custody, NothingLost, QueuedOnce, Queued
<1>6. StampsSeen'
  BY <1>1, <1>2, <1>3, <1>4 DEF qvars, QueueInv, StampsSeen, DataType, Entry
<1>7. QED
  BY <1>1, <1>2, <1>5, <1>6 DEF qvars, Kept, QueueInv, DataType

\* So an announcement keeps everything.
LEMMA AnnounceKeeps ==
  ASSUME QueueInv, camq # <<>>, Announce
  PROVE  Kept' /\ camq' \in Seq(Files)
<1> DEFINE f == Head(camq)
<1>1. f \in Files /\ camq' \in Seq(Files)
  BY HeadTailProperties DEF QueueInv, DataType, Announce
<1>2. CASE ~IsNew(f) \/ ~local
  <2>1. UNCHANGED <<qvars, fvars>>
    BY <1>2 DEF Announce
  <2>2. QED
    BY <1>1, <2>1 DEF qvars, fvars, wvars, rvars, Kept, QueueInv, DataType, StampsSeen, Custody,
                      NothingLost, QueuedOnce, Queued
<1>3. CASE IsNew(f) /\ local
  <2>1. wanted' = wanted \cup {f} /\ seen' = [seen EXCEPT ![f] = @ \cup {triggerSeq}]
    BY <1>3 DEF Announce
  <2>2. CASE (Land(Stamp(f)) \/ Report(Stamp(f))) /\ UNCHANGED qvars
    BY <1>1, <2>1, <2>2, FetchNowKeeps
  <2>3. CASE Enqueue(f) /\ UNCHANGED rvars
    BY <1>1, <1>3, <2>1, <2>3, EnqueueKeeps
  <2>4. QED
    BY <1>3, <2>2, <2>3 DEF Announce
<1>4. QED
  BY <1>2, <1>3

\* A fetch tells what became of the head of the queue.
LEMMA FetchKeeps ==
  ASSUME QueueInv, queue # <<>>, Land(Head(queue)) \/ Report(Head(queue)),
         UNCHANGED <<qvars, wvars>>
  PROVE  Kept' /\ (Head(queue).file \in told)'
<1>1. /\ Head(queue) \in Entry /\ Head(queue).file \in Files
      /\ Head(queue) = queue[1] /\ 1 \in DOMAIN queue
  <2>1. queue \in Seq(Entry)
    BY DEF QueueInv, DataType
  <2>2. /\ Head(queue) \in Entry /\ Head(queue) = queue[1]
        /\ Len(queue) \in Nat \ {0} /\ DOMAIN queue = 1 .. Len(queue)
    BY <2>1, Removed
  <2>3. QED
    BY <2>2 DEF Entry
<1>2. /\ told' = told \cup {Head(queue).file} /\ log' \subseteq log \cup {Head(queue)}
      /\ UNCHANGED <<queue, keys, pending, wanted, seen>>
  BY DEF Land, Report, qvars, wvars
<1>3. Custody'
  BY <1>2 DEF QueueInv, Custody, NothingLost, QueuedOnce, Queued
<1>4. StampsSeen'
  BY <1>1, <1>2 DEF QueueInv, StampsSeen
<1>5. QED
  BY <1>1, <1>2, <1>3, <1>4 DEF Kept, QueueInv, DataType

\* The head leaves the queue, with its key, and nothing else does.
LEMMA RemoveKeeps ==
  ASSUME QueueInv, queue # <<>>, Head(queue).file \in told,
         queue' = Tail(queue), keys' = keys \ {Head(queue).file}, pending' = Len(queue) - 1,
         UNCHANGED fvars
  PROVE  Kept'
<1>1. /\ Head(queue) \in Entry /\ Head(queue) = queue[1]
      /\ queue' \in Seq(Entry)
      /\ Len(queue) \in Nat \ {0} /\ Len(queue') = Len(queue) - 1
      /\ DOMAIN queue = 1 .. Len(queue) /\ DOMAIN queue' = 1 .. Len(queue) - 1
      /\ \A i \in 1 .. Len(queue) - 1 : queue'[i] = queue[i + 1]
  BY Removed DEF QueueInv, DataType
<1>2. \A i, j \in 1 .. Len(queue) : queue[i].file = queue[j].file => i = j
  BY <1>1 DEF QueueInv, Custody, QueuedOnce
<1>3. Queued' = Queued \ {Head(queue).file}
  <2>1. ASSUME NEW f \in Queued' PROVE f \in Queued /\ f # Head(queue).file
    <3>1. PICK i \in 1 .. Len(queue) - 1 : f = queue[i + 1].file
      BY <1>1 DEF Queued
    <3>2. i + 1 \in 1 .. Len(queue) /\ i + 1 # 1 /\ 1 \in 1 .. Len(queue)
      BY <1>1
    <3>3. QED
      BY <1>1, <1>2, <3>1, <3>2 DEF Queued
  <2>2. ASSUME NEW f \in Queued, f # Head(queue).file PROVE f \in Queued'
    <3>1. PICK i \in 1 .. Len(queue) : f = queue[i].file
      BY <1>1 DEF Queued
    <3>2. i - 1 \in 1 .. Len(queue) - 1 /\ queue'[i - 1] = queue[i]
      BY <1>1, <2>2, <3>1
    <3>3. QED
      BY <1>1, <3>1, <3>2 DEF Queued
  <2>3. QED
    BY <2>1, <2>2
<1>4. QueuedOnce'
  <2>1. \A i, j \in DOMAIN queue' : queue'[i].file = queue'[j].file => i = j
    <3> SUFFICES ASSUME NEW i \in 1 .. Len(queue) - 1, NEW j \in 1 .. Len(queue) - 1,
                        queue'[i].file = queue'[j].file
                 PROVE  i = j
      BY <1>1
    <3>1. i + 1 = j + 1
      BY <1>1, <1>2
    <3>2. QED
      BY <3>1
  <2>2. QED
    BY <1>1, <1>3, <2>1 DEF QueueInv, Custody, QueuedOnce
<1>5. NothingLost'
  BY <1>3 DEF fvars, wvars, rvars, QueueInv, Custody, NothingLost
<1>6. StampsSeen'
  BY <1>1 DEF fvars, wvars, rvars, QueueInv, StampsSeen
<1>7. QED
  BY <1>1, <1>4, <1>5, <1>6 DEF fvars, wvars, rvars, Kept, Custody, QueueInv, DataType

-----------------------------------------------------------------------------
\* Every step keeps what there is to say about files and the queue.
LEMMA FilesStep ==
  ASSUME QueueInv, Next
  PROVE  Kept'
<1> DEFINE Same == UNCHANGED <<qvars, fvars>>
<1>1. ASSUME Same PROVE Kept'
  BY <1>1 DEF qvars, fvars, wvars, rvars, Kept, QueueInv, DataType, StampsSeen, Custody,
              NothingLost, QueuedOnce, Queued
<1>2. CASE PollEvent \/ DrainEvent
  BY <1>2, AnnounceKeeps DEF PollEvent, DrainEvent
<1>3. CASE Fetch("fetch", "remove") \/ Fetch("valve", "valve_remove")
  BY <1>3, FetchKeeps DEF Fetch, Goto, QueueInv, HeadInHand
<1>4. CASE Remove("remove", "flush") \/ Remove("valve_remove", "top")
  BY <1>4, RemoveKeeps DEF Remove, Goto, QueueInv, HeadInHand
<1>5. CASE \/ \E n \in 0..2 : Fire(n)
           \/ LoopTop \/ OpenWindow \/ PollEnds \/ DrainEnds \/ FlushNext \/ FlushEnds
  BY <1>1, <1>5 DEF Fire, LoopTop, OpenWindow, PollEnds, DrainEnds, FlushNext, FlushEnds
<1>6. CASE \/ ServiceFlush \/ ServiceAged \/ ServiceNothing
           \/ LeaveLoop(stop) \/ LeaveLoop(TRUE) \/ FinalFlush \/ Exit
  BY <1>1, <1>6 DEF ServiceFlush, ServiceAged, ServiceNothing, LeaveLoop, FinalFlush, Exit
<1>7. CASE \/ \E b \in BOOLEAN : SetAuto(b) \/ SetPolicy(b)
           \/ Disconnect \/ Environment
  BY <1>1, <1>7 DEF SetAuto, SetPolicy, Disconnect, Environment, CameraAnnounces, CameraRepeats
<1>8. CASE Reconnect
  <2>1. UNCHANGED <<queue, keys, pending, told, wanted>> /\ log' = {}
    BY <1>8 DEF Reconnect, qvars
  <2>2. seen' = [f \in Files |-> IF f \in Queued THEN 0..MaxFiles ELSE {}]
    BY <1>8 DEF Reconnect
  <2>3. \A i \in DOMAIN queue : queue[i] \in Entry
    BY ElementOfSeq, LenProperties DEF QueueInv, DataType
  <2>4. \A i \in DOMAIN queue : queue[i].stamp \in seen'[queue[i].file]
    BY <2>2, <2>3 DEF Entry, Queued
  <2>5. StampsSeen'
    BY <2>1, <2>4 DEF StampsSeen
  <2>6. Custody'
    BY <2>1 DEF QueueInv, Custody, NothingLost, QueuedOnce, Queued
  <2>7. QED
    BY <2>1, <2>2, <2>5, <2>6 DEF Kept, QueueInv, DataType
<1>9. QED
  BY <1>2, <1>3, <1>4, <1>5, <1>6, <1>7, <1>8 DEF Next, LoopOrLost, Worker, Hosts

\* Every step keeps the head of the queue in hand.
LEMMA HeadStep ==
  ASSUME QueueInv, Next
  PROVE  HeadInHand'
<1> USE DEF HeadInHand
<1>1. CASE Fetch("fetch", "remove") \/ Fetch("valve", "valve_remove")
  BY <1>1, FetchKeeps DEF Fetch, Goto, QueueInv, qvars
<1>2. CASE \/ Remove("remove", "flush") \/ Remove("valve_remove", "top")
           \/ PollEvent \/ DrainEvent
  BY <1>2 DEF Remove, PollEvent, DrainEvent, Goto
<1>3. CASE \/ \E n \in 0..2 : Fire(n)
           \/ LoopTop \/ OpenWindow \/ PollEnds \/ DrainEnds \/ FlushNext \/ FlushEnds
  BY <1>3 DEF Fire, LoopTop, OpenWindow, PollEnds, DrainEnds, FlushNext, FlushEnds, Goto,
              QueueInv, DataType, qvars
<1>4. CASE ServiceAged
  BY <1>4, EmptySeq DEF ServiceAged, Goto, qvars, QueueInv, Custody, QueuedOnce
<1>5. CASE \/ ServiceFlush \/ ServiceNothing
           \/ LeaveLoop(stop) \/ LeaveLoop(TRUE) \/ FinalFlush \/ Exit
  BY <1>5 DEF ServiceFlush, ServiceNothing, LeaveLoop, FinalFlush, Exit, Goto
<1>6. CASE \/ \E b \in BOOLEAN : SetAuto(b) \/ SetPolicy(b)
           \/ Disconnect \/ Environment
  BY <1>6 DEF SetAuto, SetPolicy, Disconnect, Environment, CameraAnnounces, CameraRepeats,
              QueueInv, qvars, fvars, rvars
<1>7. CASE Reconnect
  BY <1>7 DEF Reconnect, Goto
<1>8. QED
  BY <1>1, <1>2, <1>3, <1>4, <1>5, <1>6, <1>7 DEF Next, LoopOrLost, Worker, Hosts

\* Every step keeps the camera, the counters and the program counter well typed.
LEMMA DataStep ==
  ASSUME QueueInv, Next
  PROVE  DataType'
<1> SUFFICES /\ (shots \in 0..MaxFiles)' /\ (inflight \subseteq Files)'
             /\ (camq \in Seq(Files))' /\ (session \in 1..MaxSessions)'
             /\ (triggerSeq \in 0..MaxFiles)' /\ (wpc \in WorkerPCs)'
             /\ (ret \in {"top", "service", "final_flush", "exit"})'
  BY FilesStep DEF DataType, Kept
<1> USE DownloadsAssumption DEF DataType, WorkerPCs, QueueInv, Goto
<1>1. CASE PollEvent \/ DrainEvent
  BY <1>1, AnnounceKeeps DEF PollEvent, DrainEvent, svars
<1>2. CASE \E n \in 0..2 : Fire(n)
  BY <1>2 DEF Fire, Files
<1>3. CASE LoopTop \/ OpenWindow \/ PollEnds \/ DrainEnds \/ FlushNext \/ FlushEnds
  BY <1>3 DEF LoopTop, OpenWindow, PollEnds, DrainEnds, FlushNext, FlushEnds, cvars, svars
<1>4. CASE \/ Fetch("fetch", "remove") \/ Fetch("valve", "valve_remove")
           \/ Remove("remove", "flush") \/ Remove("valve_remove", "top")
  BY <1>4 DEF Fetch, Remove, cvars, svars
<1>5. CASE \/ ServiceFlush \/ ServiceAged \/ ServiceNothing
           \/ LeaveLoop(stop) \/ LeaveLoop(TRUE) \/ FinalFlush \/ Exit
  BY <1>5 DEF ServiceFlush, ServiceAged, ServiceNothing, LeaveLoop, FinalFlush, Exit, cvars, svars
<1>6. CASE \/ \E b \in BOOLEAN : SetAuto(b) \/ SetPolicy(b)
           \/ Disconnect
  BY <1>6 DEF SetAuto, SetPolicy, Disconnect, cvars, svars
<1>7. CASE Environment
  <2> SUFFICES ASSUME NEW f \in Files, CameraAnnounces(f) \/ CameraRepeats(f)
               PROVE  /\ shots' \in 0..MaxFiles /\ inflight' \subseteq Files
                      /\ camq' \in Seq(Files) /\ session' \in 1..MaxSessions
                      /\ triggerSeq' \in 0..MaxFiles /\ wpc' \in WorkerPCs
                      /\ ret' \in {"top", "service", "final_flush", "exit"}
    BY <1>7 DEF Environment
  <2>1. camq \in Seq(Files)
    OBVIOUS
  <2>2. Append(camq, f) \in Seq(Files)
    BY <2>1, AppendProperties
  <2>3. QED
    BY <2>2 DEF CameraAnnounces, CameraRepeats, svars
<1>8. CASE Reconnect
  BY <1>8, EmptySeq DEF Reconnect
<1>9. QED
  BY <1>1, <1>2, <1>3, <1>4, <1>5, <1>6, <1>7, <1>8 DEF Next, LoopOrLost, Worker, Hosts

-----------------------------------------------------------------------------
\* The initial states satisfy the invariant.
LEMMA InitQueue == Init => QueueInv
<1> SUFFICES ASSUME Init PROVE QueueInv
  OBVIOUS
<1>1. queue = <<>> /\ DOMAIN queue = {} /\ Len(queue) = 0 /\ queue \in Seq(Entry) /\ camq \in Seq(Files)
  BY EmptySeq, LenProperties DEF Init
<1>2. DataType
  BY <1>1, DownloadsAssumption DEF Init, DataType, WorkerPCs
<1>3. HeadInHand /\ StampsSeen
  BY <1>1 DEF Init, HeadInHand, StampsSeen
<1>4. Custody
  BY <1>1 DEF Init, Custody, NothingLost, QueuedOnce, Queued
<1>5. QED
  BY <1>2, <1>3, <1>4 DEF QueueInv

\* Every reachable state satisfies it.
LEMMA QueueInvariant == Spec => []QueueInv
<1>1. QueueInv /\ [Next]_vars => QueueInv'
  <2> SUFFICES ASSUME QueueInv, [Next]_vars PROVE QueueInv'
    OBVIOUS
  <2>1. CASE Next
    BY <2>1, FilesStep, HeadStep, DataStep DEF QueueInv, Kept
  <2>2. CASE UNCHANGED vars
    BY <2>2 DEF vars, cvars, svars, hvars, qvars, fvars, wvars, rvars, lvars, QueueInv, DataType,
                HeadInHand, StampsSeen, Custody, NothingLost, QueuedOnce, Queued
  <2>3. QED
    BY <2>1, <2>2
<1>2. QED
  BY <1>1, InitQueue, PTL DEF Spec

\* A file announced while downloads are local is in the queue, exactly once, or an
\* event has said what became of it -- through failed and repeated
\* announcements, failed fetches, flushes cut short and reconnections.
THEOREM CustodyKept == Spec => []Custody
<1>1. QueueInv => Custody
  BY DEF QueueInv
<1>2. QED
  BY <1>1, QueueInvariant, PTL

\* A photo event stamped with an act of this session is one of a file announced
\* after that act and before the next one.
THEOREM ClaimsFresh == Spec => []ClaimsAreFresh
<1>1. QueueInv => ClaimsAreFresh
  BY DEF QueueInv, StampsSeen, ClaimsAreFresh
<1>2. QED
  BY <1>1, QueueInvariant, PTL

-----------------------------------------------------------------------------
\* Every step keeps the flags Boolean.
LEMMA FlagsStep == FlagsType /\ [Next]_vars => FlagsType'
<1> SUFFICES ASSUME FlagsType, [Next]_vars PROVE FlagsType'
  OBVIOUS
<1> USE DEF FlagsType, svars, hvars, lvars
<1>1. CASE \/ \E n \in 0..2 : Fire(n)
           \/ OpenWindow \/ PollEnds \/ DrainEnds \/ FlushNext \/ FlushEnds
  BY <1>1 DEF Fire, OpenWindow, PollEnds, DrainEnds, FlushNext, FlushEnds
<1>2. CASE LoopTop
  BY <1>2 DEF LoopTop
<1>3. CASE PollEvent \/ DrainEvent
  BY <1>3 DEF PollEvent, DrainEvent
<1>4. CASE Fetch("fetch", "remove") \/ Fetch("valve", "valve_remove")
  BY <1>4 DEF Fetch
<1>5. CASE Remove("remove", "flush") \/ Remove("valve_remove", "top")
  BY <1>5 DEF Remove
<1>6. CASE \/ ServiceFlush \/ ServiceAged \/ ServiceNothing
           \/ LeaveLoop(stop) \/ LeaveLoop(TRUE) \/ FinalFlush \/ Exit
  BY <1>6 DEF ServiceFlush, ServiceAged, ServiceNothing, LeaveLoop, FinalFlush, Exit
<1>7. CASE \/ \E b \in BOOLEAN : SetAuto(b) \/ SetPolicy(b)
           \/ Disconnect \/ Reconnect
  BY <1>7 DEF SetAuto, SetPolicy, Disconnect, Reconnect
<1>8. CASE Environment
  BY <1>8 DEF Environment, CameraAnnounces, CameraRepeats
<1>9. CASE UNCHANGED vars
  BY <1>9 DEF vars
<1>10. QED
  BY <1>1, <1>2, <1>3, <1>4, <1>5, <1>6, <1>7, <1>8, <1>9 DEF Next, LoopOrLost, Worker, Hosts

\* Every reachable state is well typed: in particular no stamp exceeds the acts.
THEOREM TypeCorrect == Spec => []TypeOK
<1>1. DownloadsAssumption /\ Init => FlagsType
  BY DEF Init, FlagsType, DownloadsAssumption
<1>2. FlagsType /\ QueueInv => TypeOK
  BY DEF TypeOK, FlagsType, QueueInv, DataType
<1>3. QED
  BY <1>1, <1>2, FlagsStep, QueueInvariant, DownloadsAssumption, PTL DEF Spec

=============================================================================
