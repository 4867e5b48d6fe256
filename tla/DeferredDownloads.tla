-------------------------- MODULE DeferredDownloads --------------------------
(***************************************************************************)
(* What becomes of a shot: the camera announces its file some time after the *)
(* shutter, the worker stamps it with the trigger act it knows of and        *)
(* queues it, fetches it at once, or leaves it on the device; queued files   *)
(* are fetched when Auto-Fire is not armed, when it is disarmed, when they   *)
(* are old, and when the session ends (downloads.py, worker.py).             *)
(*                                                                         *)
(* One worker thread does all of it; the hosts only flip the detection mode, *)
(* the save policy and the stop event, and connect again.                    *)
(* Time budgets have no clock: a budget that can expire may do so between    *)
(* any two files, but a flush that starts fetches at least one.              *)
(***************************************************************************)
EXTENDS Integers, Sequences, FiniteSets

CONSTANTS
  MaxFiles,         \* bound: files ever shot
  MaxSessions,      \* bound: connect() calls on this manager
  RepeatEvents,     \* the camera may announce a file twice
  Families          \* fetch_on_announce of the bodies that may be connected

ASSUME DownloadsAssumption ==
  /\ MaxFiles \in Nat
  /\ MaxSessions \in Nat \ {0}
  /\ Families \subseteq BOOLEAN
  /\ RepeatEvents \in BOOLEAN

Files == 1..MaxFiles
Entry == [file : Files, stamp : 0..MaxFiles]     \* a row of the queue

VARIABLES
  shots,      \* files shot so far
  seen,       \* seen[f]: acts of this session f was announced after; any,
              \* for a file carried over from an earlier session (history)
  inflight,   \* shot, not announced by the camera yet
  camq,       \* FILE_ADDED events wait_for_event() will return
  session,    \* which connect() this is
  triggerSeq, \* _trigger_seq
  fetchNow,   \* fetch_on_announce of the connected body
  auto,       \* _detection_mode = "auto"
  local,      \* _download_locally
  stop,       \* _stop_requested
  flushReq,   \* _download_flush_requested
  queue,      \* _pending_downloads
  keys,       \* _pending_download_keys
  pending,    \* _downloads_pending
  wpc,        \* where the worker is
  busy,       \* its local sequence_active
  armed,      \* its local armed_auto
  ret,        \* where a poll, drain or flush returns to
  progress,   \* this flush has fetched something
  log,        \* photo events of this session
  wanted,     \* files announced while downloads were local (history)
  told        \* files with a photo or a "failed to fetch" event, of any
              \* session (history)

cvars == <<shots, inflight, camq>>       \* the camera
svars == <<session, triggerSeq, fetchNow>>
hvars == <<auto, local, stop>>         \* what hosts set
qvars == <<queue, keys, pending>>
lvars == <<busy, armed>>                          \* the worker's locals
wvars == <<wanted, seen>>
rvars == <<told, log>>
fvars == <<wvars, rvars>>                         \* what became of files
vars  == <<cvars, svars, hvars, flushReq, qvars, fvars, wpc, lvars, ret, progress>>

WorkerPCs == {"top", "events", "poll", "drain", "flush", "fetch", "remove",
              "service", "valve", "valve_remove", "final_flush", "exit", "dead"}

Queued   == {queue[i].file : i \in DOMAIN queue}

\* The drain and the flush of the finally block, with ignore_stop.
Final == ret \in {"final_flush", "exit"}

TypeOK ==
  /\ shots \in 0..MaxFiles
  /\ seen \in [Files -> SUBSET (0..MaxFiles)]
  /\ inflight \subseteq Files
  /\ camq \in Seq(Files)
  /\ session \in 1..MaxSessions
  /\ triggerSeq \in 0..MaxFiles
  /\ fetchNow \in BOOLEAN /\ auto \in BOOLEAN /\ busy \in BOOLEAN /\ local \in BOOLEAN
  /\ stop \in BOOLEAN /\ flushReq \in BOOLEAN /\ armed \in BOOLEAN /\ progress \in BOOLEAN
  /\ queue \in Seq(Entry)
  /\ keys \subseteq Files
  /\ pending \in Nat
  /\ wpc \in WorkerPCs
  /\ ret \in {"top", "service", "final_flush", "exit"}
  /\ log \subseteq Entry
  /\ wanted \subseteq Files
  /\ told \subseteq Files

Init ==
  /\ shots = 0
  /\ seen = [f \in Files |-> {}]
  /\ inflight = {}
  /\ camq = <<>>
  /\ session = 1
  /\ triggerSeq = 0
  /\ fetchNow \in Families
  /\ auto = FALSE
  /\ busy = FALSE
  /\ local = TRUE
  /\ stop = FALSE
  /\ flushReq = FALSE
  /\ queue = <<>>
  /\ keys = {}
  /\ pending = 0
  /\ wpc = "top"
  /\ armed = FALSE
  /\ ret = "top"
  /\ progress = FALSE
  /\ log = {}
  /\ wanted = {}
  /\ told = {}

Goto(from, to) == wpc = from /\ wpc' = to

-----------------------------------------------------------------------------
(***************************************************************************)
(* The camera.                                                             *)
(***************************************************************************)

\* The file of a shot becomes an event; files of one act come in any order.
CameraAnnounces(f) ==
  /\ f \in inflight
  /\ wpc # "dead"
  /\ inflight' = inflight \ {f}
  /\ camq' = Append(camq, f)
  /\ UNCHANGED <<shots, svars, hvars, flushReq, qvars, wpc, lvars, ret, progress, fvars>>

\* The same file is announced again while it waits in the queue (bound: a
\* repeat comes alone).
CameraRepeats(f) ==
  /\ RepeatEvents
  /\ camq = <<>>
  /\ f \in Queued
  /\ wpc # "dead"
  /\ camq' = Append(camq, f)
  /\ UNCHANGED <<shots, inflight, svars, hvars, flushReq, qvars, wpc, lvars, ret, progress, fvars>>

-----------------------------------------------------------------------------
(***************************************************************************)
(* The worker.                                                             *)
(***************************************************************************)

\* A manual, automatic or sequence trigger: one act, n files (none when the
\* camera refuses or fails, the act is counted before).
Fire(n) ==
  /\ wpc = "top"
  /\ ~stop
  /\ shots + n <= MaxFiles
  /\ triggerSeq < MaxFiles
  /\ triggerSeq' = triggerSeq + 1
  /\ shots' = shots + n
  /\ inflight' = inflight \cup (shots+1 .. shots+n)
  /\ UNCHANGED <<camq, session, fetchNow, hvars, flushReq, qvars, wpc, lvars, ret, progress, fvars>>

\* The loop reads whether a sequence is active and decides its download policy;
\* an event window may be open or not.
LoopTop ==
  /\ ~stop
  /\ \/ Goto("top", "events")
     \/ Goto("top", "service")
  /\ busy' \in BOOLEAN
  /\ armed' = (auto /\ ~busy')
  /\ UNCHANGED <<cvars, svars, hvars, flushReq, qvars, ret, progress, fvars>>

\* In the preview pause the iteration ends after the events, in the drain
\* window it goes on.  A deadline too close skips the drain of a sequence.
OpenWindow ==
  /\ wpc = "events"
  /\ \E r \in {"top", "service"} :
       /\ ret' = r
       /\ wpc' \in IF armed THEN {"poll"} ELSE IF busy THEN {"drain", r} ELSE {"drain"}
  /\ UNCHANGED <<cvars, svars, hvars, flushReq, qvars, lvars, progress, fvars>>

\* Mutant: a failed fetch is not reported.
Report_Silent(e) == UNCHANGED rvars

\* One file_get with its retry: a photo event, or an error event.
Land(e)   == told' = told \cup {e.file} /\ log' = log \cup {e}
Report(e) == told' = told \cup {e.file} /\ UNCHANGED log

\* Mutant: a file is stamped with the act to come.
Stamp_NextAct(f) == [file |-> f, stamp |-> triggerSeq + 1]

Stamp(f) == [file |-> f, stamp |-> triggerSeq]

\* A key already pending is a duplicate.
IsNew(f) == f \notin keys

Enqueue(f) ==
  /\ keys' = keys \cup {f}
  /\ queue' = Append(queue, Stamp(f))
  /\ pending' = Len(queue) + 1

\* _announce_file_added for the next event of the camera.
Announce ==
  LET f == Head(camq) IN
  /\ camq' = Tail(camq)
  /\ IF ~IsNew(f) \/ ~local THEN UNCHANGED <<qvars, fvars>>
     ELSE /\ wanted' = wanted \cup {f}
          /\ seen' = [seen EXCEPT ![f] = @ \cup {triggerSeq}]
          /\ \/ /\ fetchNow
                /\ Land(Stamp(f)) \/ Report(Stamp(f))
                /\ UNCHANGED qvars
             \/ /\ ~fetchNow
                /\ Enqueue(f)
                /\ UNCHANGED rvars

\* _poll_capture_events announces and never fetches.
PollEvent ==
  /\ wpc = "poll"
  /\ ~stop /\ camq # <<>>
  /\ Announce
  /\ UNCHANGED <<shots, inflight, svars, hvars, flushReq, wpc, lvars, ret, progress>>

PollEnds ==
  /\ Goto("poll", ret)
  /\ UNCHANGED <<cvars, svars, hvars, flushReq, qvars, lvars, ret, progress, fvars>>

\* _drain_capture_events announces everything, then flushes the queue.
DrainEvent ==
  /\ wpc = "drain"
  /\ (~stop \/ Final) /\ camq # <<>>
  /\ Announce
  /\ UNCHANGED <<shots, inflight, svars, hvars, flushReq, wpc, lvars, ret, progress>>

\* ... unless the budget or the stop event ends it first.
DrainEnds ==
  /\ \/ Goto("drain", "flush")
     \/ Goto("drain", ret)
  /\ progress' = FALSE
  /\ UNCHANGED <<cvars, svars, hvars, flushReq, qvars, lvars, ret, fvars>>

\* _flush_pending_downloads: the head of the queue, one at a time.
FlushNext ==
  /\ queue # <<>>
  /\ ~stop \/ Final
  /\ Goto("flush", "fetch")
  /\ UNCHANGED <<cvars, svars, hvars, flushReq, qvars, lvars, ret, progress, fvars>>

FlushEnds ==
  /\ \/ queue = <<>>
     \/ stop /\ ~Final
     \/ progress
  /\ Goto("flush", ret)
  /\ progress' = FALSE
  /\ UNCHANGED <<cvars, svars, hvars, flushReq, qvars, lvars, ret, fvars>>

\* Mutant: the photo event is stamped when the file is fetched.
Fetch_StampsNow(from, to) ==
  /\ Goto(from, to)
  /\ Land(Stamp(Head(queue).file)) \/ Report(Head(queue))
  /\ UNCHANGED <<cvars, svars, hvars, flushReq, qvars, lvars, ret, progress, wvars>>

Fetch(from, to) ==
  /\ Goto(from, to)
  /\ Land(Head(queue)) \/ Report(Head(queue))
  /\ UNCHANGED <<cvars, svars, hvars, flushReq, qvars, lvars, ret, progress, wvars>>

\* The entry is removed whatever the fetch gave.
Remove(from, to) ==
  /\ Goto(from, to)
  /\ queue' = Tail(queue)
  /\ keys' = keys \ {Head(queue).file}
  /\ pending' = Len(queue) - 1
  /\ progress' = (to = "flush")
  /\ UNCHANGED <<cvars, svars, hvars, flushReq, lvars, ret, fvars>>

\* Mutant: only a disarm flushes, a quiet loop does not.
FlushNow_OnlyAsked == flushReq

FlushNow == flushReq \/ ~armed

\* The queue is served outside the windows: everything, or one aged file, or
\* (a sequence's deadline is close, nothing is due) nothing.
ServiceFlush ==
  /\ pending > 0 /\ FlushNow
  /\ Goto("service", "flush")
  /\ flushReq' = FALSE
  /\ ret' = "top"
  /\ progress' = FALSE
  /\ UNCHANGED <<cvars, svars, hvars, qvars, lvars, fvars>>

ServiceAged ==
  /\ pending > 0 /\ (busy \/ ~FlushNow)
  /\ Goto("service", "valve")
  /\ UNCHANGED <<cvars, svars, hvars, flushReq, qvars, lvars, ret, progress, fvars>>

ServiceNothing ==
  /\ pending = 0 \/ busy \/ ~FlushNow
  /\ Goto("service", "top")
  /\ UNCHANGED <<cvars, svars, hvars, flushReq, qvars, lvars, ret, progress, fvars>>

\* finally, on a stop or a lost camera: a running recording is stopped and its
\* events drained ...
LeaveLoop(cause) ==
  /\ cause
  /\ \/ Goto("top", "drain") \/ Goto("top", "final_flush")
  /\ ret' = "final_flush"
  /\ UNCHANGED <<cvars, svars, hvars, flushReq, qvars, lvars, progress, fvars>>

\* ... then what is still queued is flushed, within 8 seconds.
FinalFlush ==
  /\ Goto("final_flush", IF pending > 0 THEN "flush" ELSE "exit")
  /\ ret' = "exit"
  /\ progress' = FALSE
  /\ UNCHANGED <<cvars, svars, hvars, flushReq, qvars, lvars, fvars>>

Exit ==
  /\ Goto("exit", "dead")
  /\ UNCHANGED <<cvars, svars, hvars, flushReq, qvars, lvars, ret, progress, fvars>>

Worker ==
  \/ \E n \in 0..2 : Fire(n)
  \/ LoopTop \/ OpenWindow
  \/ PollEvent \/ PollEnds \/ DrainEvent \/ DrainEnds
  \/ FlushNext \/ FlushEnds
  \/ Fetch("fetch", "remove") \/ Remove("remove", "flush")
  \/ ServiceFlush \/ ServiceAged \/ ServiceNothing
  \/ Fetch("valve", "valve_remove") \/ Remove("valve_remove", "top")
  \/ LeaveLoop(stop) \/ FinalFlush \/ Exit

-----------------------------------------------------------------------------
(***************************************************************************)
(* The hosts.                                                              *)
(***************************************************************************)

\* set_detection_mode; to the worker every mode but "auto" is the same.
SetAuto(b) ==
  /\ auto # b
  /\ auto' = b
  /\ flushReq' = (flushReq \/ auto)
  /\ UNCHANGED <<cvars, svars, local, stop, qvars, wpc, lvars, ret, progress, fvars>>

\* set_save_policy.
SetPolicy(b) ==
  /\ local # b
  /\ local' = b
  /\ UNCHANGED <<cvars, svars, auto, stop, flushReq,
                 qvars, wpc, lvars, ret, progress, fvars>>

Disconnect ==
  /\ ~stop
  /\ wpc # "dead"
  /\ stop' = TRUE
  /\ UNCHANGED <<cvars, svars, auto, local, flushReq,
                 qvars, wpc, lvars, ret, progress, fvars>>

\* connect() to the same body after the worker is gone.  The camera tells a
\* new session nothing of the old one's files.
Reconnect ==
  /\ Goto("dead", "top")
  /\ session < MaxSessions
  /\ session' = session + 1
  /\ triggerSeq' = 0
  /\ UNCHANGED fetchNow
  /\ stop' = FALSE
  /\ log' = {}
  /\ camq' = <<>>
  /\ inflight' = {}
  /\ armed' = FALSE
  /\ busy' = FALSE
  /\ ret' = "top"
  /\ seen' = [f \in Files |-> IF f \in Queued THEN 0..MaxFiles ELSE {}]
  /\ UNCHANGED <<shots, auto, local, flushReq, qvars, progress, told, wanted>>

Hosts == \/ \E b \in BOOLEAN : SetAuto(b) \/ SetPolicy(b)
         \/ Disconnect \/ Reconnect

Environment == \E f \in Files : CameraAnnounces(f) \/ CameraRepeats(f)

LoopOrLost == Worker \/ LeaveLoop(TRUE)

Next == LoopOrLost \/ Hosts \/ Environment

Spec == Init /\ [][Next]_vars

\* The worker runs.  Windows close (every shot opens one of bounded length), so
\* the loop goes past them again and again, and a queue it is always free to
\* flush there is flushed.
FairSpec ==
  /\ Spec
  /\ WF_vars(Worker)
  /\ SF_vars(LoopTop /\ wpc' = "service")
  /\ SF_vars(ServiceFlush)

-----------------------------------------------------------------------------
(***************************************************************************)
(* Properties.                                                             *)
(***************************************************************************)

\* No announced file is lost while downloads are local: it is queued, or a photo
\* or an error event says what became of it -- across mode changes, failed
\* fetches, repeated events, lost cameras and reconnections.
NothingLost == wanted \subseteq told \cup Queued

\* ... and it is queued once: the deque, the key set that filters repeated events
\* and the counter the loop tests are three views of one queue.
QueuedOnce ==
  /\ keys = Queued
  /\ pending = Len(queue)
  /\ \A i, j \in DOMAIN queue : queue[i].file = queue[j].file => i = j

\* A file is in exactly one hand until an event says what became of it.
Custody == NothingLost /\ QueuedOnce

\* What a capture may claim -- a photo event stamped with an act of this session
\* -- was announced after that act and before the next one, however long it was
\* deferred.  (Files the queue carries over from an earlier session keep stamps
\* of that session, which the acts of this one reuse.)
ClaimsAreFresh ==
  \A e \in log :
    e.stamp \in 1..triggerSeq => e.stamp \in seen[e.file]

\* In a session that stays up, unarmed and with no sequence, the queue empties.
QuietQueueEmpties ==
  <>[](~auto /\ ~busy /\ ~stop /\ wpc \in WorkerPCs \ {"final_flush", "exit", "dead"})
    => []<>(queue = <<>>)
=============================================================================
