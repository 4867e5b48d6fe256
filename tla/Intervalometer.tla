---------------------------- MODULE Intervalometer ----------------------------
(***************************************************************************)
(* Who may fire the shutter: the interval sequence serviced by the worker   *)
(* loop (worker.py), the manual trigger, and detection's auto-fire, with    *)
(* the host threads that start and stop sequences and change the detection  *)
(* and capture modes (camera_manager.py).                                   *)
(*                                                                         *)
(* A block under _state_lock is one action.  A call that takes the lock     *)
(* twice, or works between two lock blocks, is several actions.  The worker *)
(* is one thread: wpc says where its loop iteration is, wseq is its local   *)
(* copy of the sequence reference.  There is no clock: a slot may be early, *)
(* due or blown at any poll.  The worker is connected when the model starts *)
(* and is not restarted (ManagerLifecycle models that).                     *)
(***************************************************************************)
EXTENDS IntervalSequence, FiniteSets

CONSTANTS
  Hosts,              \* threads that call the manager's public API
  MaxSeqs,            \* bound: how many sequences are ever armed
  Counts,             \* frame counts asked for (0 = infinite)
  MaxFrames,          \* bound: an infinite sequence only waits after so many
  WorkerMayDie,       \* the session may end (disconnect or camera lost)
  AdapterMayVanish,   \* a disconnect() whose join gave up clears _adapter
  SetsModes           \* hosts may call set_capture_mode()

ASSUME IntervalometerAssumption ==
  /\ MaxSeqs \in Nat
  /\ Counts \subseteq Nat
  /\ MaxFrames \in Nat
  /\ {WorkerMayDie, AdapterMayVanish, SetsModes} \subseteq BOOLEAN

SeqIds == 1..MaxSeqs
None   == 0

DetectionModes == {"off", "monitor", "auto"}
CaptureModes   == {"single", "burst", "video"}

VARIABLES
  seqs,       \* seqs[s]: the ledger of the s-th sequence armed
  used,       \* how many sequences were armed
  cur,        \* _interval_sequence
  istop,      \* _interval_stop_requested
  trig,       \* _trigger_requested
  detection,  \* _detection_mode
  saved,      \* _saved_detection_mode ("none" or "auto")
  mode,       \* _capture_mode
  recording,  \* _movie_recording
  request,    \* _config_refresh_requested
  waiting,    \* the hosts that have seen no new config version yet
  wpc,        \* where the worker is
  wseq,       \* the worker's local `sequence`
  hpc,        \* hpc[h]: where host h is in the call it is making
  want,       \* want[h]: the mode argument of its set_capture_mode()
  owed,       \* history: the current sequence demoted Auto-Fire and no
              \* set_detection_mode() call was accepted since
  hasty       \* history: the latest start went on without an answer to its
              \* refresh

\* Most worker steps change none of these.
wvars == <<istop, saved, trig, detection, recording, request, waiting, wseq>>
vars  == <<seqs, used, cur, istop, trig, detection, saved, mode, recording,
           request, waiting, wpc, wseq, hpc, want, owed, hasty>>

WorkerPCs == {"top", "stop", "poll", "fire", "fired", "failed", "skip",
              "timing", "fail_again", "diagnose", "report", "config", "trigger", "manual", "frame", "detect",
              "auto", "lost", "exit", "abort", "finish", "finish_lost",
              "finish_exit", "final", "dead"}
\* Where the worker may stay for seconds, in a call to the camera or the disk.
SlowPCs   == {"fire", "diagnose", "report", "config", "manual", "frame", "auto", "exit"}
StartPCs  == {"check", "refresh", "await", "snapshot", "assign"}
HostPCs   == {"idle", "flag_trigger", "apply_mode"} \cup StartPCs

Active        == cur # None /\ IsActive(seqs[cur])
WorkerSees    == wseq # None /\ IsActive(seqs[wseq])
Connected     == wpc # "dead"

\* Nobody is inside start_interval_sequence().
StartLockFree == \A h \in Hosts : hpc[h] \notin StartPCs

TypeOK ==
  /\ seqs \in [SeqIds -> Sequences]
  /\ used \in 0..MaxSeqs
  /\ cur \in 0..used
  /\ wseq \in 0..used
  /\ istop \in BOOLEAN
  /\ trig \in BOOLEAN
  /\ detection \in DetectionModes
  /\ saved \in {"none", "auto"}
  /\ mode \in CaptureModes
  /\ recording \in BOOLEAN
  /\ request \in BOOLEAN
  /\ waiting \subseteq Hosts
  /\ wpc \in WorkerPCs
  /\ hpc \in [Hosts -> HostPCs]
  /\ want \in [Hosts -> CaptureModes]
  /\ owed \in BOOLEAN
  /\ hasty \in BOOLEAN

Init ==
  /\ seqs = [s \in SeqIds |-> NewSequence(0)]
  /\ used = 0
  /\ cur = None
  /\ wseq = None
  /\ istop = FALSE
  /\ trig = FALSE
  /\ detection = "off"
  /\ saved = "none"
  /\ mode = "single"
  /\ recording = FALSE
  /\ request = FALSE
  /\ waiting = {}
  /\ wpc = "top"
  /\ hpc = [h \in Hosts |-> "idle"]
  /\ want = [h \in Hosts |-> "single"]
  /\ owed = FALSE
  /\ hasty = FALSE

Goto(from, to)        == wpc = from /\ wpc' = to
HostGoto(h, from, to) == hpc[h] = from /\ hpc' = [hpc EXCEPT ![h] = to]

\* What no step of the worker changes, and what no step of a host changes.
WorkerKeeps == UNCHANGED <<used, cur, mode, hpc, want, owed, hasty>>
HostKeeps   == UNCHANGED <<wpc, wseq, recording>>
Write(q)    == seqs' = [seqs EXCEPT ![wseq] = q]

-----------------------------------------------------------------------------
(***************************************************************************)
(* The worker loop.                                                        *)
(***************************************************************************)

\* Mutant: the stop flag is only looked at when no sequence is running.
Top_StopsLater ==
  /\ Goto("top", IF Active THEN "poll" ELSE "config")
  /\ wseq' = cur
  /\ UNCHANGED <<seqs, istop, saved, trig, detection, recording, request, waiting>>
  /\ WorkerKeeps

\* The head of an iteration: read the sequence, then the stop flag.
Top ==
  /\ Goto("top", IF ~Active THEN "config" ELSE IF istop THEN "stop" ELSE "poll")
  /\ wseq' = cur
  /\ istop' = (istop /\ ~Active)
  /\ UNCHANGED <<seqs, saved, trig, detection, recording, request, waiting>>
  /\ WorkerKeeps

\* while not self._stop_requested.is_set(): a disconnect() ends the loop.
LeaveLoop ==
  /\ WorkerMayDie
  /\ Goto("top", "exit")
  /\ UNCHANGED <<seqs, wvars>>
  /\ WorkerKeeps

StopSequence ==
  /\ Goto("stop", "finish")
  /\ Write(Stopped(seqs[wseq]))
  /\ UNCHANGED wvars
  /\ WorkerKeeps

\* After MaxFrames frames an infinite sequence is only observed waiting.
Verdict(q) == IF IsInfinite(q) /\ q.next >= MaxFrames THEN Verdicts(q) \ {"fire", "skip"}
              ELSE Verdicts(q)

\* "wait" ends the iteration inside the quiet window before the deadline,
\* and goes on with it outside.
Poll ==
  /\ wpc = "poll"
  /\ \E v \in Verdict(seqs[wseq]) :
       wpc' \in CASE v = "fire" -> {"fire"}
                  [] v = "skip" -> {"skip"}
                  [] v = "done" -> {"finish"}
                  [] v = "wait" -> {"top", "config"}
  /\ Write(Polled(seqs[wseq]))
  /\ UNCHANGED wvars
  /\ WorkerKeeps

\* _fire_sequence_shot: the camera is triggered, the ledger is written under
\* the lock when it has answered, then come the capture windows or the diagnosis
\* of a failure, the manifest line and the event, and only then the end of the
\* sequence.
FireShot ==
  /\ \/ Goto("fire", "fired")
     \/ Goto("fire", "failed")
  /\ UNCHANGED <<seqs, wvars>>
  /\ WorkerKeeps

Record(from, to, q) ==
  /\ Goto(from, to)
  /\ Write(q)
  /\ UNCHANGED wvars
  /\ WorkerKeeps

ShotFired  == Record("fired", "timing", RecordFired(seqs[wseq]))
ShotFailed == Record("failed", "diagnose", RecordFailed(seqs[wseq]))
SlotMissed == Record("skip", "report", RecordMissed(seqs[wseq]))

ApplyTiming ==
  /\ Goto("timing", "report")
  /\ UNCHANGED <<seqs, wvars>>
  /\ WorkerKeeps

\* Without an adapter the code after record_fired() raises, and lands in the
\* handler of a failed trigger ...
TimingFails ==
  /\ AdapterMayVanish
  /\ Goto("timing", "fail_again")
  /\ UNCHANGED <<seqs, wvars>>
  /\ WorkerKeeps

\* ... whose diagnosis raises as well: the thread leaves through finally.
ShotFailedToo == Record("fail_again", "exit", RecordFailed(seqs[wseq]))

DiagnosisFails ==
  /\ AdapterMayVanish
  /\ Goto("diagnose", "exit")
  /\ UNCHANGED <<seqs, wvars>>
  /\ WorkerKeeps

Report(from) ==
  /\ Goto(from, IF WorkerSees THEN "top" ELSE "finish")
  /\ UNCHANGED <<seqs, wvars>>
  /\ WorkerKeeps

\* Mutants: every sequence ends "aborted"; the saved mode is dropped.
FinishSequence_MarksAborted(from, to) ==
  /\ Goto(from, to)
  /\ saved' = "none"
  /\ detection' = IF saved = "auto" /\ detection = "monitor" THEN "auto" ELSE detection
  /\ Write([seqs[wseq] EXCEPT !.state = "aborted"])
  /\ UNCHANGED <<istop, trig, recording, request, waiting, wseq>>
  /\ WorkerKeeps

FinishSequence_ForgetsMode(from, to) ==
  /\ Goto(from, to)
  /\ saved' = "none"
  /\ UNCHANGED <<seqs, istop, detection, trig, recording, request, waiting, wseq>>
  /\ WorkerKeeps

\* _finish_sequence: restore the detection mode the sequence demoted.
FinishSequence(from, to) ==
  /\ Goto(from, to)
  /\ saved' = "none"
  /\ detection' = IF saved = "auto" /\ detection = "monitor" THEN "auto" ELSE detection
  /\ UNCHANGED <<seqs, istop, trig, recording, request, waiting, wseq>>
  /\ WorkerKeeps

\* The safe window: it is always open without a sequence, and may be closed
\* with one.  A refresh request is served first; the settlement of pending
\* writes may re-read the configuration without one.
ServiceConfig ==
  /\ Goto("config", "trigger")
  /\ request' = FALSE
  /\ waiting' \in IF request THEN {{}} ELSE {{}, waiting}
  /\ UNCHANGED <<seqs, istop, saved, trig, detection, recording, wseq>>
  /\ WorkerKeeps

SkipConfig ==
  /\ WorkerSees
  /\ Goto("config", "trigger")
  /\ UNCHANGED <<seqs, wvars>>
  /\ WorkerKeeps

\* Mutant: the belt-and-braces check is gone.
ArbitrateTrigger_Trusting ==
  /\ Goto("trigger", IF trig THEN "manual" ELSE "frame")
  /\ trig' = FALSE
  /\ UNCHANGED <<seqs, istop, saved, detection, recording, request, waiting, wseq>>
  /\ WorkerKeeps

\* A trigger flag found while a sequence runs is consumed and ignored.
ArbitrateTrigger ==
  /\ Goto("trigger", IF trig /\ ~Active THEN "manual" ELSE "frame")
  /\ trig' = FALSE
  /\ UNCHANGED <<seqs, istop, saved, detection, recording, request, waiting, wseq>>
  /\ WorkerKeeps

\* _fire_trigger: one still or burst, or (video) a toggle the camera may
\* refuse or fail.
FireTrigger(from, to) ==
  /\ Goto(from, to)
  /\ recording' \in IF mode = "video" THEN {recording, ~recording} ELSE {recording}
  /\ UNCHANGED <<seqs, istop, saved, trig, detection, request, waiting, wseq>>
  /\ WorkerKeeps

\* A window keeps the preview paused, or the frame shows nothing to detect.
NoDetection ==
  /\ Goto("frame", "top")
  /\ UNCHANGED <<seqs, wvars>>
  /\ WorkerKeeps

SeeEvent ==
  /\ detection # "off"
  /\ Goto("frame", "detect")
  /\ UNCHANGED <<seqs, wvars>>
  /\ WorkerKeeps

\* Auto-fire asks for the mode and the arbitration; the cooldown and the
\* flood gate may hold it back.
Detect ==
  /\ \/ detection = "auto" /\ ~Active /\ Goto("detect", "auto")
     \/ Goto("detect", "top")
  /\ UNCHANGED <<seqs, wvars>>
  /\ WorkerKeeps

\* The liveness watchdog gives the camera up.
LoseCamera ==
  /\ WorkerMayDie
  /\ Goto("frame", "lost")
  /\ UNCHANGED <<seqs, wvars>>
  /\ WorkerKeeps

AbortLost ==
  /\ WorkerSees
  /\ Goto("lost", "finish_lost")
  /\ Write(Aborted(seqs[wseq]))
  /\ UNCHANGED wvars
  /\ WorkerKeeps

NothingLost ==
  /\ ~WorkerSees
  /\ Goto("lost", "exit")
  /\ UNCHANGED <<seqs, wvars>>
  /\ WorkerKeeps

\* finally: stop a recording, flush the downloads, release the camera ...
Exit ==
  /\ Goto("exit", "abort")
  /\ recording' \in {recording, FALSE}
  /\ UNCHANGED <<seqs, istop, saved, trig, detection, request, waiting, wseq>>
  /\ WorkerKeeps

\* ... and abort the sequence that still runs.
AbortLeft ==
  /\ Goto("abort", IF Active THEN "finish_exit" ELSE "final")
  /\ wseq' = cur
  /\ seqs' = IF Active THEN [seqs EXCEPT ![cur] = Aborted(@)] ELSE seqs
  /\ UNCHANGED <<istop, saved, trig, detection, recording, request, waiting>>
  /\ WorkerKeeps

\* _connected becomes False.
Die ==
  /\ Goto("final", "dead")
  /\ UNCHANGED <<seqs, wvars>>
  /\ WorkerKeeps

Worker ==
  \/ Top \/ LeaveLoop \/ StopSequence \/ Poll
  \/ FireShot \/ ShotFired \/ ApplyTiming \/ ShotFailed \/ SlotMissed
  \/ TimingFails \/ ShotFailedToo \/ DiagnosisFails
  \/ Report("report") \/ Report("diagnose")
  \/ FinishSequence("finish", "top")
  \/ FinishSequence("finish_lost", "exit")
  \/ FinishSequence("finish_exit", "final")
  \/ ServiceConfig \/ SkipConfig
  \/ ArbitrateTrigger \/ FireTrigger("manual", "frame")
  \/ NoDetection \/ SeeEvent \/ Detect \/ FireTrigger("auto", "top")
  \/ LoseCamera \/ AbortLost \/ NothingLost \/ Exit \/ AbortLeft \/ Die

-----------------------------------------------------------------------------
(***************************************************************************)
(* The host threads.                                                       *)
(***************************************************************************)

\* request_trigger: the check and the flag are two steps.
RequestTrigger(h) ==
  /\ Connected /\ ~Active
  /\ HostGoto(h, "idle", "flag_trigger")
  /\ UNCHANGED <<seqs, used, cur, istop, saved, trig, detection, mode, request,
                 waiting, want, owed, hasty>>
  /\ HostKeeps

FlagTrigger(h) ==
  /\ HostGoto(h, "flag_trigger", "idle")
  /\ trig' = TRUE
  /\ UNCHANGED <<seqs, used, cur, istop, saved, detection, mode, request,
                 waiting, want, owed, hasty>>
  /\ HostKeeps

StopIntervalSequence(h) ==
  /\ hpc[h] = "idle"
  /\ istop' = TRUE
  /\ UNCHANGED <<seqs, used, cur, saved, trig, detection, mode, request,
                 waiting, hpc, want, owed, hasty>>
  /\ HostKeeps

\* Mutant: no arbitration against a running sequence.
SetDetectionMode_Unchecked(h, m) ==
  /\ hpc[h] = "idle"
  /\ detection' = m
  /\ owed' = FALSE
  /\ UNCHANGED <<seqs, used, cur, istop, saved, trig, mode, request, waiting, hpc, want, hasty>>
  /\ HostKeeps

SetDetectionMode(h, m) ==
  /\ hpc[h] = "idle"
  /\ m = "auto" => ~Active
  /\ detection' = m
  /\ owed' = FALSE
  /\ UNCHANGED <<seqs, used, cur, istop, saved, trig, mode, request, waiting, hpc, want, hasty>>
  /\ HostKeeps

\* set_capture_mode checks in one lock block and assigns in the next.
CheckCaptureMode(h, m) ==
  /\ SetsModes
  /\ Connected
  /\ m # "single" => ~Active
  /\ HostGoto(h, "idle", "apply_mode")
  /\ want' = [want EXCEPT ![h] = m]
  /\ UNCHANGED <<seqs, used, cur, istop, saved, trig, detection, mode, request,
                 waiting, owed, hasty>>
  /\ HostKeeps

ApplyCaptureMode(h) ==
  /\ HostGoto(h, "apply_mode", "idle")
  /\ mode' = want[h]
  /\ UNCHANGED <<seqs, used, cur, istop, saved, trig, detection, request,
                 waiting, want, owed, hasty>>
  /\ HostKeeps

-----------------------------------------------------------------------------
\* start_interval_sequence.  The start lock is taken without blocking and held
\* from "check" to "assign"; every refusal raises and releases it.
BeginStart(h) ==
  /\ used < MaxSeqs
  /\ Connected /\ StartLockFree
  /\ HostGoto(h, "idle", "check")
  /\ UNCHANGED <<seqs, used, cur, istop, saved, trig, detection, mode, request,
                 waiting, want, owed, hasty>>
  /\ HostKeeps

\* Mutant: only a running sequence refuses another, an armed one does not.
NoneRunning_Armed == ~(cur # None /\ seqs[cur].state = "running")

\* "A sequence is already running - stop it first."
NoneRunning == ~Active

CheckNotRunning(h) ==
  /\ HostGoto(h, "check", IF NoneRunning THEN "refresh" ELSE "idle")
  /\ UNCHANGED <<seqs, used, cur, istop, saved, trig, detection, mode, request,
                 waiting, want, owed, hasty>>
  /\ HostKeeps

\* refresh_config_from_camera: remember the version, set the flag; without a
\* connection it returns at once.  Its result is not looked at.
AskRefresh(h) ==
  /\ HostGoto(h, "refresh", IF Connected THEN "await" ELSE "snapshot")
  /\ request' = (request \/ Connected)
  /\ waiting' = IF Connected THEN waiting \cup {h} ELSE waiting
  /\ hasty' = FALSE
  /\ UNCHANGED <<seqs, used, cur, istop, saved, trig, detection, mode, want, owed>>
  /\ HostKeeps

\* ... or the wait expires: because the worker is dead, or is held up.
AwaitRefresh(h) ==
  /\ h \notin waiting \/ wpc = "dead" \/ wpc \in SlowPCs
  /\ HostGoto(h, "await", "snapshot")
  /\ waiting' = waiting \ {h}
  /\ hasty' = (h \in waiting)
  /\ UNCHANGED <<seqs, used, cur, istop, saved, trig, detection, mode, request,
                 want, owed>>
  /\ HostKeeps

\* Validation against a snapshot of the mode and the recording flag.  (The
\* exposure and the parameters may refuse too; that only ends the call.)
ValidateStart(h) ==
  /\ \/ mode = "single" /\ ~recording /\ HostGoto(h, "snapshot", "assign")
     \/ HostGoto(h, "snapshot", "idle")
  /\ UNCHANGED <<seqs, used, cur, istop, saved, trig, detection, mode, request,
                 waiting, want, owed, hasty>>
  /\ HostKeeps

\* Mutant: whatever mode was on is saved.
SavedMode_Any == detection

\* Only Auto-Fire is demoted and given back.
SavedMode == IF detection = "auto" THEN "auto" ELSE "none"

\* The last block under the lock: recheck (which cannot refuse: only a holder of
\* the start lock arms a sequence), publish the armed sequence, forget an old
\* stop request, demote Auto-Fire.
ArmSequence(h) ==
  /\ NoneRunning
  /\ HostGoto(h, "assign", "idle")
  /\ used' = used + 1
  /\ cur' = used + 1
  /\ \E n \in Counts : seqs' = [seqs EXCEPT ![used + 1] = NewSequence(n)]
  /\ istop' = FALSE
  /\ saved' = SavedMode
  /\ detection' = IF detection = "auto" THEN "monitor" ELSE detection
  /\ owed' = (detection = "auto")
  /\ UNCHANGED <<trig, mode, request, waiting, want, hasty>>
  /\ HostKeeps

\* Start steps of a call in progress.
StartStep(h) ==
  \/ CheckNotRunning(h) \/ AskRefresh(h) \/ AwaitRefresh(h)
  \/ ValidateStart(h)   \/ ArmSequence(h)

Host(h) ==
  \/ RequestTrigger(h) \/ FlagTrigger(h)
  \/ StopIntervalSequence(h)
  \/ \E m \in DetectionModes : SetDetectionMode(h, m)
  \/ \E m \in CaptureModes : CheckCaptureMode(h, m)
  \/ ApplyCaptureMode(h)
  \/ BeginStart(h) \/ StartStep(h)

Next == Worker \/ \E h \in Hosts : Host(h)

Spec == Init /\ [][Next]_vars

\* The worker is a thread that never blocks for ever (every camera call of it
\* returns); a host need not call anything.
FairSpec == Spec /\ WF_vars(Worker)

-----------------------------------------------------------------------------
(***************************************************************************)
(* Properties.                                                             *)
(***************************************************************************)

Armed == 1..used         \* the sequences ever armed

\* Every ledger the manager ever armed adds up, ends by itself and never
\* overruns, whatever mix of fired, failed and missed slots (sequences.py
\* 128-202).
LedgersSound == \A s \in Armed : LedgerSound(seqs[s])

\* Two starts can never clobber each other: only the current sequence may be
\* active (camera_manager.py:390-393, 469-473).
OneActive == \A s \in Armed : IsActive(seqs[s]) => s = cur

\* "Terminal states persist until the next start" (sequences.py:19), and after it: no
\* sequence that ended runs again, no step accounts for two slots at once, and the
\* ledger of an ended sequence never changes -- but by the second accounting of a shot
\* whose adapter was taken away inside it (capture_ops.py:60-62).
TerminalPersists ==
  [][\A s \in Armed :
       /\ ~IsActive(seqs[s]) => ~IsActive(seqs'[s])
       /\ ~IsActive(seqs[s]) /\ wpc # "fail_again" => seqs'[s] = seqs[s]
       /\ seqs'[s].next - seqs[s].next \in {0, 1}]_vars

\* A manual trigger or an auto-fire is never issued between two frames of a
\* sequence (camera_manager.py:336-339, worker.py:213-217): what passed the
\* check just before the sequence was armed fires before its first slot.
NoForeignFire == wpc \in {"manual", "auto"} /\ Active => seqs[cur].next = 0

\* While a sequence runs no other initiator is armed: the detection mode is not
\* "auto" (camera_manager.py:475-480, 512-518) -- unless its start went on although the
\* refresh it asked for had not been served (camera_manager.py:409 does not look at the
\* result): the restore of the sequence before may then come after the demotion.
AutoNeverDuringSequence == Active /\ ~hasty => detection # "auto"

\* A sequence that demoted Auto-Fire gives it back at any terminal state, if
\* the user chose no other mode since (camera_manager.py:475-477).
AutoFireGivenBack ==
  owed /\ ~Active /\ wpc \notin {"timing", "diagnose", "report", "finish",
                                "finish_lost", "finish_exit"}
    => detection = "auto"

\* Two invariants the proofs need.  Between the head of an iteration and the end
\* of a sequence the worker's local reference is not stale, although the lock
\* was released in between.
WorkerFollows ==
  /\ wpc \in {"stop", "poll", "fire", "fired", "failed", "skip"}
       => Active /\ wseq = cur
  /\ wpc \in {"timing", "diagnose", "report", "finish", "finish_lost", "finish_exit"}
       => wseq # None

\* The start lock: one host at a time is between the check and the assignment
\* of a start (and the bound on sequences is not used up meanwhile).
StartExclusive ==
  \A h \in Hosts : hpc[h] \in StartPCs =>
    /\ used < MaxSeqs
    /\ \A g \in Hosts : hpc[g] \in StartPCs => g = h

\* A stop request ends the sequence it finds, even an infinite one, unless the
\* worker is gone first.
StopEnds == (istop /\ Active) ~> (~Active \/ wpc = "dead")
=============================================================================
