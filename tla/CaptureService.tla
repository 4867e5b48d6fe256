---------------------------- MODULE CaptureService ----------------------------
(***************************************************************************)
(* The blocking captures of the service (service.py, service_waits.py) over *)
(* one camera: capture_photo(), capture_video(), stop_recording(),          *)
(* start_detection() and stop_detection() set the capture mode, raise the   *)
(* one-bit trigger flag and wait for the worker's events; the worker serves *)
(* the flag in whatever mode it then reads, and the video trigger starts or *)
(* stops by what the recording flag says.  A host may also run an interval  *)
(* sequence on the same camera, which refuses the requests of the others.   *)
(* Families are abstracted to what an act and a movie command can come to   *)
(* (the adapters' CaptureTiming and MovieReceipt), frames to acts.          *)
(***************************************************************************)
EXTENDS EventLog, FiniteSets

CONSTANTS
  Hosts,   \* threads that call the service
  NoHost,  \* "nobody holds the capture lock"
  Usages,  \* the sets of calls a run may be made of
  MaxActs  \* bound: trigger acts of one session

ASSUME CaptureAssumption == NoHost \notin Hosts /\ MaxActs \in Nat \ {0}

Captures == {"photo", "video", "stop", "watch"}
Calls    == Captures \cup {"disarm", "close", "connect", "sequence", "burst", "read", "clear", "notify"}
Purposes == {"photo", "start", "stop", "stop_recording"}
Modes    == {"single", "burst", "video"}

VARIABLES
  usage,     \* the calls of this run
  confirms,  \* (body) what it accepts for its recording, it does
  conn,      \* _connected
  adapter,   \* _adapter is there
  stopReq,   \* _stop_requested
  det,       \* _detection_mode
  mode,      \* _capture_mode
  rec,       \* _movie_recording
  trig,      \* _trigger_requested
  seq,       \* _trigger_seq
  expect,    \* the act the silent-refusal watch is for, 0 when it is off
  queued,    \* _pending_downloads: the act of each file and its stamp
  due,       \* (body) acts whose file is not announced yet
  rolling,   \* (body) it records
  interval,  \* _interval_sequence: "demoted" runs and has Auto-Fire to restore
  w,         \* the worker: where it is, and what its act serves
  lock,      \* the capture lock: its owner
  call,      \* call[h]: the call of host h
  asked,     \* history: what the waiting flag was raised for
  strayed,   \* history: a call returned before its trigger was served
  failed,    \* history: the last movie command raised
  barred,    \* history: a sequence refused the call that would have left Video mode
  misled,    \* history: a call returned a file announced before it began
  misfired   \* history: what stop_recording() asked for was served as a photograph

files   == <<expect, queued, due>>
trigger == <<trig, asked>>
camera  == <<confirms, conn, adapter>>
history == <<strayed, failed, barred, misled, misfired>>
vars    == <<logVars, readerVars, usage, camera, stopReq, det, mode, rec, trigger, seq,
             files, rolling, interval, w, lock, call, history>>

Files == [act : 1..MaxActs, stamp : 1..MaxActs]

Idle == [pc |-> "idle", name |-> "none", target |-> "none", prev |-> "single", since |-> 0, min |-> 0,
         backlog |-> {}, ending |-> FALSE]

Places   == {"idle", "check", "mode", "mark", "request", "movie", "hold", "file", "restore", "arm"}
CallsMade == [pc : Places, name : Captures \cup {"none"}, target : Modes \cup {"none"},
              prev : Modes, since : 0..MaxEvents, min : 0..MaxActs + 1,
              backlog : SUBSET (1..MaxActs), ending : BOOLEAN]

TypeOK ==
  /\ LogTypeOK
  /\ usage \in Usages
  /\ {confirms, conn, adapter, stopReq, rec, trig, rolling} \subseteq BOOLEAN
  /\ {strayed, failed, barred, misled, misfired} \subseteq BOOLEAN
  /\ interval \in {"none", "arming", "running", "demoted"}
  /\ det \in {"off", "monitor", "auto"}
  /\ mode \in Modes
  /\ {seq, expect} \subseteq 0..MaxActs
  /\ queued \subseteq Files
  /\ due \subseteq 1..MaxActs
  /\ w \in [pc : {"loop", "fire", "final", "last", "gone"}, for : SUBSET Purposes]
  /\ lock \in Hosts \cup {NoHost}
  /\ call \in [Hosts -> CallsMade]
  /\ asked \subseteq Purposes

Init ==
  /\ LogInit
  /\ usage \in Usages
  /\ confirms \in BOOLEAN /\ conn = TRUE /\ adapter = TRUE /\ stopReq = FALSE
  /\ det = "off" /\ mode = "single" /\ rec = FALSE
  /\ trig = FALSE /\ seq = 0
  /\ expect = 0 /\ queued = {} /\ due = {}
  /\ rolling = FALSE /\ interval = "none"
  /\ w = [pc |-> "loop", for |-> {}]
  /\ lock = NoHost
  /\ call = [h \in Hosts |-> Idle]
  /\ asked = {}
  /\ strayed = FALSE /\ failed = FALSE /\ barred = FALSE
  /\ misled = FALSE /\ misfired = FALSE

---------------------------------------------------------------------------
(* The calls of the hosts.                                                 *)

\* The variables no call of a capture writes.
Body == UNCHANGED <<logVars, readerVars, usage, camera, rec, seq, files, rolling, interval, w, failed, misfired>>
\* A step of a call that touches nothing but the call.
CallOnly == Body /\ UNCHANGED <<stopReq, det, mode, trigger, lock, strayed, barred, misled>>

Update(h, new) == call' = [call EXCEPT ![h] = new]
Goto(h, pc)    == Update(h, [call[h] EXCEPT !.pc = pc])

\* sequence.is_active.
Running == interval \in {"running", "demoted"}

\* The call returns, and what it asked of the worker may not be done.
Unserved == trig \/ (w.pc = "fire" /\ w.for # {})
Returns(h) ==
  /\ Update(h, Idle)
  /\ lock' = IF lock = h THEN NoHost ELSE lock
  /\ strayed' = (strayed \/ Unserved)

Return(h) ==
  /\ Returns(h)
  /\ Body /\ UNCHANGED <<stopReq, det, mode, trigger, barred, misled>>

\* The lock is not tried.
Begin_Unlocked(h) ==
  /\ call[h].pc = "idle"
  /\ \E name \in usage \cap Captures :
       Update(h, [Idle EXCEPT !.pc = "check", !.name = name])
  /\ lock' = h
  /\ Body /\ UNCHANGED <<stopReq, det, mode, trigger, strayed, barred, misled>>

\* The capture lock is tried, never waited for: a busy camera refuses.
Begin(h) ==
  /\ call[h].pc = "idle"
  /\ lock = NoHost
  /\ \E name \in usage \cap Captures :
       Update(h, [Idle EXCEPT !.pc = "check", !.name = name])
  /\ lock' = h
  /\ Body /\ UNCHANGED <<stopReq, det, mode, trigger, strayed, barred, misled>>

\* One status() decides whether the call goes on; what it goes on with is the
\* mode to set ("none": the status has it already, or the call sets none).
Decide(h, refused, target) ==
  /\ call[h].pc = "check"
  /\ \/ refused /\ Return(h)
     \/ /\ ~refused
        /\ Update(h, [call[h] EXCEPT !.pc = "mode", !.prev = mode, !.target = target,
                        !.ending = call[h].name = "stop"])
        /\ CallOnly

Unless(m) == IF mode = m THEN "none" ELSE m

CheckPhoto(h) ==
  /\ call[h].name = "photo"
  /\ Decide(h, rec \/ (det # "auto" /\ queued # {}), Unless("single"))

CheckVideo(h) ==
  /\ call[h].name = "video"
  /\ Decide(h, rec \/ det = "auto" \/ queued # {}, Unless("video"))

CheckStop(h) ==
  /\ call[h].name = "stop"
  /\ Decide(h, ~rec, "none")

\* start_detection(): an action that fires is refused while the body records.
CheckWatch(h) ==
  /\ call[h].name = "watch"
  /\ \E target \in {"single", "video", "none"} : Decide(h, rec /\ target # "none", target)

Check(h) == CheckPhoto(h) \/ CheckVideo(h) \/ CheckStop(h) \/ CheckWatch(h)

\* set_capture_mode(), which refuses when the camera is gone, and every mode
\* but Single while a sequence runs.
SetMode(h) ==
  LET target == call[h].target
      wanted == target # "none"
      admits == conn /\ (Running => target = "single")
  IN  /\ call[h].pc = "mode"
      /\ \/ wanted /\ ~admits /\ Return(h)
         \/ /\ wanted => admits
            /\ mode' = IF wanted THEN target ELSE mode
            /\ barred' = (barred /\ ~wanted)
            /\ Goto(h, IF call[h].name = "watch" THEN "arm" ELSE "mark")
            /\ Body /\ UNCHANGED <<stopReq, det, trigger, lock, strayed, misled>>

\* The event watermark and the act number a wait goes by, before the request.
Mark(h) ==
  /\ call[h].pc = "mark"
  /\ Update(h, [call[h] EXCEPT !.pc = "request", !.since = Watermark, !.min = seq + 1,
                  !.backlog = {f.act : f \in queued}])
  /\ CallOnly

\* A recording that did not start leaves the mode as it is.
Leave_NoRestore(h) == Return(h)

\* Where a call goes on that has failed, or is done: capture_video() restores
\* the mode once its recording was confirmed or refused.
Leave(h) == IF call[h].name = "video" /\ call[h].pc # "restore" THEN Goto(h, "restore") /\ CallOnly
            ELSE Return(h)

\* request_trigger() is refused without a camera, and while a sequence runs: the
\* stop of a recording leaves as a failed one does, every other call as it is --
\* capture_video() in the mode it has set.
Refuses(h) ==
  IF call[h].ending THEN Leave(h)
  ELSE /\ Returns(h)
       /\ barred' = (barred \/ (Running /\ mode = "video"))
       /\ Body /\ UNCHANGED <<stopReq, det, mode, trigger, misled>>

\* It raises the flag, whatever was asked with it before.
Request(h) ==
  /\ call[h].pc = "request"
  /\ \/ (~conn \/ Running) /\ Refuses(h)
     \/ /\ conn /\ ~Running
        /\ trig' = TRUE
        /\ asked' = asked \cup {CASE call[h].name = "photo" -> "photo"
                                  [] call[h].name = "stop" -> "stop_recording"
                                  [] call[h].ending -> "stop"
                                  [] OTHER -> "start"}
        /\ Goto(h, IF call[h].name = "photo" THEN "file" ELSE "movie")
        /\ Body /\ UNCHANGED <<stopReq, det, mode, lock, strayed, barred, misled>>

\* wait_for_movie_state(): the state is read first; a dead camera, an error
\* newer than the watermark or 15 s end the wait (the error and the timeout
\* need no condition of their own: the timeout can be at any state).
MovieReached(h) ==
  /\ call[h].pc = "movie"
  /\ rec = ~call[h].ending
  /\ Goto(h, IF call[h].ending THEN "file" ELSE "hold")
  /\ CallOnly

MovieGivenUp(h) ==
  /\ call[h].pc = "movie"
  /\ rec = call[h].ending
  /\ Leave(h)

\* The hold of capture_video() is over: _stop_and_collect().
EndHold(h) ==
  /\ call[h].pc = "hold"
  /\ Update(h, [call[h] EXCEPT !.pc = "mark", !.ending = TRUE])
  /\ CallOnly

\* wait_for_capture(): an event stamped with an older act is not this one's;
\* photo-pending ends the wait of a photo while auto-fire was armed.
Stale(h, e)    == e.stamp # 0 /\ e.stamp < call[h].min
Answers(h, e)  == e.kind \in {"photo", "error"} \/ (e.kind = "pending" /\ call[h].name = "photo")
Decisive_AnyStamp(h, e) == Answers(h, e)
Decisive(h, e) == Answers(h, e) /\ ~Stale(h, e)

\* It ends at the oldest decisive event, or with the camera, or by timeout.
FileAnswered(h) ==
  /\ call[h].pc = "file"
  /\ \E i \in Since(call[h].since) :
       /\ Decisive(h, log[i])
       /\ \A j \in Since(call[h].since) : Decisive(h, log[j]) => i <= j
       /\ misled' = (misled \/ (log[i].kind = "photo" /\ log[i].act \in call[h].backlog))
  /\ Goto(h, "restore")
  /\ Body /\ UNCHANGED <<stopReq, det, mode, trigger, lock, strayed, barred>>

FileGivenUp(h) ==
  /\ call[h].pc = "file"
  /\ Goto(h, "restore")
  /\ CallOnly

\* _restore_capture_mode(): back to single or burst, if the camera is there and
\* no sequence refuses it.
Restore(h) ==
  LET owed    == call[h].name = "video" /\ call[h].prev # "video" /\ conn
      refused == Running /\ call[h].prev # "single"
  IN  /\ call[h].pc = "restore"
      /\ mode' = IF owed /\ ~refused THEN call[h].prev ELSE mode
      /\ barred' = IF owed THEN refused ELSE barred
      /\ Returns(h)
      /\ Body /\ UNCHANGED <<stopReq, det, trigger, misled>>

\* set_detection_mode() at the end of start_detection() -- Auto-Fire is refused
\* while a sequence runs -- and stop_detection(), which takes no lock.
Arm(h) ==
  /\ call[h].pc = "arm"
  /\ det' = CASE call[h].target = "none" -> "monitor" [] Running -> det [] OTHER -> "auto"
  /\ Returns(h)
  /\ Body /\ UNCHANGED <<stopReq, mode, trigger, barred, misled>>

Disarm ==
  /\ "disarm" \in usage
  /\ det # "off"
  /\ det' = "off"
  /\ Body /\ UNCHANGED <<stopReq, mode, trigger, lock, call, strayed, barred, misled>>

\* The host selects Burst with set_capture_mode(), which takes no capture lock
\* (bound: between captures).
SelectBurst ==
  /\ "burst" \in usage
  /\ conn /\ ~Running /\ lock = NoHost
  /\ mode # "burst" /\ mode' = "burst"
  /\ Body /\ UNCHANGED <<stopReq, det, trigger, lock, call, strayed, barred, misled>>

\* disconnect() raises the stop flag and waits for the worker ...
Close ==
  /\ "close" \in usage
  /\ ~stopReq
  /\ stopReq' = TRUE
  /\ Body /\ UNCHANGED <<det, mode, trigger, lock, call, strayed, barred, misled>>

\* ... for 10 s: then it takes the adapter from a worker that is still there.
JoinGivesUp ==
  /\ stopReq /\ adapter
  /\ w.pc # "gone"
  /\ adapter' = FALSE /\ conn' = FALSE
  /\ UNCHANGED <<logVars, readerVars, usage, confirms, stopReq, det, mode, rec, trigger, seq,
                 files, rolling, interval, w, lock, call, history>>

\* connect() starts a session in which the mode, the recording flag and the
\* queue are what they were.  The body may have been switched off meanwhile.
Connect ==
  /\ "connect" \in usage
  /\ w.pc = "gone"
  /\ NewSession
  /\ conn' = TRUE /\ adapter' = TRUE /\ stopReq' = FALSE
  /\ trig' = FALSE /\ asked' = {} /\ seq' = 0
  /\ rolling' \in {rolling, FALSE}
  /\ due' = {}
  /\ w' = [pc |-> "loop", for |-> {}]
  /\ UNCHANGED <<readerVars, usage, confirms, det, mode, rec, expect, queued, interval, lock, call,
                 history>>

\* start_interval_sequence() validates a snapshot of the mode and the recording
\* flag, and assigns the sequence later without a second look at them.
ValidateSequence ==
  /\ "sequence" \in usage
  /\ interval = "none" /\ interval' = "arming"
  /\ conn /\ mode = "single" /\ ~rec
  /\ UNCHANGED <<logVars, readerVars, usage, camera, stopReq, det, mode, rec, trigger, seq,
                 files, rolling, w, lock, call, history>>

ArmSequence ==
  /\ interval = "arming"
  /\ interval' = IF det = "auto" THEN "demoted" ELSE "running"
  /\ det' = IF det = "auto" THEN "monitor" ELSE det
  /\ AppendEvents(<<Event("trigger", 0, 0)>>)
  /\ UNCHANGED <<readerVars, usage, camera, stopReq, mode, rec, trigger, seq,
                 files, rolling, w, lock, call, history>>

Call(h) ==
  \/ Begin(h) \/ Check(h) \/ SetMode(h) \/ Mark(h) \/ Request(h)
  \/ MovieReached(h) \/ MovieGivenUp(h) \/ EndHold(h)
  \/ FileAnswered(h) \/ FileGivenUp(h) \/ Restore(h) \/ Arm(h)

---------------------------------------------------------------------------
(* The worker.                                                             *)

Hosting == UNCHANGED <<readerVars, usage, confirms, adapter, stopReq, mode, lock, call,
                       strayed, barred, misled>>
Quiet   == UNCHANGED logVars
Alone   == UNCHANGED <<det, interval>>
Ends    == UNCHANGED <<conn, rec, rolling, failed, misfired>> /\ Alone

Act == seq + 1

\* The flag is cleared, then the act is numbered and performed.
ServeTrigger ==
  /\ w.pc = "loop"
  /\ ~Running
  /\ trig /\ trig' = FALSE
  /\ w' = [pc |-> "fire", for |-> asked] /\ asked' = {}
  /\ Hosting /\ Quiet /\ Ends /\ UNCHANGED <<seq, files>>

\* A flag that was raised before the sequence was armed is dropped; the error
\* carries a reason no capture looks for.
IgnoreTrigger ==
  /\ w.pc = "loop"
  /\ Running
  /\ trig /\ trig' = FALSE /\ asked' = {}
  /\ AppendEvents(<<Event("trigger", 0, 0)>>)
  /\ Hosting /\ Ends /\ UNCHANGED <<seq, files, w>>

\* A detection while armed: the check is before the act.
Detect ==
  /\ w.pc = "loop"
  /\ det = "auto" /\ ~Running
  /\ w' = [pc |-> "fire", for |-> {}]
  /\ Hosting /\ Quiet /\ Ends /\ UNCHANGED <<seq, trigger, files>>

\* Errors of a detection's act, and of the final stop, carry a reason no capture
\* looks for.
ErrorOf(act) == Event(IF act = 0 \/ w.for = {} THEN "trigger" ELSE "error", act, act)

Numbered ==
  /\ w.pc = "fire"
  /\ seq < MaxActs /\ seq' = Act
  /\ w' = [pc |-> "loop", for |-> {}]
  /\ Hosting /\ Alone /\ UNCHANGED <<conn, trigger, queued>>

\* _fire_trigger() in Single or Burst: the shutter, and a file later; some
\* families watch for a body that takes no picture and says nothing.
Shoot ==
  /\ mode # "video"
  /\ Numbered
  /\ misfired' = (misfired \/ "stop_recording" \in w.for)
  /\ \/ AppendEvents(<<Event("trigger", Act, Act)>>) /\ due' = due \cup {Act} /\ expect' \in {expect, Act}
     \/ AppendEvents(<<Event("trigger", Act, Act)>>) /\ due' = due /\ expect' \in {expect, Act}
     \/ AppendEvents(<<ErrorOf(Act)>>) /\ UNCHANGED <<due, expect>>
  /\ UNCHANGED <<rec, rolling, failed>>

\* The file of a recording that ended, if the body announces it.
MovieDue(act) == due' \in {due, IF rec /\ act # 0 THEN due \cup {act} ELSE due}

\* _toggle_movie_recording() sends a start or a stop by what the flag says.  An
\* accepted one sets the flag: the bodies that confirm do it, of the others
\* (MovieReceipt.confirmed is FALSE) nothing more is known.  A start may be
\* refused before anything is sent.  A command that raised leaves the flag; it
\* may have landed all the same, and may take the session with it.
Toggled(act) ==
  \/ /\ rec' = ~rec
     /\ rolling' \in IF confirms THEN {~rec} ELSE {~rec, rolling}
     /\ failed' = FALSE
     /\ AppendEvents(<<Event("trigger", act, act)>>)
     /\ MovieDue(act)
  \/ /\ ~rec
     /\ AppendEvents(<<ErrorOf(act)>>)
     /\ UNCHANGED <<rec, rolling, failed, due>>
  \/ /\ rolling' \in {~rec, rolling}
     /\ failed' = TRUE
     /\ \/ AppendEvents(<<ErrorOf(act)>>)
        \/ AppendEvents(<<ErrorOf(act), Event("error", 0, act)>>)
     /\ MovieDue(act)
     /\ UNCHANGED rec

ToggleMovie ==
  /\ mode = "video"
  /\ Numbered
  /\ Toggled(Act)
  /\ UNCHANGED <<expect, misfired>>

\* An act of a worker whose adapter was taken raises out of the loop, numbered
\* and not reported, unless its command was under way by then.
ActRaises ==
  /\ ~adapter
  /\ w.pc = "fire" \/ (w.pc = "loop" /\ Running)
  /\ seq < MaxActs /\ seq' = Act
  /\ w' = [pc |-> "final", for |-> {}]
  /\ Hosting /\ Quiet /\ Ends /\ UNCHANGED <<trigger, files>>

\* A frame of the sequence is an act of its own; the error of one that failed
\* carries a reason no capture looks for.
SequenceShot ==
  /\ w.pc = "loop"
  /\ Running
  /\ seq < MaxActs /\ seq' = Act
  /\ AppendEvents(<<Event("trigger", Act, Act)>>)
  /\ due' \in {due, due \cup {Act}} /\ expect' \in {expect, Act}
  /\ Hosting /\ Ends /\ UNCHANGED <<trigger, queued, w>>

\* _finish_sequence() restores Auto-Fire if the mode is still the demoted one.
SequenceOver ==
  /\ interval' = IF Running THEN "none" ELSE interval
  /\ det' = IF interval = "demoted" /\ det = "monitor" THEN "auto" ELSE det

SequenceEnds ==
  /\ w.pc = "loop"
  /\ Running
  /\ SequenceOver
  /\ AppendEvents(<<Event("trigger", 0, 0)>>)
  /\ Hosting /\ UNCHANGED <<conn, rec, rolling, failed, misfired, trigger, seq, files, w>>

\* The watch for a file has run out: the error says of no act.
SilentRefusal ==
  /\ w.pc = "loop"
  /\ expect # 0 /\ expect' = 0
  /\ AppendEvents(<<Event("error", 0, expect)>>)
  /\ Hosting /\ Ends /\ UNCHANGED <<trigger, seq, queued, due, w>>

\* _announce_file_added(): stamped with the act that is the last by then.
Announce ==
  /\ w.pc \in {"loop", "last"}
  /\ \E act \in due :
       /\ due' = due \ {act}
       /\ queued' = queued \cup {[act |-> act, stamp |-> seq]}
       /\ IF det = "auto" THEN AppendEvents(<<Event("pending", seq, act)>>) ELSE Quiet
  /\ expect' = 0
  /\ Hosting /\ Ends /\ UNCHANGED <<trigger, seq, w>>

\* A queued file is fetched, or its fetch fails; it leaves the queue.
Fetch ==
  /\ w.pc \in {"loop", "last"}
  /\ \E f \in queued, kind \in {"photo", "error"} :
       /\ AppendEvents(<<Event(kind, f.stamp, f.act)>>)
       /\ queued' = queued \ {f}
  /\ Hosting /\ Ends /\ UNCHANGED <<trigger, seq, expect, due, w>>

\* A device notification, or any other event that belongs to no act.
Notify ==
  /\ "notify" \in usage
  /\ w.pc = "loop"
  /\ AppendEvents(<<Event("trigger", 0, 0)>>)
  /\ Hosting /\ Ends /\ UNCHANGED <<trigger, seq, files, w>>

\* The loop ends on request, or on the loss of the camera, which is logged and
\* ends a sequence too.
LoopEnds ==
  /\ w.pc = "loop"
  /\ w' = [pc |-> "final", for |-> {}]
  /\ \/ stopReq /\ Quiet /\ Alone
     \/ /\ IF Running THEN AppendEvents(<<Event("trigger", 0, 0), Event("error", 0, 0)>>)
                      ELSE AppendEvents(<<Event("error", 0, 0)>>)
        /\ SequenceOver
  /\ Hosting /\ UNCHANGED <<conn, rec, rolling, failed, misfired, trigger, seq, files>>

\* Only in Video mode.
FinalStop_InVideoMode ==
  /\ w.pc = "final"
  /\ w' = [w EXCEPT !.pc = "last"]
  /\ IF rec /\ mode = "video" THEN Toggled(0)
     ELSE Quiet /\ UNCHANGED <<rec, rolling, failed, due>>
  /\ Hosting /\ Alone /\ UNCHANGED <<conn, misfired, trigger, seq, expect, queued>>

\* A running recording is stopped before the session closes; without the adapter
\* the stop raises and is swallowed, unless it was under way by then.
FinalStop ==
  /\ w.pc = "final"
  /\ w' = [w EXCEPT !.pc = "last"]
  /\ \/ rec /\ Toggled(0)
     \/ ~(rec /\ adapter) /\ Quiet /\ UNCHANGED <<rec, rolling, failed, due>>
  /\ Hosting /\ Alone /\ UNCHANGED <<conn, misfired, trigger, seq, expect, queued>>

Exit ==
  /\ w.pc = "last"
  /\ w' = [w EXCEPT !.pc = "gone"]
  /\ conn' = FALSE
  /\ SequenceOver
  /\ IF Running THEN AppendEvents(<<Event("trigger", 0, 0)>>) ELSE Quiet
  /\ Hosting /\ UNCHANGED <<rec, rolling, failed, misfired, trigger, seq, files>>

Worker ==
  \/ ServeTrigger \/ IgnoreTrigger \/ Detect \/ Shoot \/ ToggleMovie \/ ActRaises
  \/ SequenceShot \/ SequenceEnds
  \/ SilentRefusal \/ Announce \/ Fetch \/ Notify \/ LoopEnds \/ FinalStop \/ Exit

Reads ==
  /\ \/ "read" \in usage /\ ReaderStep
     \/ "clear" \in usage /\ ClearEvents
  /\ UNCHANGED <<usage, camera, stopReq, det, mode, rec, trigger, seq, files, rolling, interval, w,
                 lock, call, history>>

Next ==
  \/ \E h \in Hosts : Call(h)
  \/ Disarm \/ SelectBurst \/ Close \/ JoinGivesUp \/ Connect
  \/ ValidateSequence \/ ArmSequence
  \/ Worker
  \/ Reads

Spec == Init /\ [][Next]_vars

---------------------------------------------------------------------------
(* Properties.                                                             *)

\* What stop_recording() asks for is never served as a photograph: the escape
\* hatch out of a recording nobody stops any more toggles that recording.
StopNeverShoots == ~misfired

\* What a bounded capture was told of its recording is true while it relies on
\* it: during the hold the last movie command was a start that was accepted, and
\* once the stop was confirmed the last one was a stop.  "Recording is NOT
\* confirmable over USB" for some bodies (sony_alpha.py:30, service.py:548): of
\* those no more can be said; the others record during the hold and no longer
\* after the stop -- through overlapping calls, refused starts, commands that
\* raise and "in fact landed" (service_waits.py:52), sequences that take the
\* camera, and an adapter that is gone.  It is so as long as the camera is there,
\* no detection fires by itself and no earlier call has left its trigger behind.
ToldTheTruth ==
  (~strayed /\ "watch" \notin usage) =>
    \A h \in Hosts :
      /\ (call[h].pc = "hold" /\ w.pc \in {"loop", "fire"}) => rec /\ (confirms => rolling)
      /\ (call[h].pc = "file" /\ call[h].ending) => ~rec /\ (confirms => ~rolling)

\* Video mode is borrowed: when no capture_video() runs and nothing was armed
\* to record, the trigger of a connected camera takes pictures again -- unless an
\* interval sequence, armed since the call looked, refused its trigger
\* (service.py:449-450 returns without a restore) or the mode it restores.
VideoModeIsBorrowed ==
  (conn /\ mode = "video" /\ "watch" \notin usage) =>
    barred \/ \E h \in Hosts : call[h].name = "video"

\* A session whose adapter was not taken ends with its recording stopped, as far
\* as the body lets it know, unless the last movie command raised: close(), a lost
\* camera, a recording a detection started, one whose call gave up long ago.  "A
\* RUNNING RECORDING is stopped before the session closes" (worker.py:379); the
\* stop is neither sent after disconnect() gave its join up nor confirmed by a
\* body that confirms nothing.
ClosedNotRecording ==
  (w.pc = "gone" /\ adapter /\ ~failed) => ~rec /\ (confirms => ~rolling)

\* No capture returns a file that was announced before it asked for one: the
\* backlog that a concurrent stop_detection() or the age valve fetches during
\* the wait is not this capture's result.
ResultIsNotBacklog == ~misled

=============================================================================
