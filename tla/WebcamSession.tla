---------------------------- MODULE WebcamSession ----------------------------
(***************************************************************************)
(* A session with a webcam (drivers/webcam_session.py), the source of its   *)
(* frames (drivers/avf_capture.py) and its movie recorder.  Three threads:  *)
(* the delegate publishes frames, the worker makes every protocol call, and *)
(* an encoder takes the frames of a movie from a bounded queue that the     *)
(* worker fills as it reads.  Frames are numbered as they are published;    *)
(* shots and movies are numbered as they are named.                         *)
(***************************************************************************)
EXTENDS Integers, Sequences, FiniteSets

CONSTANTS
  MaxFrames,  \* bound: frames published
  MaxNames,   \* bound: shots and movies
  QueueSize   \* MOVIE_QUEUE_FRAMES

ASSUME WebcamAssumption == {MaxFrames, MaxNames, QueueSize} \subseteq Nat \ {0}

VARIABLES
  pc,        \* the worker: "ready", in offer(), finish() or exit(), "off"
  then,      \* what its frame is for: "preview", "settle", "still", "start"
  hand,      \* the frame it has read
  latest,    \* _sequence of the source, and its latest frame
  consumed,  \* _consumed_sequence
  lost,      \* the source is closed, or its device has left
  flash,     \* _flash_mode is not "off", on a device with a flash
  recorder,  \* there is a _recorder (with the tee, but for the stop)
  tee,       \* _movie_tee_enabled
  queue,     \* the recorder's queue
  stop,      \* its _stop event
  encoder,   \* its thread: "get", "encode", "done"
  frame,     \* the frame being encoded
  movie,     \* its container: the frames written
  open,      \* its container is open
  dropped,   \* _dropped
  events,    \* FILE_ADDED events not yet taken
  objects,   \* _objects: what can be fetched
  owed,      \* announced to the manager, not yet fetched
  names,     \* _sequence of the session
  movies,    \* history: the names of movies
  offered,   \* history: frames offered to this movie
  slipped,   \* history: of them, neither queued nor counted
  gaveUp,    \* history: finish() did not wait for the encoder
  broke,     \* history: the encoder ended by an exception
  cut        \* history: finish() could not complete the file

workerVars == <<pc, then, hand>>
sourceVars == <<latest, consumed, lost>>
queueVars  == <<queue, dropped, slipped>>
encodeVars == <<encoder, frame, movie, broke>>
movieVars  == <<recorder, tee, stop, open, offered, gaveUp, cut>>
fileVars   == <<events, objects, owed, names, movies>>
vars == <<workerVars, sourceVars, queueVars, encodeVars, movieVars, fileVars, flash>>

NoFrame == 0

TypeOK ==
  /\ pc \in {"ready", "offer", "full", "join", "close", "closed", "off"}
  /\ then \in {"preview", "settle", "still", "start", "stop", "exit"}
  /\ {hand, latest, consumed, frame} \subseteq 0..MaxFrames
  /\ {lost, flash, recorder, tee, stop, open, gaveUp, broke, cut} \subseteq BOOLEAN
  /\ queue \in Seq(1..MaxFrames) /\ Len(queue) <= QueueSize
  /\ encoder \in {"get", "encode", "done"}
  /\ movie \in Seq(1..MaxFrames)
  /\ {dropped, slipped, offered} \subseteq 0..MaxFrames
  /\ events \in Seq(1..MaxNames)
  /\ objects \cup owed \cup movies \subseteq 1..names
  /\ names \in 0..MaxNames
  /\ consumed <= latest

\* open() has waited for the first frame; the flash is armed by the user.
Init ==
  /\ pc = "ready" /\ then = "preview" /\ hand = NoFrame
  /\ latest = 1 /\ consumed = 0 /\ lost = FALSE
  /\ flash \in BOOLEAN
  /\ recorder = FALSE /\ tee = FALSE
  /\ queue = <<>> /\ stop = FALSE /\ encoder = "done" /\ frame = NoFrame
  /\ movie = <<>> /\ open = FALSE /\ dropped = 0
  /\ events = <<>> /\ objects = {} /\ owed = {} /\ names = 0
  /\ movies = {} /\ offered = 0 /\ slipped = 0
  /\ gaveUp = FALSE /\ broke = FALSE /\ cut = FALSE

---------------------------------------------------------------------------
(* The source.                                                             *)

Publish ==
  /\ latest < MaxFrames /\ ~lost
  /\ latest' = latest + 1
  /\ UNCHANGED <<workerVars, consumed, lost, queueVars, encodeVars, movieVars, fileVars, flash>>

\* The device walks away: a read finds out.
Leave ==
  /\ ~lost
  /\ lost' = TRUE
  /\ UNCHANGED <<workerVars, latest, consumed, queueVars, encodeVars, movieVars, fileVars, flash>>

---------------------------------------------------------------------------
(* The worker reads a frame; the tee offers it to the recorder.            *)

Fresh == latest > consumed /\ ~lost

\* _objects and _events gain the next name.
Announce(new) ==
  /\ names' = names + 1
  /\ objects' = objects \cup {names + 1}
  /\ events' = Append(events, names + 1)
  /\ movies' = movies \cup (IF new = "movie" THEN {names + 1} ELSE {})
  /\ UNCHANGED owed

\* What the caller does with its frame.
Use(purpose) ==
  /\ pc' = "ready"
  /\ IF purpose = "still" THEN Announce("still") ELSE UNCHANGED fileVars

\* The frame is offered, or used at once.
Read(purpose) ==
  /\ pc = "ready" /\ Fresh
  /\ purpose = "still" => names < MaxNames
  /\ consumed' = latest /\ hand' = latest /\ then' = purpose
  /\ IF tee
     THEN pc' = "offer" /\ offered' = offered + 1 /\ UNCHANGED fileVars
     ELSE Use(purpose) /\ UNCHANGED offered
  /\ UNCHANGED <<latest, lost, queueVars, encodeVars, recorder, tee, stop, open, gaveUp, cut, flash>>

Preview == Read("preview")

\* set_single_config("imagesize"): after the switch frames are read, and teed, until
\* one has the new size or time is over; the sizes are left out.
Settle == Read("settle")

\* A still is a frame of the stream ...
Trigger == Read("still")

\* ... or, with the flash, a photo that comes along another way, if it comes.
TriggerFlash ==
  /\ pc = "ready" /\ flash /\ ~lost /\ names < MaxNames
  /\ Announce("still")
  /\ UNCHANGED <<workerVars, sourceVars, queueVars, encodeVars, movieVars, flash>>

\* set_single_config("flashmode").
ArmFlash ==
  /\ pc = "ready"
  /\ flash' = ~flash
  /\ UNCHANGED <<workerVars, sourceVars, queueVars, encodeVars, movieVars, fileVars>>

\* A queue without a limit.
Offer_Unbounded ==
  /\ pc = "offer"
  /\ queue' = Append(queue, hand)
  /\ Use(then)
  /\ UNCHANGED <<then, hand, sourceVars, dropped, slipped, encodeVars, movieVars, flash>>

\* put_nowait(), or Full.
Offer ==
  /\ pc = "offer"
  /\ IF Len(queue) < QueueSize
     THEN queue' = Append(queue, hand) /\ Use(then)
     ELSE pc' = "full" /\ UNCHANGED <<queue, fileVars>>
  /\ UNCHANGED <<then, hand, sourceVars, dropped, slipped, encodeVars, movieVars, flash>>

\* The oldest frame makes room -- unless the encoder has emptied the queue in the
\* meantime, then the new one is nowhere.
DropOldest ==
  /\ pc = "full"
  /\ IF queue # <<>>
     THEN /\ queue' = Append(Tail(queue), hand)
          /\ dropped' = dropped + 1 /\ UNCHANGED slipped
     ELSE /\ slipped' = slipped + 1
          /\ UNCHANGED <<queue, dropped>>
  /\ Use(then)
  /\ UNCHANGED <<then, hand, sourceVars, encodeVars, movieVars, flash>>

---------------------------------------------------------------------------
(* The encoder: _MovieRecorder._run().                                     *)

\* The thread ends as soon as it is told to.
Finished_AtStop == stop

Finished == stop /\ queue = <<>>

EncoderTakes ==
  /\ encoder = "get" /\ ~Finished
  /\ queue # <<>>
  /\ frame' = Head(queue) /\ queue' = Tail(queue)
  /\ encoder' = "encode"
  /\ UNCHANGED <<workerVars, sourceVars, dropped, slipped, movie, broke, movieVars, fileVars, flash>>

\* A sequence without its i-th element.
Without(s, i) == [j \in 1 .. Len(s) - 1 |-> s[IF j < i THEN j ELSE j + 1]]

EncoderWrites ==
  /\ encoder = "encode" /\ open
  /\ movie' = Append(movie, frame)
  /\ encoder' = "get" /\ frame' = NoFrame
  /\ UNCHANGED <<broke, workerVars, sourceVars, queueVars, movieVars, fileVars, flash>>

\* encode() or mux() raises, as both do on a closed container: nothing catches it, the
\* thread ends and its queue stays.  What a failing mux() loses is the packet the codec
\* had ready, which is that of this frame or of an earlier one.
EncoderBreaks ==
  /\ encoder = "encode"
  /\ \E i \in 1 .. Len(movie) + 1 :
       /\ open \/ i = Len(movie) + 1
       /\ movie' = Without(Append(movie, frame), i)
  /\ encoder' = "done" /\ frame' = NoFrame /\ broke' = TRUE
  /\ UNCHANGED <<workerVars, sourceVars, queueVars, movieVars, fileVars, flash>>

EncoderEnds ==
  /\ encoder = "get" /\ Finished
  /\ encoder' = "done"
  /\ UNCHANGED <<workerVars, sourceVars, queueVars, frame, movie, broke, movieVars, fileVars, flash>>

Encoder == EncoderTakes \/ EncoderWrites \/ EncoderBreaks \/ EncoderEnds

---------------------------------------------------------------------------
(* The worker starts and stops a movie.                                    *)

\* A first frame, a container, a thread; then the frame is offered.  (A second
\* start does nothing; a read or a container that fails leaves all as it is.)
StartMovie ==
  /\ pc = "ready" /\ ~recorder /\ Fresh
  /\ consumed' = latest /\ hand' = latest /\ then' = "start"
  /\ pc' = "offer"
  /\ recorder' = TRUE /\ tee' = TRUE /\ open' = TRUE /\ stop' = FALSE
  /\ encoder' = "get" /\ frame' = NoFrame /\ movie' = <<>>
  /\ queue' = <<>> /\ dropped' = 0 /\ slipped' = 0 /\ offered' = 1
  /\ gaveUp' = FALSE /\ broke' = FALSE /\ cut' = FALSE
  /\ UNCHANGED <<latest, lost, fileVars, flash>>

\* stop_movie() and exit(): both end in finish().
Finish(purpose) ==
  /\ pc = "ready" /\ recorder
  /\ purpose = "stop" => names < MaxNames
  /\ tee' = IF purpose = "stop" THEN FALSE ELSE tee
  /\ stop' = TRUE
  /\ then' = purpose /\ pc' = "join"
  /\ UNCHANGED <<hand, sourceVars, queueVars, encodeVars, recorder, open, offered, gaveUp, cut, fileVars, flash>>

\* join(timeout): the thread has ended, or time is over.
Join ==
  /\ pc = "join"
  /\ gaveUp' = (encoder # "done")
  /\ pc' = "close"
  /\ UNCHANGED <<then, hand, sourceVars, queueVars, encodeVars, recorder, tee, stop, open, offered, cut, fileVars, flash>>

\* What the codec still holds is flushed into the container, which is closed.  An
\* exception on the way is swallowed: the end of the movie is missing, and the container
\* may stay open.  (The disk may also keep the worker here; nothing bounds it.)
FinishFile ==
  /\ pc = "close" /\ pc' = "closed"
  /\ \/ open' = FALSE /\ UNCHANGED <<movie, cut>>
     \/ /\ cut' = TRUE /\ open' \in BOOLEAN
        /\ \E k \in 0 .. Len(movie) : movie' = SubSeq(movie, 1, k)
  /\ UNCHANGED <<then, hand, sourceVars, queueVars, encoder, frame, broke>>
  /\ UNCHANGED <<recorder, tee, stop, offered, gaveUp, fileVars, flash>>

\* A stopped movie is a new file, whatever became of it; exit() closes the source.
Close ==
  /\ pc = "closed"
  /\ recorder' = FALSE
  /\ IF then = "stop"
     THEN pc' = "ready" /\ Announce("movie") /\ UNCHANGED lost
     ELSE pc' = "off" /\ lost' = TRUE /\ UNCHANGED fileVars
  /\ UNCHANGED <<then, hand, latest, consumed, queueVars, encodeVars, tee, stop, open>>
  /\ UNCHANGED <<offered, gaveUp, cut, flash>>

Exit ==
  /\ pc = "ready" /\ ~recorder
  /\ pc' = "off" /\ lost' = TRUE
  /\ UNCHANGED <<then, hand, latest, consumed, queueVars, encodeVars, movieVars, fileVars, flash>>

---------------------------------------------------------------------------
(* The worker takes events and fetches files.                              *)

\* wait_for_event().
Pump ==
  /\ pc = "ready" /\ events # <<>>
  /\ owed' = owed \cup {Head(events)} /\ events' = Tail(events)
  /\ UNCHANGED <<workerVars, sourceVars, queueVars, encodeVars, movieVars, objects, names, movies, flash>>

\* file_get() takes the object out; a file that cannot be saved stays owed, and
\* the retry finds nothing.
Fetch(n) ==
  /\ pc = "ready" /\ n \in owed /\ n \in objects
  /\ objects' = objects \ {n}
  /\ owed' \in {owed, owed \ {n}}
  /\ UNCHANGED <<workerVars, sourceVars, queueVars, encodeVars, movieVars, events, names, movies, flash>>

Worker ==
  \/ Preview \/ Settle \/ Trigger \/ TriggerFlash \/ ArmFlash \/ Offer \/ DropOldest
  \/ StartMovie \/ \E purpose \in {"stop", "exit"} : Finish(purpose)
  \/ Join \/ FinishFile \/ Close \/ Exit \/ Pump \/ \E n \in 1..MaxNames : Fetch(n)

Next == Publish \/ Leave \/ Encoder \/ Worker

Spec == Init /\ [][Next]_vars

---------------------------------------------------------------------------
(* Properties.                                                             *)

\* A movie holds frames of the stream in their order, each once.  When it is over, every
\* frame that was offered is in it, or was dropped and counted ("overflow drops oldest
\* and is counted", webcam_session.py:40), or slipped through as the encoder emptied a
\* full queue under offer() -- as long as finish() waited for an encoder that did not
\* raise, and could complete the file.  If it did not wait or the encoder did raise,
\* what is missing uncounted is a queue and a frame at most.
MovieIsWhole ==
  LET counted == Len(movie) + dropped + slipped
  IN  /\ \A i, j \in DOMAIN movie : i < j => movie[i] < movie[j]
      /\ ~recorder /\ offered > 0 /\ ~cut =>
           /\ ~gaveUp /\ ~broke => counted = offered
           /\ counted \in offered - (QueueSize + 1) .. offered

=============================================================================
