------------------------------- MODULE EventLog -------------------------------
(***************************************************************************)
(* The bounded event log of a camera (camera_manager.py) and a consumer     *)
(* that pages through it with get_events() of the service, by the cursor    *)
(* rules its result states: last_id is the next cursor, a changed session   *)
(* resets it to 0, evicted names a gap.  get_events() reads the events, the *)
(* session and the window under three separate locks; the worker appends    *)
(* and hosts clear the log and reconnect in between.                        *)
(***************************************************************************)
EXTENDS Integers, Sequences, FiniteSetsExt

CONSTANTS
  LogSize,     \* CATCH_LOG_MAX_EVENTS: events the log retains
  PageSize,    \* the limit of get_events()
  MaxEvents,   \* bound: events of one session
  MaxEpochs    \* bound: sessions, each with an id space of its own

ASSUME LogAssumption == {LogSize, PageSize, MaxEvents, MaxEpochs} \subseteq Nat \ {0}

VARIABLES
  log,      \* _events, oldest first
  counter,  \* _event_counter: the highest id of the session
  epoch,    \* _session_epoch
  reader,   \* the consumer: its call, its cursor and the session it knows
  seen,     \* history: ids of the session of its cursor it was given
  excused   \* history: ids it was told are gone, or never asked for

logVars    == <<log, counter, epoch>>
readerVars == <<reader, seen, excused>>

Kinds  == {"trigger", "photo", "pending", "error"}
Events == [id : 1..MaxEvents, kind : Kinds, stamp : Nat, act : Nat]

LogTypeOK ==
  /\ log \in Seq(Events)
  /\ Len(log) <= LogSize
  /\ counter \in 0..MaxEvents
  /\ epoch \in 1..MaxEpochs
  /\ reader \in [pc : {"new", "idle", "session", "window"}, cursor : 0..MaxEvents,
                 last : 0..MaxEvents, known : 0..MaxEpochs, told : 0..MaxEpochs,
                 home : 0..MaxEpochs]
  /\ seen \subseteq 1..MaxEvents
  /\ excused \subseteq 1..MaxEvents

LogInit ==
  /\ log = <<>>
  /\ counter = 0
  /\ epoch = 1
  /\ reader = [pc |-> "new", cursor |-> 0, last |-> 0, known |-> 0, told |-> 0, home |-> 0]
  /\ seen = {}
  /\ excused = {}

---------------------------------------------------------------------------
(* The log.                                                                *)

Newest_OneMore(s) == SubSeq(s, IF Len(s) > LogSize + 1 THEN Len(s) - LogSize ELSE 1, Len(s))
Newest(s) == SubSeq(s, IF Len(s) > LogSize THEN Len(s) - LogSize + 1 ELSE 1, Len(s))

\* _append_event(), once per member of events: its kind, its trigger_id (0 for
\* None) and, as history, the trigger act it is really about.
Event(kind, stamp, act) == [kind |-> kind, stamp |-> stamp, act |-> act]
Entry(id, e) == [id |-> id, kind |-> e.kind, stamp |-> e.stamp, act |-> e.act]
AppendEvents(events) ==
  /\ counter + Len(events) <= MaxEvents
  /\ counter' = counter + Len(events)
  /\ log' = Newest(log \o [i \in DOMAIN events |-> Entry(counter + i, events[i])])
  /\ UNCHANGED epoch

\* get_events(): where the retained events newer than since are, the oldest at
\* the smallest position.
Since(since) == {i \in DOMAIN log : log[i].id > since}

\* event_watermark(): the newest retained id; a cleared log answers 0.
Watermark == IF log = <<>> THEN 0 ELSE log[Len(log)].id

ClearEvents ==
  /\ log # <<>>
  /\ log' = <<>>
  /\ UNCHANGED <<counter, epoch, readerVars>>

\* connect() starts a session of its own: the log of the last one goes.
NewSession ==
  /\ epoch < MaxEpochs
  /\ epoch' = epoch + 1
  /\ log' = <<>>
  /\ counter' = 0

---------------------------------------------------------------------------
(* The consumer.                                                           *)

\* It starts at 0, or at the event_watermark start_detection() gave it.
StartReading ==
  /\ reader.pc = "new"
  /\ \E start \in {0, Watermark} :
       /\ reader' = [reader EXCEPT !.pc = "idle", !.cursor = start, !.home = epoch]
       /\ excused' = 1..start
  /\ UNCHANGED <<logVars, seen>>

\* A page of the newest events instead.
Page_Newest == LET new == Since(reader.cursor)
               IN  {i \in new : \A j \in new : j < i + PageSize}

\* The page is the oldest one: the cursor it ends at reaches the rest.
Page == LET new == Since(reader.cursor)
        IN  {i \in new : \A j \in new : i < j + PageSize}

ReadEvents ==
  /\ reader.pc = "idle"
  /\ LET ids  == {log[i].id : i \in Page}
         last == IF ids = {} THEN reader.cursor ELSE Max(ids)
     IN  /\ reader' = [reader EXCEPT !.pc = "session", !.last = last]
         /\ seen' = IF reader.home = epoch THEN seen \cup ids ELSE seen
         /\ excused' = IF reader.cursor = 0 /\ ids # {} THEN excused \cup 1..(Min(ids) - 1)
                       ELSE excused
  /\ UNCHANGED logVars

ReadSession ==
  /\ reader.pc = "session"
  /\ reader' = [reader EXCEPT !.pc = "window", !.told = epoch]
  /\ UNCHANGED <<logVars, seen, excused>>

\* What the result says is gone: between the cursor and the oldest event
\* retained, or everything when nothing is.
Evicted == IF reader.cursor = 0 THEN {}
           ELSE (reader.cursor + 1)..(IF log = <<>> THEN counter ELSE log[1].id - 1)

\* The consumer takes the result: a session it did not know resets its cursor.
ReadWindow ==
  /\ reader.pc = "window"
  /\ LET changed == reader.known # 0 /\ reader.told # reader.known
     IN  /\ reader' = [reader EXCEPT !.pc = "idle", !.known = reader.told,
                         !.cursor = IF changed THEN 0 ELSE reader.last,
                         !.home = IF changed THEN reader.told ELSE reader.home]
         /\ seen' = IF changed THEN {} ELSE seen
         /\ excused' = IF changed THEN {} ELSE excused \cup Evicted
  /\ UNCHANGED logVars

ReaderStep == StartReading \/ ReadEvents \/ ReadSession \/ ReadWindow

---------------------------------------------------------------------------
(* Properties.                                                             *)

\* A consumer that follows the cursor rules misses no event silently: every
\* id its cursor has passed in the running session was given to it or named
\* as evicted -- through eviction, clear_events() and reconnections between
\* the three reads.  (A consumer whose first cursor is from an earlier
\* session than the first it is told of cannot know: that is the exception.)
NoSilentGap ==
  (reader.pc = "idle" /\ reader.home = epoch /\ reader.known \in {0, epoch})
    => 1..reader.cursor \subseteq seen \cup excused

=============================================================================
