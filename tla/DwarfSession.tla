----------------------------- MODULE DwarfSession -----------------------------
(***************************************************************************)
(* A session with a DWARF telescope (drivers/dwarf_session.py) over its     *)
(* network transport (drivers/dwarf_transport.py).  Commands and answers    *)
(* carry a key -- what kind of command it is -- and no number: the reader   *)
(* thread gives an answer to the request waiting under its key, or to       *)
(* nobody.  A shot is not returned but turns up in the album, which the     *)
(* session polls, a page of the newest entries at a time.                   *)
(*                                                                         *)
(* One worker thread makes all calls; the reader thread and the device run  *)
(* beside it.  There is no clock: a wait may give up, a poll may be due and  *)
(* a window may close at any moment.  Files are numbered in album order.    *)
(*                                                                         *)
(* The specification's own names carry the prefix Dwarf, so that            *)
(* DriverSessions_proofs can extend this module beside WebcamSession.       *)
(***************************************************************************)
EXTENDS Integers, Sequences, FiniteSets

CONSTANTS
  Values,     \* exposure values of the device's table
  NoValue,    \* the dial before it is set
  MaxFiles,   \* bound: files the album ever holds
  MaxCalls,   \* bound: shots, writes and movements that are asked for
  MaxOnWire,  \* bound: packets on the wire when the device speaks unasked
  PageSize,   \* entries of the album a poll reads
  SeedSize,   \* entries the handshake reads
  Backlog     \* notifications kept for the session, the newest

ASSUME DwarfAssumption ==
  /\ NoValue \notin Values
  /\ {MaxFiles, MaxCalls, MaxOnWire} \subseteq Nat
  /\ {PageSize, SeedSize, Backlog} \subseteq Nat \ {0}

Kinds  == {"state", "lock", "open", "photo", "steer",
           "expmode", "set", "close"}
Keys   == Kinds \cup {"mode", "album"}  \* "mode": host or slave
Call   == [kind : Kinds, value : Values \cup {NoValue}]
NoCall == [kind |-> "none", value |-> NoValue]
Packet == [key : Keys, ok : BOOLEAN]

VARIABLES
  step,        \* where the session is: its handshake, "ready", "exit", "off"
  call,      \* the request the worker waits for
  table,     \* _pending: the keys that may answer it
  reply,     \* what its event was set with
  toDevice,  \* requests on the wire
  toHost,    \* packets on the wire
  reader,    \* the reader thread runs
  up,        \* the connection is up
  notes,     \* notifications (the keys)
  expo,      \* the device: exposure value in force
  manual,    \* the device: exposure is in manual mode
  master,    \* the device: we are its master
  album,     \* the device: files 1..album are in the album, the last the newest
  dials,     \* the parameter tables were loaded
  sentMode,  \* _manual_exposure_sent
  dial,      \* _exposure_value
  seen,      \* _seen_files: announced, or older than the session
  windows,   \* number of _pending_deadlines
  calls,     \* of MaxCalls, so far
  unsure     \* history: a write was given up, its answer may still come

waitVars   == <<call, table, reply>>
wireVars   == <<toDevice, toHost, reader, up, notes>>
deviceVars == <<expo, manual, master, album>>
dialVars   == <<dials, sentMode, dial>>
albumVars  == <<seen, windows>>
dwarfVars == <<step, waitVars, wireVars, deviceVars, dialVars, albumVars, calls, unsure>>

Handshake == {"state", "lock", "tables", "open", "live", "seed"}

DwarfTypeOK ==
  /\ step \in Handshake \cup {"ready", "exit", "off"}
  /\ call \in Call \cup {NoCall}
  /\ table \subseteq Keys
  /\ reply \in {"none", "ok", "refused", "error"}
  /\ toDevice \in Seq(Call)
  /\ toHost \in Seq(Packet)
  /\ notes \in Seq(Keys) /\ Len(notes) <= Backlog
  /\ {expo, dial} \subseteq Values \cup {NoValue}
  /\ {reader, up, manual, master, dials, sentMode, unsure} \subseteq BOOLEAN
  /\ album \in 0..MaxFiles
  /\ seen \subseteq 1..MaxFiles
  /\ windows \in 0..(MaxCalls + 1)
  /\ calls \in 0..MaxCalls

DwarfInit ==
  /\ step = "state"
  /\ call = NoCall /\ table = {} /\ reply = "none"
  /\ toDevice = <<>> /\ toHost = <<>> /\ notes = <<>>
  /\ reader = TRUE /\ up = TRUE
  /\ expo = NoValue /\ manual = FALSE /\ master = FALSE
  /\ album \in 0..MaxFiles
  /\ dials = FALSE /\ sentMode = FALSE /\ dial = NoValue
  /\ seen = {} /\ windows = 0
  /\ calls = 0 /\ unsure = FALSE

Newest(n) == {f \in 1..album : f > album - n}

---------------------------------------------------------------------------
(* The device and the network.                                             *)

\* The device does the next command, or refuses it (always, from an observer),
\* and answers -- a lock request under either of two keys, a state query
\* perhaps not at all.
DeviceServes ==
  /\ toDevice # <<>>
  /\ LET c == Head(toDevice) IN
     \E ok \in BOOLEAN :
       /\ ok => master \/ c.kind \in {"state", "lock"}
       /\ toDevice' = Tail(toDevice)
       /\ expo'   = IF ok /\ c.kind = "set" THEN c.value ELSE expo
       /\ manual' = (manual \/ (ok /\ c.kind = "expmode"))
       /\ master' = (master \/ (ok /\ c.kind = "lock"))
       /\ \E key \in {c.kind} \cup (IF c.kind = "lock" THEN {"mode"} ELSE {}) :
            toHost' = Append(toHost, [key |-> key, ok |-> ok])
  /\ UNCHANGED <<step, waitVars, reader, up, notes, album, dialVars, albumVars, calls, unsure>>

\* Another controller takes over and turns the dial, and we are told.
DeviceDemotes ==
  /\ master /\ up /\ Len(toHost) < MaxOnWire
  /\ master' = FALSE
  /\ expo' \in Values \cup {expo}
  /\ toHost' = Append(toHost, [key |-> "mode", ok |-> FALSE])
  /\ UNCHANGED <<step, waitVars, toDevice, reader, up, notes, manual, album,
                 dialVars, albumVars, calls, unsure>>

\* A file -- of a command, of a button on the device -- is in the album, and
\* then announced.
AlbumGains ==
  /\ album < MaxFiles /\ Len(toHost) < MaxOnWire
  /\ album' = album + 1
  /\ toHost' = IF up THEN Append(toHost, [key |-> "album", ok |-> TRUE]) ELSE toHost
  /\ UNCHANGED <<step, waitVars, toDevice, reader, up, notes, expo, manual, master,
                 dialVars, albumVars, calls, unsure>>

LinkBreaks ==
  /\ up
  /\ up' = FALSE /\ toHost' = <<>> /\ toDevice' = <<>>
  /\ UNCHANGED <<step, waitVars, reader, notes, deviceVars, dialVars, albumVars, calls, unsure>>

Device == DeviceServes \/ DeviceDemotes \/ AlbumGains \/ LinkBreaks

---------------------------------------------------------------------------
(* The reader thread: _reader_main() and _dispatch().                      *)

\* deque(maxlen=...): the oldest gives way.
Keep(q) == SubSeq(q, Len(q) - Backlog + 1, Len(q))
Noted_Unbounded(key) == Append(notes, key)

Noted(key) ==
  LET q == Append(notes, key) IN IF Len(q) > Backlog THEN Keep(q) ELSE q

\* An answer wakes whoever waits.
Awaited_ByAnyone(key) == table # {}

Awaited(key) == key \in table

ReaderDispatches ==
  /\ reader /\ up /\ toHost # <<>>
  /\ LET p == Head(toHost)
         awaited == Awaited(p.key)
     IN  /\ toHost' = Tail(toHost)
         /\ table' = IF awaited THEN {} ELSE table
         /\ reply' = IF awaited THEN (IF p.ok THEN "ok" ELSE "refused") ELSE reply
         /\ notes' = IF p.key \in Kinds THEN notes ELSE Noted(p.key)
  /\ UNCHANGED <<step, call, toDevice, reader, up, deviceVars, dialVars, albumVars, calls, unsure>>

\* recv() raises: the request in progress fails, and the thread ends.
ReaderDies ==
  /\ reader /\ ~up
  /\ reader' = FALSE
  /\ table' = {}
  /\ reply' = IF table # {} THEN "error" ELSE reply
  /\ UNCHANGED <<step, call, toDevice, toHost, up, notes, deviceVars, dialVars, albumVars,
                 calls, unsure>>

Reader == ReaderDispatches \/ ReaderDies

---------------------------------------------------------------------------
(* The worker: send_request() and what its callers make of the outcome.    *)

Idle == call = NoCall

AnsweredBy(kind) == {kind} \cup (IF kind = "lock" THEN {"mode"} ELSE {})

\* A request is registered and sent; on a dead link it goes nowhere.
Send(kind, value) ==
  LET c == [kind |-> kind, value |-> value] IN
  /\ Idle
  /\ call' = c /\ table' = AnsweredBy(kind) /\ reply' = "none"
  /\ toDevice' = IF up THEN Append(toDevice, c) ELSE toDevice
  /\ UNCHANGED <<toHost, reader, up, notes, deviceVars>>

\* The wait ends: the event was set, or time is over, or sending has failed.
Outcome(result) ==
  /\ ~Idle
  /\ \/ reply # "none" /\ result = reply
     \/ reply = "none" /\ result = "error"
  /\ call' = NoCall /\ table' = {} /\ reply' = "none"
  /\ unsure' = (unsure \/ (result = "error" /\ call.kind = "set"))
  /\ UNCHANGED deviceVars

\* transport.close(): nothing is sent or read any more.
HangUp ==
  /\ up' = FALSE /\ reader' = FALSE
  /\ toHost' = <<>> /\ toDevice' = <<>>
  /\ UNCHANGED notes

\* _handshake(): the outcome of the first three commands.
HandshakeGoesOn ==
  /\ step \in {"state", "lock", "open"}
  /\ \E result \in {"ok", "refused", "error"} :
       /\ Outcome(result)
       /\ \/ step = "state" /\ step' = "lock"
          \/ step = "lock" /\ result = "ok" /\ step' = "tables"
          \/ step = "open" /\ result = "ok" /\ step' = "live"
  /\ UNCHANGED <<wireVars, dialVars, albumVars, calls>>

HandshakeFails ==
  /\ step \in {"lock", "open"}
  /\ \E result \in {"refused", "error"} : Outcome(result)
  /\ step' = "off"
  /\ HangUp
  /\ UNCHANGED <<dialVars, albumVars, calls>>

\* A shot: the album is watched for its file.
ShotDone ==
  /\ ~Idle /\ call.kind = "photo"
  /\ \E result \in {"ok", "refused", "error"} :
       /\ Outcome(result)
       /\ windows' = IF result = "ok" THEN windows + 1 ELSE windows
  /\ UNCHANGED <<step, wireVars, dialVars, seen, calls>>

\* A movement of the mount or the focus, a recording that starts: a receipt.
SteerDone ==
  /\ ~Idle /\ call.kind = "steer"
  /\ \E result \in {"ok", "refused", "error"} : Outcome(result)
  /\ UNCHANGED <<step, wireVars, dialVars, albumVars, calls>>

\* A write remembers its value although the device has refused it.
WriteDone_Anyway ==
  /\ ~Idle /\ call.kind = "set"
  /\ \E result \in {"ok", "refused", "error"} : Outcome(result)
  /\ dial' = call.value
  /\ UNCHANGED <<step, wireVars, dials, sentMode, albumVars, calls>>

WriteDone ==
  /\ ~Idle /\ call.kind = "set"
  /\ \E result \in {"ok", "refused", "error"} :
       /\ Outcome(result)
       /\ dial' = IF result = "ok" THEN call.value ELSE dial
  /\ UNCHANGED <<step, wireVars, dials, sentMode, albumVars, calls>>

ModeDone ==
  /\ ~Idle /\ call.kind = "expmode"
  /\ reply = "ok"
  /\ sentMode' = TRUE
  /\ call' = [call EXCEPT !.kind = "set"] /\ table' = {"set"} /\ reply' = "none"
  /\ toDevice' = IF up THEN Append(toDevice, call') ELSE toDevice
  /\ UNCHANGED <<step, toHost, reader, up, notes, deviceVars, dials, dial, albumVars, calls, unsure>>

ModeFails ==
  /\ ~Idle /\ call.kind = "expmode"
  /\ \E result \in {"refused", "error"} : Outcome(result)
  /\ UNCHANGED <<step, wireVars, dialVars, albumVars, calls>>

---------------------------------------------------------------------------
(* The worker: the steps of DwarfSession.                                  *)

HandshakeAsks ==
  /\ step \in {"state", "lock", "open"}
  /\ Send(step, NoValue)
  /\ UNCHANGED <<step, dialVars, albumVars, calls, unsure>>

\* Tables and live view come over other connections; without tables the dials
\* are absent, without a live view there is no session.
LoadTables ==
  /\ step = "tables"
  /\ dials' \in BOOLEAN
  /\ step' = "open"
  /\ UNCHANGED <<waitVars, wireVars, deviceVars, sentMode, dial, albumVars, calls, unsure>>

OpenLive ==
  /\ step = "live"
  /\ \/ step' = "seed" /\ UNCHANGED wireVars
     \/ step' = "off" /\ HangUp
  /\ UNCHANGED <<waitVars, deviceVars, dialVars, albumVars, calls, unsure>>

\* Files that are there already are not new; the album may still be starting.
Seed ==
  /\ step = "seed"
  /\ seen' \in {seen, seen \cup Newest(SeedSize)}
  /\ step' = "ready"
  /\ UNCHANGED <<waitVars, wireVars, deviceVars, dialVars, windows, calls, unsure>>

Ask(kind, value) ==
  /\ step = "ready" /\ calls < MaxCalls
  /\ calls' = calls + 1
  /\ Send(kind, value)
  /\ UNCHANGED <<step, dialVars, albumVars, unsure>>

\* A photo, a burst, or the end of a recording: all leave files in the album.
Shoot == Ask("photo", NoValue)

Steer == Ask("steer", NoValue)

\* set_single_config("shutterspeed"): manual mode first, once.
Write(v) ==
  /\ dials
  /\ Ask(IF sentMode THEN "set" ELSE "expmode", v)

\* An album notification is dropped while no window is open.
Hurry_OnlyInWindow == "album" \in {notes[i] : i \in DOMAIN notes} /\ windows > 0

\* The album may have changed: poll now, with a window open if none is.
Hurry == "album" \in {notes[i] : i \in DOMAIN notes}

Watched == IF Hurry /\ windows = 0 THEN 1 ELSE windows

Pumping ==
  /\ step = "ready" /\ Idle
  /\ notes' = <<>>
  /\ UNCHANGED <<step, waitVars, toDevice, toHost, reader, up, deviceVars, dialVars, calls, unsure>>

\* wait_for_event(): drain the notifications and, if it is due, poll the album.
\* A poll that fails, or is not due, changes no window.
PumpQuietly ==
  /\ Pumping
  /\ windows' = Watched
  /\ UNCHANGED seen

\* A poll announces what it sees for the first time, and only then closes the
\* windows whose time is over.
PumpAlbum ==
  /\ Pumping
  /\ Watched > 0
  /\ seen' = seen \cup Newest(PageSize)
  /\ windows' \in 0..Watched

DwarfPump == PumpQuietly \/ PumpAlbum

DwarfExit ==
  /\ step = "ready"
  /\ Send("close", NoValue)
  /\ step' = "exit"
  /\ UNCHANGED <<dialVars, albumVars, calls, unsure>>

\* transport.close(), whatever became of the last command.
DwarfClose ==
  /\ step = "exit"
  /\ \E result \in {"ok", "refused", "error"} : Outcome(result)
  /\ step' = "off"
  /\ HangUp
  /\ UNCHANGED <<dialVars, albumVars, calls>>

CallEnds ==
  \/ HandshakeGoesOn \/ HandshakeFails \/ ShotDone \/ SteerDone
  \/ WriteDone \/ ModeDone \/ ModeFails \/ DwarfClose

Starts == HandshakeAsks \/ LoadTables \/ OpenLive \/ Seed

DwarfWorker ==
  \/ CallEnds \/ Starts
  \/ Shoot \/ Steer \/ \E v \in Values : Write(v)
  \/ DwarfPump \/ DwarfExit

DwarfNext == Device \/ Reader \/ DwarfWorker

DwarfSpec == DwarfInit /\ [][DwarfNext]_dwarfVars

\* The reader reads, calls end (their waits time out), a handshake goes on, and
\* the worker comes back to its event pump, where a poll that is due again and
\* again does not fail for ever.
DwarfFairSpec ==
  /\ DwarfSpec
  /\ WF_dwarfVars(Reader) /\ WF_dwarfVars(CallEnds) /\ WF_dwarfVars(Starts)
  /\ SF_dwarfVars(PumpAlbum)

---------------------------------------------------------------------------
(* Properties.                                                             *)

\* "The device ACKNOWLEDGED the command (code 0) -- that IS settlement on this
\* protocol" (adapters/dwarf.py:168-169): the value the session reports is the
\* one in force on the device, in manual mode -- although answers carry no
\* number, commands of other kinds time out and their answers come late.  (The
\* late answer of a write that itself timed out passes for that of the next
\* one, and what another controller sets nobody reads back.)
DialTruthful ==
  (master /\ Idle /\ ~unsure /\ dial # NoValue) => dial = expo /\ manual

\* A file that enters the album of an open session is announced -- one of a
\* shot while its window is open, one of a button on the device when the album
\* says that it has changed -- unless it leaves the newest page before the
\* session looks, the session ends, or the backlog of notifications overflows.
FilesAreAnnounced ==
  \A f \in 1..MaxFiles :
    LET waits == f = album /\ f \notin seen /\ step = "ready"
        done  == f \in seen \/ f \notin Newest(PageSize) \/ step # "ready"
    IN  /\ waits /\ windows > 0 ~> done
        /\ waits /\ (\E i \in DOMAIN notes : notes[i] = "album")
             ~> done \/ Len(notes) = Backlog

=============================================================================
