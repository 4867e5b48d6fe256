# TLA+ model of AbstractCamera

AbstractCamera drives cameras — Nikon and Sony bodies over PTP, DWARF telescopes
over the network, webcams — behind one API. Each connected camera has one
`CameraManager` with one worker thread that makes every call to the camera; host
threads talk to it through flags, queues and fields guarded by one lock. A hub
registers the managers, a service turns "raise a flag and watch the log" into
blocking captures, and a sync empties the storage of a device. The modules here
model these parts: who owns the camera, who may fire the shutter, what becomes of
a shot's file and of a setting, what a capture may tell its caller, and when a
file may be deleted.

Paths below are relative to `src/src/abstractcamera/`.

## 1. The system

| component | state it keeps | operations | talks to | what is hard | what makes it correct |
|---|---|---|---|---|---|
| Manager lifecycle (`camera_manager.py` 263-329, `worker.py` 31-83, 386-424) | stop event, `_worker`, `_connected`, `_adapter`, latest frame; the camera session | `connect`, `disconnect`, worker start-up, worker end | driver and session, hub, hosts | waits that time out while the other side goes on; a stop event shared by successive workers; a non-reentrant lock | one session at a time; no orphan worker; a flag true of a living worker; a stop ends the worker |
| Intervalometer and arbitration (`capture_ops.py`, `camera_manager.py` 331-569, `worker.py` 112-237, `detection_runner.py`) | current sequence, stop/trigger/refresh events, detection mode, saved mode, capture mode | start, stop, service, trigger, auto-fire, mode changes | sequence ledger, adapter, config refresh | checks and assignments in separate lock blocks; references read before a camera call and used after; failures in the accounting of a shot | one active sequence, no foreign fire in it, Auto-Fire demoted and given back |
| Sequence ledger (`sequences.py`) | state, next index, fired/failed/missed counts | poll, record, stop, abort | intervalometer | last frame failing or missed, third failure in a row | counts add up, it ends once and stays ended |
| Deferred downloads (`downloads.py`, `worker.py` 239-288, 386-401) | queue, key set, counter, act stamps | announce, poll, drain, flush, fetch | event log, save policy, detection mode | late and repeated announcements, fetches that fail, flushes cut short, reconnects | no announced file lost or queued twice, stamps name the right act, the queue empties |
| Config ledger (`config_ledger.py`, `adapters/base.py`, `adapters/sony_alpha.py`) | pending writes, ledger entries, retries, cache, escalations | set, apply, retry, refresh, settle, escalate | adapter, event log | bodies that apply late or never, busy answers, newer values, rereads that race | newest value wins, no premature revert, every entry settles |
| One-shot actions (`config_ledger.py` 86-105) | a FIFO | request, execute once | adapter | survive a reconnection | executed once, never replayed |
| Movie recording and capture windows (`capture_ops.py`) | recording flag, window deadlines | toggle, confirm, trigger | adapter | unconfirmed toggles | no recording outlives its session |
| Detection runner and detectors (`detection_runner.py`, `detection.py`) | background, cooldown, flood gate | analyse, auto-fire | worker loop | the check before the act | bounded fire rate |
| Event log (`camera_manager.py` 575-608, 717-766) | bounded list, counter, epoch | append, read, clear | everybody | eviction under a paging reader, an id space per session | a reader knows when it has missed something |
| Capture service (`service.py`, `service_waits.py`) | per-camera capture locks | photo, video, stop, detection, event pages | hub, event log, manager | waits against a shared log, a one-bit trigger, timeouts | what a call tells its caller is true |
| Camera hub (`hub.py`, `service.py` 120-205) | registry of managers, the active one | open, connect, select, disconnect, reap | managers | a pop before a join, corpses, two locks in order | one manager per device, none leaked |
| Media sync and stores (`media_sync.py`, `media_store.py`) | report, files on both sides | list, copy, verify, delete | a device's file system or album | interruption, partial copies, colliding paths | no device file deleted without its own whole copy |
| Rolling clips (`clips.py`) | a ring of frames | record, save | worker loop | the ring moves while it is saved | a clip spans the event |
| DWARF transport and session (`drivers/dwarf_*.py`, `adapters/dwarf.py`) | pending requests, notifications, dial, album cursor | handshake, request, write, shoot, poll album | network, device, reader thread | late answers, no request numbers, reader death | a reported setting is in force; a shot is announced |
| Webcam session and recorder (`drivers/webcam_*.py`, `drivers/avf_*.py`) | frame queue, encoder thread, shots in memory | offer, encode, finish, trigger, `file_get` | AVFoundation | drop-oldest racing the encoder, joins that give up | a movie keeps its frames in order and accounts for the others |
| PTP driver, guarded reads (`drivers/gphoto2_driver.py`, `ptp_safe.py`) | a lazily loaded library | create, read | libgphoto2 | NULL strings | a missing value is absent, not fatal |
| Adapters (`adapters/`) | per-family tables | write, read, fire, escalate | sessions | per-family timing | receipts say what happened |
| Discovery, identity, wire, constants, jpeg, raw thumbnails, cli | none over time | pure functions | | | |
| Integrations (`integrations/`) | a lazily made service | tools and a plugin over the service | service | | |
| Simulator (`sim/`) | a scripted body | the gphoto2 surface | tests | | |

`PROJECT.json` lists each with its status, and under `hazards` the places where
this code is hard to test, at their lines, with the properties that watch them.

## 2. The modules

| module | models | state ↔ code |
|---|---|---|
| `ManagerLifecycle` | connect, disconnect and the life of workers, any number of them on one manager | `stop` is `_stop_requested`, `worker` is `_worker`, `connected`, `adapter`, `frame` are the fields; `session` is the set of workers between `init()` and `exit()`; `hpc`/`wpc` say where each call and thread is; `held` is the state lock when a caller blocks with it |
| `IntervalSequence` | the record operations of `class IntervalSequence` | a record per sequence: state, count, next, done, failed, missed, consec |
| `Intervalometer` (extends it) | an iteration of the worker loop as far as shots go, and the hosts around it | `seqs`, `cur` the sequence objects and `_interval_sequence`; `wseq` the loop's *local* reference; `istop`, `trig`, `request` the events; `detection`, `saved`, `mode`, `recording` the fields; `owed`, `hasty` are history |
| `DeferredDownloads` | announcement to fetch, over sessions | `queue`, `keys`, `pending` are the deque, the key set and the counter; `triggerSeq` the act number; `camq` the events in the camera; `armed`, `busy` the loop's locals; `seen`, `wanted`, `told` are history |
| `ConfigLedger` | one widget, from the request to its settlement | `pending`, `entry`, `retries`, `paced`, `cache` are the dictionaries' values for that widget; `body`, `lazy` the camera's value and a write it has accepted; `latest`, `issued`, `early` are history |
| `EventLog` | the bounded log and a consumer that pages through it | `log`, `counter`, `epoch` are `_events`, `_event_counter`, `_session_epoch`; `reader` is one consumer of `get_events()` with its cursor; `seen`, `excused` are history |
| `CaptureService` (extends it) | the blocking calls of the service over one camera: photo, video, stop, start and stop of a detection; an interval sequence and a Burst selection beside them; the worker as far as it serves the trigger | `trig`, `seq`, `mode`, `rec`, `det`, `queued`, `conn`, `adapter`, `stopReq` are manager fields; `interval` is the sequence as the captures see it; `lock` the capture lock; `call[h]` the locals of a call (watermark `since`, act `min`, previous mode); `rolling`, `due`, `confirms` are the body; `asked`, `strayed`, `failed`, `barred`, `misled`, `misfired` are history |
| `CameraHub` | the registry under open, connect, select, close and close-all of any number of threads | `registry`, `active` are `_managers`, `_active_uid`; `openLock`, `connectLock` the two mutexes; `phase`, `conn`, `answer`, `stopped` what the hub can see of each manager |
| `SafeTransfer` | the promise of a media sync, and nothing of how it is kept | files on the device, whole copies, consent |
| `MediaSync` | `sync_store()`, run after run, cut off anywhere | `device`, `local` the two file systems; `listing`, `left`, `cur`, `verified`, `failed` the locals of a run; `born`, `spoiled` are history |
| `DwarfSession` | a session with a telescope over its transport | `table`, `reply` are `_pending` and what its event was set with; `toDevice`, `toHost` the wire; `notes` the notifications; `sentMode`, `dial`, `seen`, `windows` session fields; `expo`, `manual`, `master`, `album` the device; `unsure` is history |
| `WebcamSession` | a webcam's session, its frame source and its movie recorder | `latest`, `consumed` the two frame numbers; `queue`, `stop`, `encoder`, `movie`, `open`, `dropped` the recorder; `events`, `objects`, `owed` the shots on their way; `offered`, `slipped`, `gaveUp`, `broke`, `cut` are history |
| `MC*` | the finite sets the configurations name | |
| `*_proofs` | theorems and proofs, section 5 | |

Granularity. A block under a lock is one action; a call that takes the lock
twice, or reads a field before it and uses it inside, is several. The worker is a
program counter, so every point at which a host can run between two of its
accesses to shared state is a state. Calls to the camera are steps with every
outcome the code handles. Bookkeeping at the end of a code path is in the action
that takes the path. In `CaptureService` the worker is coarser: one step serves a
trigger from the act's number to its event, because hosts of that component only
see its flag, the mode it reads (a step before) and the log.

Time. There is no clock. A deadline, a pace, a budget or a timeout is a step that
may happen at any moment; a wait that can time out may do so at once. Where the
code *depends* on its caller's discipline, or something rare is worth turning
off to see what it is to blame for, a constant says so: `ConnectOverRemains`,
`OverlapCalls` (how a manager is used), `WorkerMayDie`, `AdapterMayVanish`
(intervalometer). Section 4 says what fails when one of them is set the other
way. Where the code depends on a wait being long enough, no constant rules the
short wait out: a history variable marks the run in which it was too short, and
the property says what still holds then (`hasty`, `early`, `gaveUp`, `strayed`,
`unsure`).

Data. Files, values, devices and hosts are small sets; frames, scores, notes and
times are left out. In `MediaSync` a file is its identity and its size, because
sizes are all the code compares; two files of one path stand for every way paths
collide (case folding, album flattening).

Composition. `CaptureService` runs over `EventLog` and `Intervalometer` over
`IntervalSequence`, sharing their variables; `MediaSync` implements
`SafeTransfer` through `INSTANCE ... WITH archive <- Archive, consent <-
opts.protected, own <- opts.own`, where `Archive` is the set of files whose own
whole copy is at their path. The other modules share no variables: each of
`Intervalometer`, `DeferredDownloads`, `ConfigLedger` and `CaptureService` follows
the same worker loop with the steps of its component, in the loop's order;
`CameraHub` takes from `ManagerLifecycle` what a manager shows of itself
(`ConnectedTruthful`), and `ManagerLifecycle` takes from the hub that calls on one
manager are serialized.

## 3. The runs

| run | bounds | shows |
|---|---|---|
| `lifecycle` | two hosts, two connects, every wait may time out, every set-up step may fail | used as the hub uses it: the flag is truthful, one session at a time, no worker orphaned; a stop releases the camera |
| `interval_arbitration` | two hosts (symmetric), two sequences of two frames or endless, two failures abort; refreshes time out, the worker may die and lose its adapter | one active sequence, no foreign fire between frames, Auto-Fire never on during one that was not started in haste, what has ended stays as it ended |
| `interval_ledger` | one host, one sequence of three frames or endless; refreshes time out, modes change, the worker may die | ledgers add up, Auto-Fire is given back, a stop ends a sequence |
| `downloads_custody` | two files, two sessions, bodies of either download family, repeated events, flushes cut short | queue, keys and counter agree and no announced file is lost; a claim names an act the file was announced after |
| `downloads_live` | two files, one session | the queue empties |
| `config_settles` | two values, two requests, one retry, three kinds of widget; the patience may run out at any moment | newest value wins, no premature revert, every entry settles |
| `capture_calls` | two hosts (symmetric), a log of two events and pages of one, four events and two acts a session, two sessions; bodies that confirm and bodies that do not; six mixtures of calls | a consumer misses no event unawares; what a bounded capture believes of its recording is true; Video mode is given back; no session that keeps its adapter ends with a recording left running unawares; no capture returns a file of the backlog |
| `capture_stop` | one host, three acts, one session | *violation*: `stop_recording()` is served as a photograph |
| `hub_registry` | two hosts (symmetric), two devices, three managers | no device is held twice, no session is leaked |
| `sync_safe` | four files: two of one path and size, a protected one, one of unknown size; any number of runs | a sync implements `SafeTransfer`; a clean report means the work is done |
| `dwarf_session` | one value, two files, two calls, two packets on the wire, pages of one, a backlog of two | a reported setting is in force; files are announced |
| `webcam_session` | five frames, two names, a queue of two | a movie holds its frames in order and accounts for the others |

Why these bounds are enough. A race between hosts needs two of them, and they are
alike; a race of an old worker with a new one needs two connects. Two sequences
give "the end of one and the start of the next"; three frames give a first, a
middle and a last slot, with the failure limit reached in the middle or exactly
at the end. Two files can be in the queue together or one in each session; the
queue discipline depends only on order and duplicates. Two requests let a retry
meet a newer value; with one retry a busy write comes back once and is given up the
second time. The two values can be exchanged for each other, so `MCSpec` starts the
body with the first. A log of two with four events evicts under a reader that pages by one. Three
managers let a device be opened, closed with its join still running and opened
again while another host is in the registry; `select()` is called only while a
manager can still be made, since what it changes is which camera a later open or
close finds. Two files of one path and one size are the case a comparison by size
cannot tell apart; more files add nothing, since a file interacts only with those
of its path. Two packets let a late answer
overtake the wait it belonged to; a page of one with two files lets a file leave
the page before it is seen. A queue of two frames overflows while the encoder has
a third in hand. For the properties proved in section 5 the bounds do not matter.

`capture_calls` uses six mixtures of calls (`AllUsages`): captures that overlap; a
video, a stop and a close whose join may give up; photographs beside a detection
that fires by itself; a detection armed and disarmed around a sequence; a video and
Burst mode beside a sequence; a consumer with `clear_events()`, notifications and a
reconnection. All of them at once is beyond the time a run has. The host selects
Burst only between captures (`SelectBurst`), since in the middle of one it would
take the mode away from it.

`CHECK_DEADLOCK FALSE` appears where the system may rightly stop: all requests,
events and files of the bound used up, and the worker gone or idle.

### Fairness

* `ManagerLifecycle`: weak fairness of each worker thread and of calls already
  made. Threads are scheduled; no host is obliged to call anything.
* `Intervalometer`: weak fairness of the worker. Its camera calls are bounded by
  the drivers; hosts owe nothing.
* `DeferredDownloads`: weak fairness of the worker; strong fairness of going past
  the capture window and of the flush service. Windows close, because every shot
  opens one of bounded length, so a loop that keeps running finds itself outside
  one again and again.
* `ConfigLedger`: weak fairness of the worker, of the camera applying or losing a
  write, and of the clocks; strong fairness of the periodic read, which is due
  every 2.5 seconds whenever something is unsettled and Auto-Fire is not armed.
* `DwarfSession`: weak fairness of the reader thread, of the end of calls (each
  wait has a timeout) and of a begun handshake; strong fairness of a poll of the
  album that succeeds: the pump comes round for ever, and the network does not
  fail each of infinitely many polls.
* `CaptureService`, `CameraHub`, `MediaSync` and `WebcamSession` are checked for
  safety only. That the calls of a webcam's session return is not a property: the
  joins are bounded, but `finish()` then flushes and closes the container on the
  worker, on the disk that may be what is slow.

## 4. What the models show to fail

`capture_stop` is kept as a run. `stop_recording()` is documented to toggle a
running recording off (`service.py` 471-502), but it raises the one-bit trigger
without setting a mode, and the worker serves the bit in the mode it then finds:
after a `capture_video()` whose stop was not confirmed has restored Single, the
"stop" takes a photograph and the recording goes on. `findings` quotes the lines.

The passing runs hold under the conditions stated with each property. Where a
condition stands for something the code does get wrong or leaves to luck, it can
be seen by changing one constant or one conjunct:

* Lifecycle. `connect()` on a connected manager calls `status()` with the
  non-reentrant lock held and waits for itself, and everybody else for it
  (`camera_manager.py:266`). The step is in the model and nothing leaves the state
  it leads to (`status_in_lock`), so no property says that calls return: the code
  refutes it, and one that excepted this case would say nothing.
  `ConnectOverRemains = TRUE`: after a
  join or a start that gave up, the next `connect()` clears the shared stop event
  and the old worker lives on, with a second session (`camera_manager.py:289`;
  `SingleOwner`, `NoOrphan`). `OverlapCalls = TRUE`: two overlapping calls start
  two workers.
* Intervalometer. A start ignores the result of its 2.5 s wait for a refresh
  (`camera_manager.py:409`). If the worker was held up for longer, in the restore at
  the end of the sequence before, that restore arms Auto-Fire during the new
  sequence: `AutoNeverDuringSequence` excepts it (`hasty`). A failure in the
  bookkeeping after a shot was accounted for accounts for it again
  (`capture_ops.py:62`), which an adapter cleared by a `disconnect()` that gave up
  brings about: `TerminalPersists` excepts the second accounting of a slot
  (`fail_again`), and says that it does not wake the sequence.
  `AdapterMayVanish = TRUE` in `interval_ledger`: the same leaves
  Auto-Fire demoted (`AutoFireGivenBack`) and a ledger that does not add up
  (`LedgersSound`). `set_capture_mode()` checks for a running sequence in one lock
  block and assigns in the next (`camera_manager.py:553`), and a start checks the
  connection once, before its waits (`:394`): a sequence may be armed on a manager
  whose worker has gone.
* Downloads. A queue kept over a reconnection has stamps of acts the new session
  numbers again (`camera_manager.py:286`): `ClaimsAreFresh` holds because carried
  files are excepted from it in `Reconnect`.
* Config. Patience runs from the request, also while the worker is busy with an
  exposure or a flush: a write is then declared reverted while it is queued or the
  body is applying it. `RevertIsFinal` excepts an entry whose patience ran out that
  way (`early`). A mode
  plan overwrites a queued value and leaves its ledger entry
  (`camera_manager.py:568`).
* Service. A call that timed out leaves its trigger behind, and the next movie
  toggle is its doing (`ToldTheTruth` excepts `strayed`). An interval sequence
  that is assigned after `capture_video()` has set Video mode refuses its trigger,
  and the call returns without a restore (`camera_manager.py:333-339`,
  `service.py:449-450`): Video mode stays (`VideoModeIsBorrowed` excepts `barred`).
  Of a body that confirms nothing (`sony_alpha.py:366-382`) the service knows what
  was accepted and no more, so for such a body `ToldTheTruth` and
  `ClosedNotRecording` speak of the flag. A command that raised may have landed
  (`service_waits.py:51`), and a `disconnect()` whose join gave up takes the adapter,
  so that the final stop raises and is swallowed (`worker.py:386-392`): such sessions
  may end with the body recording (`ClosedNotRecording` excepts them). `capture_photo()` while
  armed for video leaves the camera in Single mode (`service.py:357`).
  `start_detection()` hands out a watermark without its session (`:648`), so the
  first page after a reconnection may skip events (`NoSilentGap` excepts it).
  `close()` resolves the active camera three times (`:175`). A camera that goes and
  is connected again while a capture waits (`"connect"` beside the captures in the
  `Usages` of `MCCaptureService`) leaves Video mode on, because the restore of a
  camera that is gone is refused and `connect()` keeps the mode it finds
  (`VideoModeIsBorrowed`); the new session has no recording, and the hold of the old
  call goes on over it (`ToldTheTruth`); and the acts are numbered from 1 again, so
  a file of before passes for the result (`ResultIsNotBacklog`).
* Hub. "A DEFAULT open while a camera is already live returns that camera
  (idempotent)" (`service.py:136`): the test looks at the active camera alone.
  `DefaultOpenIdempotent` in `MCCameraHub` states it, and adding it to
  `hub_registry` shows the trace. A default open and an open by id may also claim one device twice
  (`ClaimsAreDistinct` is about opens by id).
* Sync. A partial copy of a file of unknown size is taken as present; the name of a
  deleted file that the device uses again would overwrite the archived copy (the
  model's device never reuses a path); album sizes are rounded
  (`media_store.py:460`).
* DWARF. The late answer of a write that timed out passes for the answer of the
  next one (`DialTruthful` excepts `unsure`). The handshake loads the tables of the
  dials and not the values in force (`dwarf_session.py:163-174`): until the first
  write the dial shows nothing, and the property does not speak of it. `_seen_files` is
  truncated (`:457`), and notifications beyond the backlog are dropped.
* Webcam. `file_get()` takes the only copy of a shot before it is saved, so a
  failing save loses it although `downloads.py:197` says that it stays on the card.
  `finish()` that gives up on its encoder loses the tail of the movie, and so does
  an encoder that ends by an exception of `encode()` or `mux()`, which nothing
  catches (`webcam_session.py:83-92`): up to a queue of frames and the one in hand
  are neither in the file nor counted. A `finish()` whose flush fails loses packets
  of the codec (`cut`; of such a file only the order is promised). A frame
  offered to a full queue that the encoder empties meanwhile is neither queued nor
  counted (`MovieIsWhole` counts it as `slipped`).

Not in any model, read while writing them: queued actions survive a reconnection
(`camera_manager.py:343`, `:353`), and the budgets of the final flush add up to
more than the join that waits for it (`worker.py:399`: 4s of draining and 8s of
flushing under 10s).

## 5. The proofs

Theorems hold for all values of the constants; the assumptions on constants are
named in the module that declares them, further ones in the theorem.

`Intervalometer_proofs`, which begins with what each operation of
`IntervalSequence` does to a ledger:

* `TypeCorrect` — the type invariant with `StartExclusive`. The exclusion is
  needed to bound the sequences: a start may only allocate one if no other is
  between its check and its assignment.
* `OneSequenceActive`, `SequencesOwnTheTrigger`, `FinishedLedgersStay`
  (`TerminalPersists`) and `AutoFireDemoted`, with no assumption. Neither is
  inductive. The worker writes a slot several steps after it read the sequence, so
  `OwnInv` adds that what it read is still the active sequence (`WorkerFollows`),
  that an active one has a slot left (`ActiveOpen`), and that a shot accounted for
  twice finds its sequence active or used up, so that it wakes none (`SecondAccount`).
* `FinishedLedgersStay` follows from `OwnInv`, step by step (`TerminalStep`): only the
  second accounting touches the ledger of a sequence that has ended, and it finds
  the sequence used up.
* `AutoFireDemoted` (`AutoNeverDuringSequence`): a start
  that was answered finds the worker done with the previous sequence
  (`StartsAlone`), and what the worker restores at is the end of the sequence that
  runs, or nothing runs, or the sequence was started in haste (`EndsAlone`).
* `LedgersAlwaysSound` under `~AdapterMayVanish`, which
  excludes the second accounting itself (`LedgerInv`). TLC shows it is needed.
* `AutoFireReturns` (`AutoFireGivenBack`) under `~AdapterMayVanish` only, so also when
  waits for refreshes expire: while a sequence owes Auto-Fire, the saved mode is
  there to be restored and the worker is not past the step that does (`ReturnInv`).

`ConfigLedger_proofs`:

* `LastValueWins` — when nothing is queued or being written, the camera was last
  given what was last asked for. The inductive
  invariant `ValueInv` follows the value: a queued value is the latest; a value in
  the worker's hands is the latest unless a newer one is queued; an entry of an
  escalating widget holds the latest, because nothing but a request changes it,
  so an escalation cannot write an old value last.
* `RevertsAreFinal` (`RevertIsFinal`, an action property).
  `PatienceInv` places the patience of an unsettled entry, which has not run out
  early, by where its value is:
  while it is queued or about to be written its patience is not over
  (`QueuedIsUntried`, `HandIsUntried`, `OverIsOver`), and an escalation that is owed
  has restarted it (`AskedIsAlone`). Each step that moves the value keeps one of
  these only because it restarts the patience.
* `ConfigTyped` (`TypeOK`).

`ManagerLifecycle_proofs`:

* `TypeCorrect`, and `FlagTruthful` (`ConnectedTruthful`) with no assumption on how
  the manager is used: the flag is only raised by a worker on its way into the
  loop, and a worker lowers it in the step it ends with. The lemma
  `WorkersStartFresh` says that a launch never restarts a thread the flag may
  speak of.
* `OneOwner` (`SingleOwner`) and `NoneOrphaned` (`NoOrphan`) under `Serialized`,
  which is what the hub's connect mutex provides. The invariant `OwnerInv` says
  that one worker at most is active (`OneActiveWorker`), and who answers for it
  (`Accounted`): the call that started it and still waits, a connected manager
  that names it, or nobody, and then it was given up on and has been told to stop
  or has failed (`AbandonedStops`). `CallsKnow` carries this through the steps
  between two lock blocks: a call that is about to launch knows that no worker is
  active, one that joined knows that what it left behind was given up on. The
  hard step is `RegisterWorker`, where the worker may have ended between its
  announcement and its registration.

`DeferredDownloads_proofs`:

* `TypeCorrect`, `CustodyKept` (`Custody`) and `ClaimsFresh` (`ClaimsAreFresh`). The
  invariant `QueueInv` adds to them that the entry the worker has in hand is the
  head of the queue and has been reported before it is removed (`HeadInHand`), and
  that the stamp of a queued file is one it was announced under (`StampsSeen`).
  They need the queue without duplicates: removing the head's key from the set
  is only right if no other entry has it.

`MediaSync_proofs`:

* `SyncIsSafeTransfer` — `Spec => Transfer!TransferSpec`, for any files, sizes and
  colliding paths: initial states map to initial states, and every step to a step
  of `SafeTransfer` or a stutter. The code compares sizes, the promise is about
  whole copies, and `SyncInv` bridges the two: what lies at a path belongs to a
  file of that path (`CopiesNamed`); files that share a path are all still on the
  device and are listed together (`TwinsStay`, `Listed`), so that `Shared` sees
  them and neither is deleted; a verified path of a listed file that shares it
  with none holds that file whole if its size still agrees (`VerifiedSized`); and
  what is about to be removed was found so a step before (`Removing`).
* `CleanRunIsDone` (`OkMeansDone`) — by `WorkInv`: a file the pass has left behind
  is done, or a failure is on record. `TypeCorrect`.

`CameraHub_proofs`:

* `OneManagerPerDevice` (`ClaimsAreDistinct`) and `NoneLeaked` (`NoLeakedSession`). A
  new manager is made for a device that no registered, connected manager has; the
  proof has to show that no other claims it either. `HubInv` says that a session
  which is going is registered or in the hands of a call (`Placed`), that only the
  owner of the connect mutex waits for a manager it made and that a call which
  disconnects managers has stopped the first of them (`CallsKnow`), and that a
  registered manager which denies being connected has ended or was stopped
  (`WorkersTell`, with `ReapedAreDead`). That is why devices are distinct from the start of
  a worker on (`Distinct`), not only once it has made its claim.
* `OneCameraPerUid` — two registered managers never share a uid; `HubTyped`
  (`TypeOK`). The hub takes the first uid that addresses no registered camera. There
  is one, because the manager that needs it is not registered yet (`AwaitedIsNew`)
  and the registered ones are fewer than the uids: a pigeonhole argument over
  cardinalities (`FreeUidIsFree`).

`CaptureService_proofs`:

* `GapsAreTold` (`NoSilentGap`), with no assumption. The log is a run of consecutive
  ids up to the counter (`LogRun`); between the three reads of a consumer the cursor
  has not moved, and what its page skipped is gone for good and within the window
  the last read names (`ReaderInv`). Appending, evicting, clearing and connecting
  only move the log forward (`LogForward`), which is all the reader needs of them.
* `SessionsEndTheirRecording` (`ClosedNotRecording`), with no assumption on the calls:
  the flag of the worker never says less than a body that confirms does, unless the
  last command raised, and a worker that has its adapter leaves `last` with the flag
  down or its stop raised (`FilmInv`).
* `VideoModeIsGivenBack` (`VideoModeIsBorrowed`), `CapturesAreToldTheTruth`
  (`ToldTheTruth`) and `BacklogIsNoResult` (`ResultIsNotBacklog`), for hosts of which
  none reconnects in the middle of a capture (`ReconnectsApart`; section 4 has what
  happens otherwise). All three rest on the capture lock being held by the one call
  under way (`LockInv`). `BorrowInv` names the call that will put the mode back, unless a sequence barred
  its way. `TruthInv` says for each place of a call whether the worker's flag is up,
  whether the last command raised and whether the trigger it raised is still up, in the worker's hands, or served: the trigger is one
  bit and, for video, a toggle, so a single request served out of order falsifies it.
  `FileInv` and `BacklogInv` say that a file announced before a call asked carries a
  stamp below the act it asks for, in the queue as well as in the log.
* `CallsAndLogTyped` (`TypeOK`).

`DriverSessions_proofs` has the two families with threads of their own, the webcam
and the telescope, in one module that extends both:

* `MovieWhole` (`MovieIsWhole`) — `MovieInv` counts an offered frame in the movie,
  the encoder, the queue or the hand of the worker until it is dropped or slips
  through (`Accounted`), and keeps frames in that order (`StreamOrder`);
  `RecorderAgrees` says that an encoder which was waited for, and did not end by an
  exception, has emptied the queue before the container was closed. `TypeCorrect`.
* `DialIsTrue` (`DialTruthful`), for any values of the dial and any traffic. Answers
  are matched by kind alone. `SetOnce` says that, until a write is given up, one
  write at most is on the wire, as a request or as an answer, and it is the one the
  worker waits for; `ManualKept` that a write only leaves when the device has said it
  is in manual mode, which it never leaves; `LockFirst` that the one lock request is
  over by then, so that a lock once taken away does not come back with a late answer;
  `ExpoKept` that the value in force is that of the acknowledged write, or still the
  one on the dial. `TelescopeTyped` (`DwarfTypeOK`).

Only model-checked: liveness (`StopReleases`, `StopEnds`, `QuietQueueEmpties`,
`EntriesSettle`, `FilesAreAnnounced`), which is outside what the prover handles
here. Every invariant and action property a passing
run checks is a theorem.

## 6. Not modelled

* Numeric image processing (`detection.py`), codecs, byte parsers, discovery and
  naming: functions of their inputs with no behaviour over time.
* Seconds. Budgets that add up to more than the wait that covers them are seen only
  as "may be cut short".
* Camera set-up choreography inside an adapter call, which is one step with its
  outcomes; burst capture and its settings; mounts, live view and the other dials
  of a telescope; zoom of a webcam.
* A read of the whole cache that raises ends the worker loop; `ManagerLifecycle`
  has the end of the loop, `ConfigLedger` has only reads that leave a widget out.
* One-shot actions and rolling clips: one thread and a list.
* Host integrations, the simulator, the PTP driver, the command line: delegation,
  a stand-in for tests, glue.

## 7. Plan

Done, in this order: what owns the camera (`ManagerLifecycle`), what fires
(`IntervalSequence`, `Intervalometer`), what becomes of its products
(`DeferredDownloads`, `ConfigLedger`), the layers that wait for them (`EventLog`,
`CaptureService`, `CameraHub`), storage (`SafeTransfer`, `MediaSync`) and the two
families with threads of their own (`DwarfSession`, `WebcamSession`).

Left, in order of worth:

1. Proofs: what a session of a webcam fetches and names (`WebcamSession`), and that
   the hub's uids stay with their managers while a call uses them.
2. Bursts and the settings they borrow, in `CaptureService`.
3. A read that raises, in `ConfigLedger`; the action channel beside it.
4. The cooldown and the flood gate of a detection, with a clock of few ticks.

Runs stay one per question: a module that composes two others replaces their
separate runs where it checks the same.
