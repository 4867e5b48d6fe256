----------------------------- MODULE ConfigLedger -----------------------------
(***************************************************************************)
(* One setting of the camera, from set_config_value() to the ledger entry    *)
(* that says what became of it (config_ledger.py, with the callers in        *)
(* camera_manager.py and worker.py).  The camera accepts a write and applies *)
(* it seconds later, or loses it, or answers that it is busy; the worker     *)
(* requeues, re-reads, escalates and in the end declares the value confirmed *)
(* or reverted, while hosts ask for other values.                            *)
(*                                                                         *)
(* The module follows a single widget.  The others share no state with it;   *)
(* they only cause more refreshes, which a host may ask for at any time.     *)
(* Time is the steps PatienceExpires and PaceExpires.                        *)
(***************************************************************************)
EXTENDS Integers

CONSTANTS
  Values,           \* values of the widget
  NoValue,          \* none of them
  Kinds,            \* the kinds of widget to look at
  MaxRequests,      \* bound: values ever asked for
  MaxAttempts       \* CONFIG_RETRY_MAX_ATTEMPTS

ASSUME ConfigAssumption ==
  /\ NoValue \notin Values
  /\ Kinds \subseteq {"plain", "escalates", "planned"}
  /\ MaxRequests \in Nat
  /\ MaxAttempts \in Nat

VARIABLES
  kind,      \* "escalates": in settle_escalations(); "planned": in a mode plan
  requests,  \* how many values were asked for
  latest,    \* the last value asked for (history)
  issued,    \* the last value written, successfully or not (history)
  early,     \* since the entry was made its patience ran out with the write still
             \* to be made, or to be applied by the body (history)
  pending,   \* _pending_config[name]
  entry,     \* _pending_writes[name]
  patience,  \* since its requested_at: "queued" until the worker takes the value,
             \* "running", "attempted" once a write of it was tried, "over"
             \* when settle_patience_s() is up
  retries,   \* _config_retry_counts[name]
  paced,     \* _config_retry_not_before[name] lies ahead
  refresh,   \* _config_refresh_requested
  cache,     \* _config_cache[name]
  auto,      \* _detection_mode = "auto"
  body,      \* what the camera reports when asked
  lazy,      \* a write it has accepted and not yet applied
  wpc,       \* where the worker is
  item,      \* the value it is writing
  seen,      \* the value it has read
  ret        \* where its refresh returns to

avars == <<latest, issued, early>>
svars == <<retries, paced>>
cvars == <<body, lazy>>
wvars == <<item, seen, ret>>
vars  == <<kind, requests, avars, pending, entry, patience, svars, refresh,
           cache, auto, cvars, wpc, wvars>>

Maybe   == Values \cup {NoValue}
NoEntry == [state |-> "none", value |-> NoValue, mismatches |-> 0, escalation |-> "no"]

TypeOK ==
  /\ kind \in Kinds
  /\ requests \in 0..MaxRequests
  /\ latest \in Maybe /\ issued \in Maybe /\ pending \in Maybe /\ cache \in Maybe
  /\ body \in Maybe /\ lazy \in Maybe /\ item \in Maybe /\ seen \in Maybe
  /\ entry \in [state : {"none", "pending", "confirmed", "reverted"}, value : Maybe,
                mismatches : 0..2, escalation : {"no", "asked", "done"}]
  /\ patience \in {"queued", "running", "attempted", "over"}
  /\ retries \in 0..MaxAttempts
  /\ paced \in BOOLEAN /\ refresh \in BOOLEAN /\ auto \in BOOLEAN /\ early \in BOOLEAN
  /\ wpc \in {"top", "read", "settle", "apply", "write", "written", "verified", "busy",
              "refused", "escalate", "rescue", "periodic"}
  /\ ret \in {"apply", "escalate", "periodic", "top"}

Init ==
  /\ kind \in Kinds
  /\ requests = 0
  /\ latest = NoValue
  /\ issued = NoValue
  /\ early = FALSE
  /\ pending = NoValue
  /\ entry = NoEntry
  /\ patience = "running"
  /\ retries = 0
  /\ paced = FALSE
  /\ refresh = FALSE
  /\ body \in Values
  /\ cache = body
  /\ auto = FALSE
  /\ lazy = NoValue
  /\ wpc = "top"
  /\ item = NoValue
  /\ seen = NoValue
  /\ ret = "top"

Goto(from, to) == wpc = from /\ wpc' = to

\* A write of v is queued, being made, or owed by an escalation.
Coming(v) == pending = v \/ item = v \/ (entry.value = v /\ entry.escalation = "asked")

-----------------------------------------------------------------------------
(***************************************************************************)
(* The hosts.                                                              *)
(***************************************************************************)

\* set_config_value, and the default writes of a connection.
SetConfigValue(v) ==
  /\ requests < MaxRequests
  /\ requests' = requests + 1
  /\ latest' = v
  /\ pending' = v
  /\ entry' = [state |-> "pending", value |-> v, mismatches |-> 0, escalation |-> "no"]
  /\ patience' = "queued"
  /\ early' = FALSE
  /\ UNCHANGED <<kind, issued, svars, refresh, cache, auto, cvars, wpc, wvars>>

\* set_capture_mode queues the writes of its plan without a ledger entry.
PlanValue(v) ==
  /\ kind = "planned"
  /\ requests < MaxRequests
  /\ requests' = requests + 1
  /\ latest' = v
  /\ pending' = v
  /\ UNCHANGED <<kind, issued, early, entry, patience, svars, refresh, cache, auto, cvars, wpc,
                 wvars>>

RequestRefresh ==
  /\ ~refresh
  /\ refresh' = TRUE
  /\ UNCHANGED <<kind, requests, avars, pending, entry, patience, svars, cache, auto, cvars,
                 wpc, wvars>>

SetDetectionMode ==
  /\ auto' = ~auto
  /\ UNCHANGED <<kind, requests, avars, pending, entry, patience, svars, refresh, cache,
                 cvars, wpc, wvars>>

-----------------------------------------------------------------------------
(***************************************************************************)
(* The camera and the clock.                                               *)
(***************************************************************************)

\* An accepted write is applied, or silently lost.
BodySettles ==
  /\ lazy # NoValue
  /\ lazy' = NoValue
  /\ body' \in {body, lazy}
  /\ UNCHANGED <<kind, requests, avars, pending, entry, patience, svars, refresh, cache, auto,
                 wpc, wvars>>

\* settle_patience_s() runs from the request.  It is meant to cover the time until
\* the worker makes the write and the lag of the body, but nothing holds it while
\* the worker is busy with an exposure or a flush: early tells when it did not.
PatienceExpires ==
  /\ entry.state = "pending"
  /\ patience # "over"
  /\ patience' = "over"
  /\ early' = (early \/ lazy = entry.value \/ (patience # "attempted" /\ Coming(entry.value)))
  /\ UNCHANGED <<kind, requests, latest, issued, pending, entry, svars, refresh, cache, auto, cvars,
                 wpc, wvars>>

PaceExpires ==
  /\ paced
  /\ paced' = FALSE
  /\ UNCHANGED <<kind, requests, avars, pending, entry, patience, retries, refresh, cache,
                 auto, cvars, wpc, wvars>>

-----------------------------------------------------------------------------
(***************************************************************************)
(* The worker.                                                             *)
(***************************************************************************)

\* The safe window of an iteration: a requested refresh comes first.
OpenWindow ==
  /\ Goto("top", IF refresh THEN "read" ELSE "apply")
  /\ refresh' = FALSE
  /\ ret' = IF refresh THEN "apply" ELSE ret
  /\ UNCHANGED <<kind, requests, avars, pending, entry, patience, svars, cache, auto, cvars,
                 item, seen>>

\* _refresh_config_cache: the adapter reads the widgets, without the lock; a
\* read may fail and leave the widget out.
Read ==
  /\ Goto("read", "settle")
  /\ seen' \in {body, NoValue}
  /\ UNCHANGED <<kind, requests, avars, pending, entry, patience, svars, refresh, cache, auto,
                 cvars, item, ret>>

\* Mutant: every pair of mismatches escalates again.
MayEscalate_Again == kind = "escalates"

MayEscalate == kind = "escalates" /\ entry.escalation # "done"

\* What _settle_pending_writes does to the entry, given a reading.  A settled
\* entry is dropped three seconds later.
Confirmed == [entry EXCEPT !.state = "confirmed"]
Mismatched ==
  IF entry.mismatches = 0 THEN [entry EXCEPT !.mismatches = 1]
  ELSE IF MayEscalate THEN [entry EXCEPT !.mismatches = 0, !.escalation = "asked"]
  ELSE [entry EXCEPT !.mismatches = 2, !.state = "reverted"]

Settle(v) ==
  IF entry.state # "pending"
  THEN entry' \in {entry, NoEntry} /\ UNCHANGED patience
  ELSE /\ entry' = IF v = entry.value THEN Confirmed
                   ELSE IF patience = "over" THEN Mismatched ELSE entry
       /\ patience' = IF entry'.escalation # entry.escalation THEN "running" ELSE patience

PublishCache ==
  /\ Goto("settle", ret)
  /\ cache' = seen
  /\ Settle(seen)
  /\ seen' = NoValue
  /\ UNCHANGED <<kind, requests, avars, pending, svars, refresh, auto, cvars, item, ret>>

\* _apply_pending_config takes the value out of the queue, unless it is paced.
TakePending ==
  /\ pending # NoValue /\ ~paced
  /\ Goto("apply", "write")
  /\ item' = pending
  /\ pending' = NoValue
  /\ patience' = IF pending = entry.value /\ patience = "queued" THEN "running" ELSE patience
  /\ UNCHANGED <<kind, requests, avars, entry, svars, refresh, cache, auto, cvars, seen, ret>>

NothingDue ==
  /\ pending = NoValue \/ paced
  /\ Goto("apply", "escalate")
  /\ UNCHANGED <<kind, requests, avars, pending, entry, patience, svars, refresh, cache, auto,
                 cvars, wvars>>

\* The camera is asked to take the value; an attempt counts for the entry that
\* asks for it.
Attempt ==
  /\ issued' = item
  /\ patience' = IF item = entry.value /\ patience = "running" THEN "attempted" ELSE patience
  /\ UNCHANGED <<kind, requests, latest, early, pending, entry, svars, refresh, cache, auto, wvars>>

\* A body applies a write at once, later, or never.
BodyTakes ==
  \/ lazy' = item /\ UNCHANGED body
  \/ lazy' = NoValue /\ body' = item
  \/ UNCHANGED cvars

\* The write is accepted, verified, answered with busy or refused; the last two
\* after tries of write_widget that may have reached the body.
WriteAccepted ==
  /\ Goto("write", "written")
  /\ BodyTakes
  /\ Attempt

WriteVerified ==
  /\ Goto("write", "verified")
  /\ lazy' = NoValue
  /\ body' = item
  /\ Attempt

WriteFails ==
  /\ Goto("write", "busy") \/ Goto("write", "refused")
  /\ BodyTakes
  /\ Attempt

\* An accepted write forgets its retries; a verified one settles its entry.
\* A refresh follows.
Accept(from, settled) ==
  /\ Goto(from, "read")
  /\ retries' = 0
  /\ paced' = FALSE
  /\ entry' = IF settled /\ entry.value = item THEN Confirmed ELSE entry
  /\ item' = NoValue
  /\ ret' = "escalate"
  /\ UNCHANGED <<kind, requests, avars, pending, patience, refresh, cache, auto, cvars, seen>>

\* Mutants: the retry overwrites a newer value; it leaves the ledger's patience
\* as it is; it is made once more than allowed.
Requeue_Overwrites ==
  /\ Goto("busy", "escalate")
  /\ retries < MaxAttempts
  /\ retries' = retries + 1
  /\ paced' = TRUE
  /\ pending' = item
  /\ patience' = IF entry.value = item THEN "running" ELSE patience
  /\ item' = NoValue
  /\ UNCHANGED <<kind, requests, avars, entry, refresh, cache, auto, cvars, seen, ret>>

Requeue_KeepsPatience ==
  /\ Goto("busy", "escalate")
  /\ retries < MaxAttempts
  /\ retries' = retries + 1
  /\ paced' = TRUE
  /\ pending' = IF pending = NoValue THEN item ELSE pending
  /\ item' = NoValue
  /\ UNCHANGED <<kind, requests, avars, entry, patience, refresh, cache, auto, cvars, seen, ret>>

Requeue_OneMore ==
  /\ Goto("busy", "escalate")
  /\ retries <= MaxAttempts
  /\ retries' = retries + 1
  /\ paced' = TRUE
  /\ pending' = IF pending = NoValue THEN item ELSE pending
  /\ patience' = IF entry.value = item THEN "running" ELSE patience
  /\ item' = NoValue
  /\ UNCHANGED <<kind, requests, avars, entry, refresh, cache, auto, cvars, seen, ret>>

\* A busy camera: a bounded number of paced retries, which a newer value
\* overrides and which restart the ledger's patience.
Requeue ==
  /\ Goto("busy", "escalate")
  /\ retries < MaxAttempts
  /\ retries' = retries + 1
  /\ paced' = TRUE
  /\ pending' = IF pending = NoValue THEN item ELSE pending
  /\ patience' = IF entry.value = item THEN "running" ELSE patience
  /\ item' = NoValue
  /\ UNCHANGED <<kind, requests, avars, entry, refresh, cache, auto, cvars, seen, ret>>

\* A refusal, or one retry too many: an error event, and the entry is left to
\* the settlement.
GiveUp ==
  /\ \/ Goto("refused", "escalate")
     \/ retries = MaxAttempts /\ Goto("busy", "escalate")
  /\ retries' = 0
  /\ paced' = FALSE
  /\ item' = NoValue
  /\ UNCHANGED <<kind, requests, avars, pending, entry, patience, refresh, cache, auto, cvars,
                 seen, ret>>

\* _service_write_escalations takes up what the settlement asked for ...
TakeEscalation ==
  /\ entry.escalation = "asked"
  /\ Goto("escalate", "rescue")
  /\ entry' = [entry EXCEPT !.escalation = "done"]
  /\ item' = entry.value
  /\ UNCHANGED <<kind, requests, avars, pending, patience, svars, refresh, cache, auto, cvars,
                 seen, ret>>

NothingToEscalate ==
  /\ entry.escalation # "asked"
  /\ Goto("escalate", "periodic")
  /\ UNCHANGED <<kind, requests, avars, pending, entry, patience, svars, refresh, cache, auto,
                 cvars, wvars>>

\* ... writes the value with live view released, and re-reads.
Rescue ==
  /\ Goto("rescue", "read")
  /\ issued' = item
  /\ patience' = IF item = entry.value /\ patience = "running" THEN "attempted" ELSE patience
  /\ BodyTakes
  /\ item' = NoValue
  /\ ret' = "periodic"
  /\ UNCHANGED <<kind, requests, latest, early, pending, entry, svars, refresh, cache, auto, seen>>

\* The periodic settlement: a fresh reading while something is unsettled, the
\* cached one to age settled entries; none while Auto-Fire is armed.
PeriodicRead ==
  /\ entry.state = "pending" /\ ~auto
  /\ Goto("periodic", "read")
  /\ ret' = "top"
  /\ UNCHANGED <<kind, requests, avars, pending, entry, patience, svars, refresh, cache, auto,
                 cvars, item, seen>>

PeriodicAge ==
  /\ entry.state \in {"confirmed", "reverted"} /\ ~auto
  /\ Goto("periodic", "settle")
  /\ seen' = cache
  /\ ret' = "top"
  /\ UNCHANGED <<kind, requests, avars, pending, entry, patience, svars, refresh, cache, auto,
                 cvars, item>>

\* Nothing to settle, Auto-Fire armed, or less than 2.5s since the last time.
PeriodicSkip ==
  /\ Goto("periodic", "top")
  /\ UNCHANGED <<kind, requests, avars, pending, entry, patience, svars, refresh, cache, auto,
                 cvars, wvars>>

Worker ==
  \/ OpenWindow \/ Read \/ PublishCache
  \/ TakePending \/ NothingDue
  \/ WriteAccepted \/ WriteVerified \/ WriteFails
  \/ Accept("written", FALSE) \/ Accept("verified", TRUE) \/ Requeue \/ GiveUp
  \/ TakeEscalation \/ NothingToEscalate \/ Rescue
  \/ PeriodicRead \/ PeriodicAge \/ PeriodicSkip

Hosts  == \/ \E v \in Values : SetConfigValue(v) \/ PlanValue(v)
          \/ RequestRefresh \/ SetDetectionMode
Nature == BodySettles \/ PatienceExpires \/ PaceExpires

Next == Worker \/ Hosts \/ Nature

Spec == Init /\ [][Next]_vars

\* The worker runs and time passes; the settlement comes round every 2.5s.
Fairness ==
  /\ WF_vars(Worker)
  /\ SF_vars(PeriodicRead)
  /\ WF_vars(BodySettles) /\ WF_vars(PatienceExpires) /\ WF_vars(PaceExpires)

FairSpec == Spec /\ Fairness

-----------------------------------------------------------------------------
(***************************************************************************)
(* Properties.                                                             *)
(***************************************************************************)

\* "A NEWER user value for the same widget always wins over the retry"
\* (config_ledger.py:65-66): when nothing is queued or being written, the last
\* value the camera was given is the last one asked for, whatever was retried
\* or escalated meanwhile.
LastRequestedWins == pending = NoValue /\ item = NoValue => issued = latest

\* "Declares `reverted` only after patience + two stable mismatches, with family
\* escalations first" (docs/architecture.md:90-92): never before the escalation
\* the family offers; and unless the patience ran out early, which the worker
\* may bring about by being held up, never while the value is queued for a retry
\* or an escalation, or accepted by a body that has not applied it yet.
RevertIsFinal ==
  [][entry.state = "pending" /\ entry'.state = "reverted" /\ kind # "planned"
       => /\ ~early => ~Coming(entry.value) /\ lazy # entry.value
          /\ kind = "escalates" => entry.escalation = "done"]_vars

\* Every entry is settled in the end, though retries and escalations restart
\* its patience, if Auto-Fire is not armed for ever.
EntriesSettle ==
  <>[]~auto => (entry.state = "pending" ~> entry.state # "pending")
=============================================================================
