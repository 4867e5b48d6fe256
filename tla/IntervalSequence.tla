--------------------------- MODULE IntervalSequence ---------------------------
(***************************************************************************)
(* The ledger of one intervalometer run (class IntervalSequence of          *)
(* sequences.py), as operators on records.  Wall-clock time is left out:    *)
(* whether a slot is early, due or blown is an input of Verdicts.           *)
(***************************************************************************)
EXTENDS Integers

CONSTANT
  MaxFailures          \* MAX_CONSECUTIVE_FAILURES

ASSUME MaxFailuresAssumption == MaxFailures \in Nat \ {0}

States    == {"armed", "running", "complete", "stopped", "aborted"}
Sequences ==
  [state : States,
   count : Nat,        \* frames wanted, 0 = infinite
   next  : Nat,        \* next_index: slots accounted for
   done  : Nat, failed : Nat, missed : Nat,
   consec : Nat]       \* consecutive_failures

NewSequence(n) ==
  [state |-> "armed", count |-> n, next |-> 0,
   done |-> 0, failed |-> 0, missed |-> 0, consec |-> 0]

IsActive(q)   == q.state \in {"armed", "running"}
IsInfinite(q) == q.count = 0
Exhausted(q)  == ~IsInfinite(q) /\ q.next >= q.count

\* poll(): what the worker must do now, for every reading of the clock.
Verdicts(q) ==
  IF ~IsActive(q) \/ Exhausted(q) THEN {"done"} ELSE {"wait", "fire", "skip"}

\* ... and what poll() does to the sequence: it closes an exhausted one.
Polled(q) == IF IsActive(q) /\ Exhausted(q) THEN [q EXCEPT !.state = "complete"] ELSE q

\* _maybe_complete()
MaybeComplete(q) ==
  IF IsActive(q) /\ Exhausted(q) THEN [q EXCEPT !.state = "complete"] ELSE q

\* The slot next_index is accounted for with one result.  Only a fired frame
\* resets the failure count: a missed slot leaves it.
Account(q, fired, failed, missed) ==
  [state |-> "running", count |-> q.count, next |-> q.next + 1,
   done |-> q.done + fired, failed |-> q.failed + failed, missed |-> q.missed + missed,
   consec |-> IF fired = 1 THEN 0 ELSE q.consec + failed]

RecordFired(q)  == MaybeComplete(Account(q, 1, 0, 0))
RecordMissed(q) == MaybeComplete(Account(q, 0, 0, 1))

\* Mutant: the abort branch forgets that the slot is used up.
RecordFailed_KeepsSlot(q) ==
  LET r == Account(q, 0, 1, 0)
  IN  IF r.consec >= MaxFailures THEN [r EXCEPT !.state = "aborted", !.next = q.next]
      ELSE MaybeComplete(r)

RecordFailed(q) ==
  LET r == Account(q, 0, 1, 0)
  IN  IF r.consec >= MaxFailures THEN [r EXCEPT !.state = "aborted"]
      ELSE MaybeComplete(r)

Stopped(q) == IF IsActive(q) THEN [q EXCEPT !.state = "stopped"] ELSE q
Aborted(q) == IF IsActive(q) THEN [q EXCEPT !.state = "aborted"] ELSE q

-----------------------------------------------------------------------------
\* What a ledger promises.  Every slot has exactly one result; a finite run
\* never overruns and is closed by its last slot, whatever that slot's result;
\* it is complete only when every slot was accounted for; and a run goes on
\* only while its latest failures are fewer than the limit.
LedgerSound(q) ==
  /\ q.next = q.done + q.failed + q.missed
  /\ ~IsInfinite(q) => q.next <= q.count
  /\ IsActive(q) => ~Exhausted(q) /\ q.consec < MaxFailures
  /\ q.state = "complete" => ~IsInfinite(q) /\ q.next = q.count
  /\ q.consec <= q.failed
  /\ q.state = "armed" <=> (q.next = 0 /\ IsActive(q))
=============================================================================
