------------------------- MODULE ConfigLedger_proofs -------------------------
(***************************************************************************)
(* For any values, bounds and timeouts: the last value asked for is the last *)
(* one the camera is given (LastRequestedWins of ConfigLedger), and a write   *)
(* is declared reverted only when nothing of it is left (RevertIsFinal).      *)
(***************************************************************************)
EXTENDS ConfigLedger, TLAPS

(***************************************************************************)
(* The types, in two parts: the flags, and what is data or a program counter. *)
(***************************************************************************)
FlagsType ==
  paced \in BOOLEAN /\ refresh \in BOOLEAN /\ auto \in BOOLEAN /\ early \in BOOLEAN

EntryType ==
  entry \in [state : {"none", "pending", "confirmed", "reverted"}, value : Maybe,
             mismatches : 0..2, escalation : {"no", "asked", "done"}]

DataType ==
  /\ kind \in Kinds
  /\ requests \in 0..MaxRequests
  /\ latest \in Maybe /\ issued \in Maybe /\ pending \in Maybe /\ cache \in Maybe
  /\ body \in Maybe /\ lazy \in Maybe /\ item \in Maybe /\ seen \in Maybe
  /\ patience \in {"queued", "running", "attempted", "over"}
  /\ retries \in 0..MaxAttempts
  /\ wpc \in {"top", "read", "settle", "apply", "write", "written", "verified", "busy",
              "refused", "escalate", "rescue", "periodic"}
  /\ ret \in {"apply", "escalate", "periodic", "top"}

\* TypeOK is its parts.
LEMMA TypeParts == TypeOK <=> FlagsType /\ DataType /\ EntryType
BY DEF TypeOK, FlagsType, DataType, EntryType

\* The initial states are well typed.
LEMMA TypeInit == Init => TypeOK
<1> SUFFICES ASSUME Init PROVE FlagsType /\ DataType /\ EntryType
  BY TypeParts
<1>1. FlagsType
  BY DEF Init, FlagsType
<1>2. DataType
  BY ConfigAssumption DEF Init, DataType, Maybe
<1>3. EntryType
  BY DEF Init, EntryType, NoEntry, Maybe
<1> QED
  BY <1>1, <1>2, <1>3

\* Every step keeps the flags Boolean.
LEMMA FlagsStep == FlagsType /\ [Next]_vars => FlagsType'
<1> SUFFICES ASSUME FlagsType, [Next]_vars PROVE FlagsType'
  OBVIOUS
<1> USE DEF FlagsType
<1>1. ASSUME NEW v \in Values, SetConfigValue(v) PROVE FlagsType'
  BY <1>1 DEF SetConfigValue, svars, cvars, wvars
<1>2. ASSUME NEW v \in Values, PlanValue(v) PROVE FlagsType'
  BY <1>2 DEF PlanValue, svars, cvars, wvars
<1>3. CASE RequestRefresh \/ SetDetectionMode
  BY <1>3 DEF RequestRefresh, SetDetectionMode, avars, svars, cvars, wvars
<1>4. CASE BodySettles \/ PaceExpires
  BY <1>4 DEF BodySettles, PaceExpires, avars, svars, cvars, wvars
<1>14. CASE PatienceExpires
  <2>1. early' = TRUE \/ early' = FALSE
    BY <1>14, SMT DEF PatienceExpires
  <2>2. early' \in BOOLEAN
    BY <2>1, Zenon
  <2> QED
    BY <1>14, <2>2 DEF PatienceExpires, svars
<1>5. CASE OpenWindow \/ Read
  BY <1>5 DEF OpenWindow, Read, avars, svars, cvars, wvars
<1>6. CASE PublishCache
  BY <1>6 DEF PublishCache, avars, svars, cvars
<1>7. CASE TakePending \/ NothingDue
  BY <1>7 DEF TakePending, NothingDue, avars, svars, cvars, wvars
<1>8. CASE WriteAccepted \/ WriteVerified \/ WriteFails
  BY <1>8 DEF WriteAccepted, WriteVerified, WriteFails, Attempt, BodyTakes, svars, cvars, wvars
<1>9. CASE Accept("written", FALSE) \/ Accept("verified", TRUE)
  BY <1>9 DEF Accept, Confirmed, avars, cvars
<1>10. CASE Requeue \/ GiveUp
  BY <1>10 DEF Requeue, GiveUp, avars, cvars
<1>11. CASE TakeEscalation \/ NothingToEscalate \/ Rescue
  BY <1>11 DEF TakeEscalation, NothingToEscalate, Rescue, BodyTakes, avars, svars, cvars, wvars
<1>12. CASE PeriodicRead \/ PeriodicAge \/ PeriodicSkip
  BY <1>12 DEF PeriodicRead, PeriodicAge, PeriodicSkip, avars, svars, cvars, wvars
<1>13. CASE UNCHANGED vars
  BY <1>13 DEF vars, avars, svars, cvars, wvars
<1> QED
  BY <1>1, <1>2, <1>3, <1>4, <1>5, <1>6, <1>7, <1>8, <1>9, <1>10, <1>11, <1>12, <1>13, <1>14
  DEF Next, Worker, Hosts, Nature

\* What a settlement makes of an entry: it keeps the value asked for, and only
\* an escalating widget is escalated (config_ledger.py:120-157).
LEMMA SettledEntry ==
  ASSUME EntryType, NEW v, Settle(v)
  PROVE  /\ EntryType'
         /\ \/ entry' \in {entry, NoEntry}
            \/ /\ entry.state = "pending"
               /\ entry'.value = entry.value
               /\ \/ entry'.escalation = entry.escalation
                  \/ kind = "escalates" /\ entry'.escalation = "asked"
<1> DEFINE EntrySet == [state : {"none", "pending", "confirmed", "reverted"}, value : Maybe,
                        mismatches : 0..2, escalation : {"no", "asked", "done"}]
<1>1. entry' \in {entry, NoEntry} \/ (entry.state = "pending" /\ entry' \in {entry, Confirmed, Mismatched})
  BY DEF Settle
<1>2. entry \in EntrySet
  BY DEF EntryType
<1>3. NoEntry \in EntrySet
  BY DEF NoEntry, Maybe
<1>4. /\ Confirmed \in EntrySet
      /\ Confirmed.value = entry.value /\ Confirmed.escalation = entry.escalation
  BY <1>2 DEF Confirmed
<1>5. /\ Mismatched \in EntrySet
      /\ Mismatched.value = entry.value
      /\ \/ Mismatched.escalation = entry.escalation
         \/ kind = "escalates" /\ Mismatched.escalation = "asked"
  <2>1. CASE entry.mismatches = 0
    <3>1. Mismatched = [entry EXCEPT !.mismatches = 1]
      BY <2>1 DEF Mismatched
    <3> QED
      BY <1>2, <3>1
  <2>2. CASE entry.mismatches # 0 /\ MayEscalate
    <3>1. Mismatched = [state |-> entry.state, value |-> entry.value,
                        mismatches |-> 0, escalation |-> "asked"]
      BY <1>2, <2>2 DEF Mismatched
    <3> QED
      BY <1>2, <2>2, <3>1 DEF MayEscalate
  <2>3. CASE entry.mismatches # 0 /\ ~MayEscalate
    <3>1. Mismatched = [state |-> "reverted", value |-> entry.value,
                        mismatches |-> 2, escalation |-> entry.escalation]
      BY <1>2, <2>3 DEF Mismatched
    <3> QED
      BY <1>2, <3>1
  <2> QED
    BY <2>1, <2>2, <2>3
<1>6. entry' \in EntrySet
  BY <1>1, <1>2, <1>3, <1>4, <1>5
<1> QED
  BY <1>1, <1>4, <1>5, <1>6 DEF EntryType

\* Every step keeps the data and the entry typed.
LEMMA DataStep == DataType /\ EntryType /\ [Next]_vars => DataType' /\ EntryType'
<1> SUFFICES ASSUME DataType, EntryType, [Next]_vars PROVE DataType' /\ EntryType'
  OBVIOUS
<1> USE ConfigAssumption DEF DataType, EntryType, Maybe, Goto
<1>1. ASSUME NEW v \in Values, SetConfigValue(v) PROVE DataType' /\ EntryType'
  BY <1>1 DEF SetConfigValue, svars, cvars, wvars
<1>2. ASSUME NEW v \in Values, PlanValue(v) PROVE DataType' /\ EntryType'
  BY <1>2 DEF PlanValue, svars, cvars, wvars
<1>3. CASE RequestRefresh \/ SetDetectionMode
  BY <1>3 DEF RequestRefresh, SetDetectionMode, avars, svars, cvars, wvars
<1>4. CASE BodySettles \/ PatienceExpires \/ PaceExpires
  BY <1>4 DEF BodySettles, PatienceExpires, PaceExpires, avars, svars, cvars, wvars
<1>5. CASE OpenWindow \/ Read
  BY <1>5 DEF OpenWindow, Read, avars, svars, cvars, wvars
<1>6. CASE PublishCache
  <2>1. EntryType'
    BY <1>6, SettledEntry DEF PublishCache
  <2>2. patience' \in {"queued", "running", "attempted", "over"}
    BY <1>6 DEF PublishCache, Settle
  <2> QED
    BY <1>6, <2>1, <2>2 DEF PublishCache, avars, svars, cvars
<1>7. CASE TakePending \/ NothingDue
  BY <1>7 DEF TakePending, NothingDue, avars, svars, cvars, wvars
<1>8. CASE WriteAccepted \/ WriteVerified \/ WriteFails
  BY <1>8 DEF WriteAccepted, WriteVerified, WriteFails, Attempt, BodyTakes, svars, cvars, wvars
<1>9. CASE Accept("written", FALSE) \/ Accept("verified", TRUE)
  BY <1>9 DEF Accept, Confirmed, avars, cvars
<1>10. CASE Requeue \/ GiveUp
  BY <1>10 DEF Requeue, GiveUp, avars, cvars
<1>11. CASE TakeEscalation \/ NothingToEscalate \/ Rescue
  BY <1>11 DEF TakeEscalation, NothingToEscalate, Rescue, BodyTakes, avars, svars, cvars, wvars
<1>12. CASE PeriodicRead \/ PeriodicAge \/ PeriodicSkip
  BY <1>12 DEF PeriodicRead, PeriodicAge, PeriodicSkip, avars, svars, cvars, wvars
<1>13. CASE UNCHANGED vars
  BY <1>13 DEF vars, avars, svars, cvars, wvars
<1> QED
  BY <1>1, <1>2, <1>3, <1>4, <1>5, <1>6, <1>7, <1>8, <1>9, <1>10, <1>11, <1>12, <1>13
  DEF Next, Worker, Hosts, Nature

\* TypeOK is inductive.
LEMMA TypeStep == TypeOK /\ [Next]_vars => TypeOK'
BY FlagsStep, DataStep DEF TypeOK, FlagsType, DataType, EntryType

-----------------------------------------------------------------------------
(***************************************************************************)
(* LastRequestedWins speaks of the moments with nothing under way.  What is   *)
(* inductive follows the value through the queue, the hands of the worker     *)
(* and the ledger entry that an escalation writes from.                       *)
(***************************************************************************)
QueueHoldsLatest == pending # NoValue => pending = latest

HandHoldsLatest  == pending = NoValue /\ item # NoValue => item = latest

HandIsWorkers ==
  /\ item # NoValue <=> wpc \in {"write", "written", "verified", "busy", "refused", "rescue"}
  /\ wpc \in {"written", "verified", "busy", "refused"} => issued = item

EntryHoldsLatest ==
  /\ entry.state # "none" => entry.value # NoValue
  /\ entry.escalation # "no" => kind = "escalates" /\ entry.value # NoValue
  /\ kind = "escalates" /\ entry.value # NoValue => entry.value = latest

ValueInv ==
  QueueHoldsLatest /\ HandHoldsLatest /\ HandIsWorkers /\ EntryHoldsLatest
  /\ LastRequestedWins

\* Nothing was asked for and nothing was written.
LEMMA ValueInvInit == Init => ValueInv
BY DEF Init, ValueInv, QueueHoldsLatest, HandHoldsLatest, HandIsWorkers,
       EntryHoldsLatest, LastRequestedWins, NoEntry

\* Every step moves the last value along: from the queue to the hand, to the
\* camera, and back to the queue when the camera is busy.
LEMMA ValueInvStep == TypeOK /\ ValueInv /\ [Next]_vars => ValueInv'
<1> SUFFICES ASSUME TypeOK, ValueInv, [Next]_vars PROVE ValueInv'
  OBVIOUS
<1> USE ConfigAssumption
    DEF ValueInv, QueueHoldsLatest, HandHoldsLatest, HandIsWorkers, EntryHoldsLatest,
        LastRequestedWins, Goto
<1>a. EntryType
  BY TypeParts
<1>1. ASSUME NEW v \in Values, SetConfigValue(v) PROVE ValueInv'
  BY <1>1 DEF SetConfigValue, svars, cvars, wvars
<1>2. ASSUME NEW v \in Values, PlanValue(v) PROVE ValueInv'
  BY <1>2 DEF PlanValue, svars, cvars, wvars
<1>3. CASE RequestRefresh \/ SetDetectionMode
  BY <1>3 DEF RequestRefresh, SetDetectionMode, avars, svars, cvars, wvars
<1>4. CASE BodySettles \/ PatienceExpires \/ PaceExpires
  BY <1>4 DEF BodySettles, PatienceExpires, PaceExpires, avars, svars, cvars, wvars
<1>5. CASE OpenWindow \/ Read
  BY <1>5 DEF OpenWindow, Read, avars, svars, cvars, wvars, TypeOK
<1>6. CASE PublishCache
  <2>1. kind' = kind /\ latest' = latest
    BY <1>6 DEF PublishCache, avars
  <2>2. Settle(seen)
    BY <1>6 DEF PublishCache
  <2>3. \/ entry' \in {entry, NoEntry}
        \/ /\ entry.value # NoValue
           /\ entry'.value = entry.value
           /\ \/ entry'.escalation = entry.escalation
              \/ kind = "escalates" /\ entry'.escalation = "asked"
    BY <1>a, <2>2, SettledEntry
  <2>4. EntryHoldsLatest'
    BY <2>1, <2>3 DEF NoEntry
  <2> QED
    BY <1>6, <2>4 DEF PublishCache, avars, TypeOK
<1>7. CASE TakePending \/ NothingDue
  BY <1>7 DEF TakePending, NothingDue, avars, svars, cvars, wvars
<1>8. CASE WriteAccepted \/ WriteVerified \/ WriteFails
  BY <1>8 DEF WriteAccepted, WriteVerified, WriteFails, Attempt, svars, cvars, wvars
<1>9. CASE Accept("written", FALSE) \/ Accept("verified", TRUE)
  BY <1>9, <1>a DEF EntryType, Accept, Confirmed, avars, cvars
<1>10. CASE Requeue \/ GiveUp
  BY <1>10 DEF Requeue, GiveUp, avars, cvars
<1>11. CASE TakeEscalation \/ NothingToEscalate \/ Rescue
  BY <1>11, <1>a DEF EntryType, TakeEscalation, NothingToEscalate, Rescue, avars, svars, cvars, wvars
<1>12. CASE PeriodicRead \/ PeriodicAge \/ PeriodicSkip
  BY <1>12 DEF PeriodicRead, PeriodicAge, PeriodicSkip, avars, svars, cvars, wvars
<1>13. CASE UNCHANGED vars
  BY <1>13 DEF vars, avars, svars, cvars, wvars
<1> QED
  BY <1>1, <1>2, <1>3, <1>4, <1>5, <1>6, <1>7, <1>8, <1>9, <1>10, <1>11, <1>12, <1>13
  DEF Next, Worker, Hosts, Nature

\* However writes are retried, escalated, lost or refused, the camera was last
\* given what was last asked for (config_ledger.py:26-84, 170-191).
THEOREM LastValueWins == Spec => []LastRequestedWins
<1>1. Spec => [](TypeOK /\ ValueInv)
  BY TypeInit, TypeStep, ValueInvInit, ValueInvStep, PTL DEF Spec
<1> QED
  BY <1>1, PTL DEF ValueInv

\* The setting, its ledger entry and the worker's hand hold what they are
\* declared for, and the retries of a busy camera stay within their bound
\* (config_ledger.py:61-76).
THEOREM ConfigTyped == Spec => []TypeOK
BY TypeInit, TypeStep, PTL DEF Spec

-----------------------------------------------------------------------------
(***************************************************************************)
(* RevertIsFinal speaks of the step that declares a revert.  What makes it    *)
(* final is where the patience of an unsettled entry stands while its value   *)
(* is queued, in the worker's hand, owed by an escalation, or lagging in the  *)
(* body.  A planned widget (set_capture_mode) has writes with no entry of     *)
(* their own, so it is left out, as in the property; so is an entry whose patience  *)
(* ran out early.                                                          *)
(***************************************************************************)
Unsettled == entry.state = "pending" /\ kind # "planned" /\ ~early

\* A queued value has not been tried since it was queued: nobody took it, or a
\* busy camera sent it back and the retry restarted the patience.
QueuedIsUntried ==
  pending = entry.value => patience = "queued" \/ (patience = "running" /\ item = NoValue)

\* Before its write is tried, a value in the hand has its patience running.
HandIsUntried ==
  item = entry.value /\ wpc \in {"write", "rescue"} => patience \in {"queued", "running"}

\* An escalation that was asked for restarted the patience, of a value that is
\* nowhere else.
AskedIsAlone ==
  entry.escalation = "asked" =>
    patience = "running" /\ pending # entry.value /\ item # entry.value /\ lazy # entry.value

\* When the patience is over, the value is not queued, nor still to be applied.
OverIsOver == patience = "over" => pending # entry.value /\ lazy # entry.value

PatienceInv ==
  Unsettled => QueuedIsUntried /\ HandIsUntried /\ AskedIsAlone /\ OverIsOver

\* Nothing is unsettled at first.
LEMMA PatienceInvInit == Init => PatienceInv
BY DEF Init, PatienceInv, Unsettled, NoEntry

\* A settlement that leaves the entry unsettled leaves its value; it asks for an
\* escalation only when the patience is over, and restarts it.
LEMMA StillUnsettled ==
  ASSUME EntryType, NEW v, Settle(v), entry'.state = "pending"
  PROVE  /\ entry.state = "pending" /\ entry'.value = entry.value
         /\ \/ entry'.escalation = entry.escalation /\ patience' = patience
            \/ patience = "over" /\ patience' = "running"
<1>1. entry.state = "pending"
  BY DEF Settle, NoEntry, EntryType
<1>2. entry' \in {entry, Confirmed, Mismatched}
  BY <1>1 DEF Settle
<1>3. Confirmed.state = "confirmed"
  BY DEF Confirmed, EntryType
<1>4. Mismatched.value = entry.value
  BY DEF Mismatched, EntryType
<1>5. patience # "over" => entry' = entry \/ entry' = Confirmed
  BY <1>1 DEF Settle
<1>6. patience' = IF entry'.escalation # entry.escalation THEN "running" ELSE patience
  BY <1>1 DEF Settle
<1> QED
  BY <1>1, <1>2, <1>3, <1>4, <1>5, <1>6

\* Every step keeps the patience where the value is.
LEMMA PatienceInvStep ==
  ASSUME TypeOK, ValueInv, PatienceInv, [Next]_vars
  PROVE  PatienceInv'
<1> USE ConfigAssumption
    DEF PatienceInv, Unsettled, QueuedIsUntried, HandIsUntried, AskedIsAlone, OverIsOver, Goto
<1>a. EntryType
  BY TypeParts
<1>b. entry.state = "pending" => entry.value # NoValue
  BY DEF ValueInv, EntryHoldsLatest
<1>c. HandIsWorkers
  BY DEF ValueInv
<1>1. ASSUME NEW v \in Values, SetConfigValue(v) PROVE PatienceInv'
  BY <1>1 DEF SetConfigValue, svars, cvars, wvars
<1>2. ASSUME NEW v \in Values, PlanValue(v) PROVE PatienceInv'
  BY <1>2 DEF PlanValue
<1>3. CASE RequestRefresh \/ SetDetectionMode
  BY <1>3 DEF RequestRefresh, SetDetectionMode, avars, svars, cvars, wvars
<1>4. CASE BodySettles \/ PaceExpires
  BY <1>4, <1>b DEF BodySettles, PaceExpires, avars, svars, cvars, wvars
<1>5. CASE PatienceExpires
  BY <1>5, <1>b, <1>c DEF PatienceExpires, Coming, HandIsWorkers, avars, svars, cvars, wvars
<1>6. CASE OpenWindow \/ Read
  BY <1>6 DEF OpenWindow, Read, avars, svars, cvars, wvars
<1>7. CASE PublishCache
  <2> SUFFICES ASSUME Unsettled'
               PROVE  (QueuedIsUntried /\ HandIsUntried /\ AskedIsAlone /\ OverIsOver)'
    BY DEF PatienceInv
  <2>1. UNCHANGED <<kind, early, pending, item, lazy>> /\ item = NoValue
    BY <1>7, <1>c DEF PublishCache, HandIsWorkers, avars, cvars
  <2>2. /\ entry.state = "pending" /\ entry'.value = entry.value
        /\ \/ entry'.escalation = entry.escalation /\ patience' = patience
           \/ patience = "over" /\ patience' = "running"
    BY <1>7, <1>a, StillUnsettled DEF PublishCache
  <2> QED
    BY <1>b, <2>1, <2>2
<1>8. CASE TakePending \/ NothingDue
  BY <1>8, <1>b, <1>c DEF TakePending, NothingDue, HandIsWorkers, avars, svars, cvars, wvars
<1>9. CASE WriteAccepted \/ WriteVerified \/ WriteFails
  <2>1. /\ wpc = "write" /\ wpc' \in {"written", "verified", "busy", "refused"}
        /\ UNCHANGED <<kind, early, entry, pending, item>> /\ item # NoValue
        /\ patience' = IF item = entry.value /\ patience = "running" THEN "attempted" ELSE patience
        /\ lazy' \in {item, lazy, NoValue}
    BY <1>9, <1>c DEF WriteAccepted, WriteVerified, WriteFails, Attempt, BodyTakes, HandIsWorkers,
                      cvars, wvars
  <2> QED
    BY <1>b, <2>1
<1>10. CASE Accept("written", FALSE) \/ Accept("verified", TRUE)
  BY <1>10, <1>a, <1>b DEF EntryType, Accept, Confirmed, avars, cvars
<1>11. CASE Requeue \/ GiveUp
  BY <1>11, <1>b DEF Requeue, GiveUp, avars, cvars
<1>12. CASE TakeEscalation
  <2>1. /\ UNCHANGED <<kind, early, pending, patience, lazy>> /\ item' = entry.value
        /\ entry.escalation = "asked"
        /\ entry'.value = entry.value /\ entry'.state = entry.state
        /\ entry'.escalation = "done" /\ wpc' = "rescue"
    BY <1>12, <1>a DEF EntryType, TakeEscalation, avars, cvars
  <2> QED
    BY <1>b, <2>1
<1>13. CASE NothingToEscalate
  BY <1>13 DEF NothingToEscalate, avars, svars, cvars, wvars
<1>14. CASE Rescue
  <2>1. /\ wpc = "rescue" /\ wpc' = "read" /\ UNCHANGED <<kind, early, entry, pending>>
        /\ item # NoValue /\ item' = NoValue
        /\ patience' = IF item = entry.value /\ patience = "running" THEN "attempted" ELSE patience
        /\ lazy' \in {item, lazy, NoValue}
    BY <1>14, <1>c DEF Rescue, BodyTakes, HandIsWorkers, cvars
  <2> QED
    BY <1>b, <2>1
<1>15. CASE PeriodicRead \/ PeriodicAge \/ PeriodicSkip
  BY <1>15 DEF PeriodicRead, PeriodicAge, PeriodicSkip, avars, svars, cvars, wvars
<1>16. CASE UNCHANGED vars
  BY <1>16 DEF vars, avars, svars, cvars, wvars
<1> QED
  BY <1>1, <1>2, <1>3, <1>4, <1>5, <1>6, <1>7, <1>8, <1>9, <1>10, <1>11, <1>12, <1>13, <1>14,
     <1>15, <1>16 DEF Next, Worker, Hosts, Nature

\* Only a settlement declares a revert.
LEMMA RevertsAreSettlements ==
  ASSUME EntryType, [Next]_vars, entry.state = "pending", entry'.state = "reverted"
  PROVE  PublishCache
<1>1. ASSUME NEW v \in Values, SetConfigValue(v) \/ PlanValue(v) PROVE FALSE
  BY <1>1 DEF SetConfigValue, PlanValue
<1>2. CASE RequestRefresh \/ SetDetectionMode \/ Nature
  BY <1>2 DEF RequestRefresh, SetDetectionMode, Nature, BodySettles, PatienceExpires, PaceExpires
<1>3. CASE OpenWindow \/ Read \/ TakePending \/ NothingDue
  BY <1>3 DEF OpenWindow, Read, TakePending, NothingDue
<1>4. CASE WriteAccepted \/ WriteVerified \/ WriteFails
  BY <1>4 DEF WriteAccepted, WriteVerified, WriteFails, Attempt
<1>5. CASE Accept("written", FALSE) \/ Accept("verified", TRUE) \/ Requeue \/ GiveUp
  BY <1>5 DEF Accept, Confirmed, EntryType, Requeue, GiveUp
<1>6. CASE TakeEscalation \/ NothingToEscalate \/ Rescue
  BY <1>6 DEF TakeEscalation, NothingToEscalate, Rescue, EntryType
<1>7. CASE PeriodicRead \/ PeriodicAge \/ PeriodicSkip
  BY <1>7 DEF PeriodicRead, PeriodicAge, PeriodicSkip
<1>8. CASE UNCHANGED vars
  BY <1>8 DEF vars
<1> QED
  BY <1>1, <1>2, <1>3, <1>4, <1>5, <1>6, <1>7, <1>8 DEF Next, Worker, Hosts

\* When a settlement declares a revert, every escalation of the family was made,
\* and the value is nowhere on its way to the camera unless its patience ran out
\* early.
LEMMA RevertStep ==
  ASSUME TypeOK, ValueInv, PatienceInv, entry.state = "pending", kind # "planned",
         PublishCache, entry'.state = "reverted"
  PROVE  /\ ~early => ~Coming(entry.value) /\ lazy # entry.value
         /\ kind = "escalates" => entry.escalation = "done"
<1>1. EntryType /\ Settle(seen)
  BY TypeParts DEF PublishCache
<1>2. Confirmed.state = "confirmed"
  BY <1>1 DEF Confirmed, EntryType
<1>3. entry.state = "pending" /\ patience = "over" /\ entry' = Mismatched
  BY <1>1, <1>2 DEF Settle
<1>4. item = NoValue /\ entry.value # NoValue
  BY <1>3 DEF PublishCache, Goto, ValueInv, HandIsWorkers, EntryHoldsLatest
<1>5. kind = "escalates" => entry.escalation = "done"
  BY <1>1, <1>3 DEF Mismatched, MayEscalate, EntryType
<1> QED
  BY <1>3, <1>4, <1>5 DEF PatienceInv, Unsettled, OverIsOver, AskedIsAlone, Coming

\* A revert is declared only after the escalation the family offers, and only of
\* a write of which nothing is left -- not queued for a retry, not in the
\* worker's hand, not to be escalated, not lagging in the body -- unless the
\* patience of the entry ran out with the write still to be made or applied
\* (config_ledger.py:107-184).
THEOREM RevertsAreFinal == Spec => RevertIsFinal
<1>1. Spec => [](TypeOK /\ ValueInv)
  BY TypeInit, TypeStep, ValueInvInit, ValueInvStep, PTL DEF Spec
<1>2. TypeOK /\ ValueInv /\ PatienceInv /\ [Next]_vars => PatienceInv'
  BY PatienceInvStep
<1>3. Spec => []PatienceInv
  BY <1>1, <1>2, PatienceInvInit, PTL DEF Spec
<1>4. TypeOK /\ ValueInv /\ PatienceInv /\ [Next]_vars =>
        [entry.state = "pending" /\ entry'.state = "reverted" /\ kind # "planned"
           => /\ ~early => ~Coming(entry.value) /\ lazy # entry.value
              /\ kind = "escalates" => entry.escalation = "done"]_vars
  <2> SUFFICES ASSUME TypeOK, ValueInv, PatienceInv, [Next]_vars,
                      entry.state = "pending", entry'.state = "reverted", kind # "planned"
               PROVE  /\ ~early => ~Coming(entry.value) /\ lazy # entry.value
                      /\ kind = "escalates" => entry.escalation = "done"
    OBVIOUS
  <2>1. PublishCache
    BY TypeParts, RevertsAreSettlements
  <2> QED
    BY <2>1, RevertStep
<1> QED
  BY <1>1, <1>3, <1>4, PTL DEF Spec, RevertIsFinal
=============================================================================
