------------------------ MODULE Intervalometer_proofs ------------------------
(***************************************************************************)
(* What the runs of Intervalometer check on two hosts and two sequences,     *)
(* proved for any number of them, any frame counts and any failure limit.    *)
(* Who owns the trigger, what stays of an ended sequence and when Auto-Fire  *)
(* is off need no assumption.  That every ledger adds up and that Auto-Fire  *)
(* is given back need _adapter to stay in place (~AdapterMayVanish); TLC     *)
(* finds counterexamples without.                                            *)
(***************************************************************************)
EXTENDS Intervalometer, TLAPS

-----------------------------------------------------------------------------
(***************************************************************************)
(* The ledger of one sequence: every operation keeps it a ledger, and keeps  *)
(* it sound.                                                                 *)
(***************************************************************************)

\* Each operation of sequences.py returns a well-formed ledger.
LEMMA OperationsType ==
  ASSUME NEW q \in Sequences
  PROVE  /\ Polled(q) \in Sequences
         /\ RecordFired(q) \in Sequences
         /\ RecordMissed(q) \in Sequences
         /\ RecordFailed(q) \in Sequences
         /\ Stopped(q) \in Sequences
         /\ Aborted(q) \in Sequences
<1>0. ASSUME NEW r \in Sequences
      PROVE  MaybeComplete(r) \in Sequences
  BY DEF Sequences, States, MaybeComplete
<1>01. /\ Account(q, 1, 0, 0) \in Sequences
       /\ Account(q, 0, 1, 0) \in Sequences
       /\ Account(q, 0, 0, 1) \in Sequences
  BY DEF Account, Sequences, States
<1>1. Polled(q) \in Sequences
  BY DEF Sequences, States, Polled
<1>2. RecordFired(q) \in Sequences
  BY <1>0, <1>01 DEF RecordFired
<1>3. RecordMissed(q) \in Sequences
  BY <1>0, <1>01 DEF RecordMissed
<1>4. RecordFailed(q) \in Sequences
  <2>1. Account(q, 0, 1, 0) \in Sequences
    BY <1>01
  <2>2. [Account(q, 0, 1, 0) EXCEPT !.state = "aborted"] \in Sequences
    BY <2>1 DEF Sequences, States
  <2>3. QED
    BY <1>0, <2>1, <2>2 DEF RecordFailed
<1>5. Stopped(q) \in Sequences
  BY DEF Sequences, States, Stopped
<1>6. Aborted(q) \in Sequences
  BY DEF Sequences, States, Aborted
<1>7. QED
  BY <1>1, <1>2, <1>3, <1>4, <1>5, <1>6

\* A new sequence is a sound ledger with every slot ahead of it.
LEMMA NewSequenceSound ==
  ASSUME NEW n \in Nat
  PROVE  /\ NewSequence(n) \in Sequences
         /\ LedgerSound(NewSequence(n))
         /\ IsActive(NewSequence(n))
         /\ NewSequence(n).next = 0
BY MaxFailuresAssumption
   DEF NewSequence, Sequences, States, LedgerSound, IsActive, Exhausted, IsInfinite

\* Recording a slot, whatever its result, keeps the ledger sound and accounts
\* for exactly that slot (sequences.py:147-184, 197-200).
LEMMA RecordingSound ==
  ASSUME NEW q \in Sequences, LedgerSound(q), IsActive(q)
  PROVE  /\ LedgerSound(RecordFired(q))  /\ RecordFired(q).next  = q.next + 1
         /\ LedgerSound(RecordMissed(q)) /\ RecordMissed(q).next = q.next + 1
         /\ LedgerSound(RecordFailed(q)) /\ RecordFailed(q).next = q.next + 1
<1> USE MaxFailuresAssumption
    DEF Account, Sequences, States, LedgerSound, MaybeComplete, IsActive, Exhausted, IsInfinite
<1>1. LedgerSound(RecordFired(q)) /\ RecordFired(q).next = q.next + 1
  BY DEF RecordFired
<1>2. LedgerSound(RecordMissed(q)) /\ RecordMissed(q).next = q.next + 1
  BY DEF RecordMissed
<1>3. LedgerSound(RecordFailed(q)) /\ RecordFailed(q).next = q.next + 1
  BY DEF RecordFailed
<1>4. QED
  BY <1>1, <1>2, <1>3

\* Ending a sequence keeps its ledger sound and its slots (sequences.py
\* 128-145, 186-195).
LEMMA EndingSound ==
  ASSUME NEW q \in Sequences, LedgerSound(q)
  PROVE  /\ LedgerSound(Polled(q))  /\ Polled(q)  = q
         /\ LedgerSound(Stopped(q)) /\ ~IsActive(Stopped(q)) /\ Stopped(q).next = q.next
         /\ LedgerSound(Aborted(q)) /\ ~IsActive(Aborted(q)) /\ Aborted(q).next = q.next
BY DEF Sequences, States, LedgerSound, Polled, Stopped, Aborted,
       IsActive, Exhausted, IsInfinite

-----------------------------------------------------------------------------
(***************************************************************************)
(* The types, and the start lock.                                            *)
(***************************************************************************)

\* Writing a well-formed ledger through the worker's reference is safe even
\* when the reference is None.
LEMMA WriteType ==
  ASSUME TypeOK, NEW q, wseq \in SeqIds => q \in Sequences
  PROVE  [seqs EXCEPT ![wseq] = q] \in [SeqIds -> Sequences]
BY DEF TypeOK

\* The worker's reads yield well-formed ledgers.
LEMMA WorkerReads ==
  ASSUME TypeOK, wseq \in SeqIds
  PROVE  seqs[wseq] \in Sequences
BY DEF TypeOK

\* Every step of the worker keeps the types.
LEMMA WorkerTypeStep ==
  ASSUME TypeOK, Worker
  PROVE  TypeOK'
<1>1. CASE Top
  BY <1>1 DEF TypeOK, Top, Goto, WorkerKeeps, WorkerPCs
<1>2. CASE LeaveLoop
  BY <1>2 DEF TypeOK, LeaveLoop, Goto, WorkerKeeps, WorkerPCs, wvars
<1>3. CASE StopSequence
  <2>1. seqs' \in [SeqIds -> Sequences]
    BY <1>3, WriteType, WorkerReads, OperationsType DEF StopSequence, Write
  <2>2. QED
    BY <1>3, <2>1 DEF TypeOK, StopSequence, Goto, WorkerKeeps, WorkerPCs, wvars
<1>4. CASE Poll
  <2>1. seqs' \in [SeqIds -> Sequences]
    BY <1>4, WriteType, WorkerReads, OperationsType DEF Poll, Write
  <2>2. wpc' \in WorkerPCs
    <3>1. PICK v \in Verdict(seqs[wseq]) :
            wpc' \in CASE v = "fire" -> {"fire"}
                       [] v = "skip" -> {"skip"}
                       [] v = "done" -> {"finish"}
                       [] v = "wait" -> {"top", "config"}
      BY <1>4 DEF Poll
    <3>2. v \in {"wait", "fire", "skip", "done"}
      BY <3>1 DEF Verdict, Verdicts
    <3>3. QED
      BY <3>1, <3>2 DEF WorkerPCs
  <2>3. QED
    BY <1>4, <2>1, <2>2 DEF TypeOK, Poll, WorkerKeeps, wvars
<1>5. CASE FireShot
  BY <1>5 DEF TypeOK, FireShot, Goto, WorkerKeeps, WorkerPCs, wvars
<1>6. CASE ShotFired \/ ShotFailed \/ SlotMissed \/ ShotFailedToo
  <2>1. seqs' \in [SeqIds -> Sequences]
    BY <1>6, WriteType, WorkerReads, OperationsType
       DEF ShotFired, ShotFailed, SlotMissed, ShotFailedToo, Record, Write
  <2>2. QED
    BY <1>6, <2>1 DEF TypeOK, ShotFired, ShotFailed, SlotMissed, ShotFailedToo,
                      Record, Goto, WorkerKeeps, WorkerPCs, wvars
<1>7. CASE \/ Report("report") \/ Report("diagnose")
           \/ ApplyTiming \/ TimingFails \/ DiagnosisFails
  BY <1>7 DEF TypeOK, Report, ApplyTiming, TimingFails, DiagnosisFails, Goto,
              WorkerKeeps, WorkerPCs, wvars
<1>8. CASE \/ FinishSequence("finish", "top")
           \/ FinishSequence("finish_lost", "exit")
           \/ FinishSequence("finish_exit", "final")
  BY <1>8 DEF TypeOK, FinishSequence, Goto, WorkerKeeps, WorkerPCs, DetectionModes
<1>9. CASE ServiceConfig \/ SkipConfig
  BY <1>9 DEF TypeOK, ServiceConfig, SkipConfig, Goto, WorkerKeeps, WorkerPCs, wvars
<1>10. CASE ArbitrateTrigger
  BY <1>10 DEF TypeOK, ArbitrateTrigger, Goto, WorkerKeeps, WorkerPCs
<1>11. CASE FireTrigger("manual", "frame") \/ FireTrigger("auto", "top")
  BY <1>11 DEF TypeOK, FireTrigger, Goto, WorkerKeeps, WorkerPCs
<1>12. CASE NoDetection \/ SeeEvent \/ Detect \/ LoseCamera \/ NothingLost \/ Die
  BY <1>12 DEF TypeOK, NoDetection, SeeEvent, Detect, LoseCamera, NothingLost,
               Die, Goto, WorkerKeeps, WorkerPCs, wvars
<1>13. CASE AbortLost
  <2>1. seqs' \in [SeqIds -> Sequences]
    BY <1>13, WriteType, WorkerReads, OperationsType DEF AbortLost, Write
  <2>2. QED
    BY <1>13, <2>1 DEF TypeOK, AbortLost, Goto, WorkerKeeps, WorkerPCs, wvars
<1>14. CASE Exit
  BY <1>14 DEF TypeOK, Exit, Goto, WorkerKeeps, WorkerPCs
<1>15. CASE AbortLeft
  <2>1. seqs' \in [SeqIds -> Sequences]
    <3>1. CASE Active
      <4>1. cur \in SeqIds /\ seqs[cur] \in Sequences
        BY <3>1, IntervalometerAssumption DEF TypeOK, Active, SeqIds, None
      <4>2. QED
        BY <1>15, <3>1, <4>1, OperationsType DEF AbortLeft, TypeOK
    <3>2. CASE ~Active
      BY <1>15, <3>2 DEF AbortLeft, TypeOK
    <3>3. QED
      BY <3>1, <3>2
  <2>2. QED
    BY <1>15, <2>1 DEF TypeOK, AbortLeft, Goto, WorkerKeeps, WorkerPCs
<1>16. QED
  BY <1>1, <1>2, <1>3, <1>4, <1>5, <1>6, <1>7, <1>8, <1>9, <1>10, <1>11,
     <1>12, <1>13, <1>14, <1>15 DEF Worker

\* Every step of a host keeps the types.
LEMMA HostTypeStep ==
  ASSUME TypeOK, StartExclusive, NEW h \in Hosts, Host(h)
  PROVE  TypeOK'
<1>1. CASE RequestTrigger(h) \/ FlagTrigger(h) \/ StopIntervalSequence(h)
  BY <1>1 DEF TypeOK, RequestTrigger, FlagTrigger, StopIntervalSequence,
              HostGoto, HostKeeps, HostPCs
<1>2. ASSUME NEW m \in DetectionModes, SetDetectionMode(h, m)
      PROVE  TypeOK'
  BY <1>2 DEF TypeOK, SetDetectionMode, HostKeeps
<1>3. ASSUME NEW m \in CaptureModes, CheckCaptureMode(h, m)
      PROVE  TypeOK'
  BY <1>3 DEF TypeOK, CheckCaptureMode, HostGoto, HostKeeps, HostPCs
<1>4. CASE ApplyCaptureMode(h)
  BY <1>4 DEF TypeOK, ApplyCaptureMode, HostGoto, HostKeeps, HostPCs
<1>5. CASE BeginStart(h) \/ CheckNotRunning(h) \/ ValidateStart(h)
  BY <1>5 DEF TypeOK, BeginStart, CheckNotRunning, ValidateStart,
              HostGoto, HostKeeps, HostPCs, StartPCs
<1>6. CASE AskRefresh(h) \/ AwaitRefresh(h)
  <2>1. hasty' \in BOOLEAN
    <3>1. hasty' = TRUE \/ hasty' = FALSE
      BY <1>6, SMT DEF AskRefresh, AwaitRefresh
    <3>2. QED
      BY <3>1, Zenon
  <2>2. request' \in BOOLEAN
    <3>1. CASE AskRefresh(h)
      BY <3>1, Zenon DEF AskRefresh
    <3>2. CASE AwaitRefresh(h)
      BY <3>2 DEF TypeOK, AwaitRefresh
    <3>3. QED
      BY <1>6, <3>1, <3>2
  <2>3. QED
    BY <1>6, <2>1, <2>2 DEF TypeOK, AskRefresh, AwaitRefresh, Connected,
                HostGoto, HostKeeps, HostPCs, StartPCs
<1>7. CASE ArmSequence(h)
  <2>1. used + 1 \in 0..MaxSeqs
    BY <1>7, IntervalometerAssumption
       DEF TypeOK, ArmSequence, StartExclusive, HostGoto, StartPCs
  <2>2. seqs' \in [SeqIds -> Sequences]
    <3>1. PICK n \in Counts : seqs' = [seqs EXCEPT ![used + 1] = NewSequence(n)]
      BY <1>7 DEF ArmSequence
    <3>2. NewSequence(n) \in Sequences
      BY NewSequenceSound, IntervalometerAssumption
    <3>3. QED
      BY <3>1, <3>2 DEF TypeOK
  <2>3. QED
    <3>1. cur' \in 0..used' /\ wseq' \in 0..used'
      BY <1>7, IntervalometerAssumption DEF TypeOK, ArmSequence, HostKeeps
    <3>2. QED
      BY <1>7, <2>1, <2>2, <3>1
         DEF TypeOK, ArmSequence, SavedMode, HostGoto, HostKeeps, HostPCs, DetectionModes
<1>8. QED
  BY <1>1, <1>2, <1>3, <1>4, <1>5, <1>6, <1>7 DEF Host, StartStep

\* No step lets a second host into the start section.
LEMMA StartExclusiveStep ==
  ASSUME TypeOK, StartExclusive, [Next]_vars
  PROVE  StartExclusive'
<1>1. CASE Worker
  BY <1>1 DEF Worker, WorkerKeeps, StartExclusive, Top, LeaveLoop, StopSequence,
     Poll, FireShot, ShotFired, ShotFailed, SlotMissed, Record, Report,
     ApplyTiming, TimingFails, ShotFailedToo, DiagnosisFails,
     FinishSequence, ServiceConfig, SkipConfig, ArbitrateTrigger, FireTrigger,
     NoDetection, SeeEvent, Detect, LoseCamera, AbortLost, NothingLost, Exit,
     AbortLeft, Die
<1>2. ASSUME NEW h \in Hosts, Host(h)
      PROVE  StartExclusive'
  <2> USE DEF TypeOK, StartExclusive, HostGoto, HostPCs, StartPCs
  <2>1. CASE RequestTrigger(h) \/ FlagTrigger(h) \/ StopIntervalSequence(h)
    BY <2>1 DEF RequestTrigger, FlagTrigger, StopIntervalSequence
  <2>2. ASSUME NEW m \in DetectionModes, SetDetectionMode(h, m)
        PROVE  StartExclusive'
    BY <2>2 DEF SetDetectionMode
  <2>3. ASSUME NEW m \in CaptureModes, CheckCaptureMode(h, m)
        PROVE  StartExclusive'
    BY <2>3 DEF CheckCaptureMode
  <2>4. CASE ApplyCaptureMode(h)
    BY <2>4 DEF ApplyCaptureMode
  <2>5. CASE BeginStart(h)
    BY <2>5 DEF BeginStart, StartLockFree
  <2>6. CASE CheckNotRunning(h) \/ ValidateStart(h)
    BY <2>6 DEF CheckNotRunning, ValidateStart
  <2>7. CASE AskRefresh(h) \/ AwaitRefresh(h)
    BY <2>7 DEF AskRefresh, AwaitRefresh
  <2>8. CASE ArmSequence(h)
    BY <2>8 DEF ArmSequence
  <2>9. QED
    BY <1>2, <2>1, <2>2, <2>3, <2>4, <2>5, <2>6, <2>7, <2>8 DEF Host, StartStep
<1>3. CASE UNCHANGED vars
  BY <1>3 DEF vars, StartExclusive
<1>4. QED
  BY <1>1, <1>2, <1>3 DEF Next

TypeInv == TypeOK /\ StartExclusive

LEMMA TypeInvInit == Init => TypeInv
<1> SUFFICES ASSUME Init PROVE TypeInv
  OBVIOUS
<1>1. seqs \in [SeqIds -> Sequences]
  BY NewSequenceSound DEF Init
<1>2. hpc \in [Hosts -> HostPCs] /\ want \in [Hosts -> CaptureModes]
  BY DEF Init, HostPCs, CaptureModes
<1>3. used \in 0..MaxSeqs /\ cur \in 0..used /\ wseq \in 0..used
  BY IntervalometerAssumption DEF Init, None
<1>4. StartExclusive
  BY DEF Init, StartExclusive, StartPCs
<1>5. QED
  BY <1>1, <1>2, <1>3, <1>4
     DEF Init, TypeInv, TypeOK, DetectionModes, CaptureModes, WorkerPCs

LEMMA TypeInvStep == TypeInv /\ [Next]_vars => TypeInv'
<1> SUFFICES ASSUME TypeInv, [Next]_vars PROVE TypeInv'
  OBVIOUS
<1>1. TypeOK'
  <2>1. CASE Next
    BY <2>1, WorkerTypeStep, HostTypeStep DEF Next, TypeInv
  <2>2. CASE UNCHANGED vars
    BY <2>2 DEF vars, TypeOK, TypeInv
  <2>3. QED
    BY <2>1, <2>2
<1>2. QED
  BY <1>1, StartExclusiveStep DEF TypeInv

\* Every reachable state is well typed, and two start_interval_sequence calls
\* are never both between their check and their assignment.
THEOREM TypeCorrect == Spec => [](TypeOK /\ StartExclusive)
<1>1. QED
  BY TypeInvInit, TypeInvStep, PTL DEF Spec, TypeInv

-----------------------------------------------------------------------------
(***************************************************************************)
(* Who owns the trigger, with no assumption.  OneActive and NoForeignFire    *)
(* are not inductive: the worker records a slot several steps after it read  *)
(* the sequence, so WorkerFollows must say that what it read is still the    *)
(* active sequence, and SecondAccount that a shot accounted for twice cannot *)
(* wake a finished sequence up.                                              *)
(***************************************************************************)
ActiveOpen == \A s \in Armed : IsActive(seqs[s]) => ~Exhausted(seqs[s])

\* After a fired shot its sequence goes on, or its last slot is used up.
SecondAccount ==
  wpc \in {"timing", "fail_again"} =>
    wseq \in Armed /\ (IsActive(seqs[wseq]) \/ Exhausted(seqs[wseq]))

OwnInv == OneActive /\ ActiveOpen /\ WorkerFollows /\ NoForeignFire /\ SecondAccount

LEMMA OwnInvInit == Init => OwnInv
BY DEF Init, OwnInv, OneActive, ActiveOpen, WorkerFollows, NoForeignFire,
       SecondAccount, Armed, Active, None

\* What an operation of sequences.py leaves active has slots ahead of it, and
\* none of them wakes an exhausted sequence up.
LEMMA OperationsOpen ==
  ASSUME NEW q \in Sequences
  PROVE  /\ IsActive(RecordFired(q))  => ~Exhausted(RecordFired(q))
         /\ IsActive(RecordFired(q)) \/ Exhausted(RecordFired(q))
         /\ IsActive(RecordMissed(q)) => ~Exhausted(RecordMissed(q))
         /\ IsActive(RecordFailed(q)) => ~Exhausted(RecordFailed(q)) /\ ~Exhausted(q)
         /\ ~IsActive(Stopped(q)) /\ ~IsActive(Aborted(q))
         /\ (IsActive(q) => ~Exhausted(q)) => Polled(q) = q
<1> USE DEF Account, Sequences, States, MaybeComplete, IsActive, Exhausted, IsInfinite
<1>1. /\ IsActive(RecordFired(q))  => ~Exhausted(RecordFired(q))
      /\ IsActive(RecordFired(q)) \/ Exhausted(RecordFired(q))
  BY DEF RecordFired
<1>2. IsActive(RecordMissed(q)) => ~Exhausted(RecordMissed(q))
  BY DEF RecordMissed
<1>3. IsActive(RecordFailed(q)) => ~Exhausted(RecordFailed(q)) /\ ~Exhausted(q)
  BY MaxFailuresAssumption DEF RecordFailed
<1>4. /\ ~IsActive(Stopped(q)) /\ ~IsActive(Aborted(q))
      /\ (IsActive(q) => ~Exhausted(q)) => Polled(q) = q
  BY DEF Stopped, Aborted, Polled
<1>5. QED
  BY <1>1, <1>2, <1>3, <1>4

\* The current sequence, when there is one, is a well-formed armed ledger.
LEMMA CurrentTyped ==
  ASSUME TypeOK, Active
  PROVE  cur \in Armed /\ cur \in SeqIds /\ seqs[cur] \in Sequences
BY IntervalometerAssumption DEF TypeOK, Active, Armed, SeqIds, None

\* An armed ledger is a well-formed one.
LEMMA ArmedTyped ==
  ASSUME TypeOK, NEW s \in Armed
  PROVE  s \in SeqIds /\ seqs[s] \in Sequences
BY IntervalometerAssumption DEF TypeOK, Armed, SeqIds

\* A step that changes neither the ledgers nor the reference to the current one.
LEMMA LedgersUnchanged ==
  ASSUME OwnInv, UNCHANGED <<seqs, used, cur>>
  PROVE  OneActive' /\ ActiveOpen' /\ Active' = Active
BY DEF OwnInv, OneActive, ActiveOpen, Armed, Active

\* Steps of the worker that write no ledger.
QuietWorker ==
  \/ Top \/ LeaveLoop \/ FireShot \/ ApplyTiming \/ TimingFails
  \/ DiagnosisFails \/ Report("report") \/ Report("diagnose")
  \/ FinishSequence("finish", "top")
  \/ FinishSequence("finish_lost", "exit")
  \/ FinishSequence("finish_exit", "final")
  \/ ServiceConfig \/ SkipConfig
  \/ ArbitrateTrigger \/ FireTrigger("manual", "frame")
  \/ NoDetection \/ SeeEvent \/ Detect \/ FireTrigger("auto", "top")
  \/ LoseCamera \/ NothingLost \/ Exit \/ Die

LEMMA QuietWorkerStep ==
  ASSUME TypeOK, OwnInv, QuietWorker
  PROVE  OwnInv'
<1> USE DEF QuietWorker
<1>1. UNCHANGED <<seqs, used, cur>>
  BY DEF Top, LeaveLoop, FireShot, ApplyTiming, TimingFails, DiagnosisFails, Report, FinishSequence, ServiceConfig,
         SkipConfig, ArbitrateTrigger, FireTrigger, NoDetection, SeeEvent,
         Detect, LoseCamera, NothingLost, Exit, Die, WorkerKeeps
<1>2. OneActive' /\ ActiveOpen' /\ Active' = Active
  BY <1>1, LedgersUnchanged
<1>3. WorkerFollows'
  BY <1>1, <1>2
     DEF OwnInv, WorkerFollows, SecondAccount, WorkerSees, Goto, wvars, Active, Armed, None,
         Top, LeaveLoop, FireShot, ApplyTiming, TimingFails, DiagnosisFails, Report,
         FinishSequence, ServiceConfig, SkipConfig, ArbitrateTrigger, FireTrigger,
         NoDetection, SeeEvent, Detect, LoseCamera, NothingLost, Exit, Die
<1>4. NoForeignFire' /\ SecondAccount'
  BY <1>1, <1>2
     DEF OwnInv, NoForeignFire, SecondAccount, Armed, Goto, wvars, Top, LeaveLoop, FireShot,
         ApplyTiming, TimingFails, DiagnosisFails, Report, FinishSequence,
         ServiceConfig, SkipConfig, ArbitrateTrigger, FireTrigger, NoDetection,
         SeeEvent, Detect, LoseCamera, NothingLost, Exit, Die
<1>5. QED
  BY <1>2, <1>3, <1>4 DEF OwnInv

\* A write over a ledger that wakes none up and leaves it open if active.
LEMMA WriteOpen ==
  ASSUME TypeOK, OwnInv, NEW s \in Armed, NEW q,
         seqs' = [seqs EXCEPT ![s] = q],
         IsActive(q) => IsActive(seqs[s]) /\ ~Exhausted(q), UNCHANGED <<used, cur>>
  PROVE  OneActive' /\ ActiveOpen'
<1>1. \A t \in Armed : seqs'[t] = IF t = s THEN q ELSE seqs[t]
  BY ArmedTyped DEF TypeOK
<1>2. QED
  BY <1>1 DEF OwnInv, OneActive, ActiveOpen, Armed

\* Steps of the worker that write a ledger.
LEMMA WritingWorkerStep ==
  ASSUME TypeOK, OwnInv,
         \/ StopSequence \/ Poll \/ ShotFired \/ ShotFailed \/ SlotMissed
         \/ ShotFailedToo \/ AbortLost \/ AbortLeft
  PROVE  OwnInv'
<1>1. CASE StopSequence \/ Poll \/ ShotFired \/ ShotFailed \/ SlotMissed
  <2>1. Active /\ wseq = cur
    BY <1>1 DEF OwnInv, WorkerFollows, StopSequence, Poll, ShotFired, ShotFailed,
                SlotMissed, Record, Goto
  <2>2. /\ wseq \in Armed /\ wseq \in SeqIds /\ seqs[wseq] \in Sequences
        /\ IsActive(seqs[wseq]) /\ ~Exhausted(seqs[wseq])
    BY <2>1, CurrentTyped DEF OwnInv, ActiveOpen, Active
  <2>3. UNCHANGED <<used, cur, wseq>>
    BY <1>1 DEF StopSequence, Poll, ShotFired, ShotFailed, SlotMissed, Record,
                WorkerKeeps, wvars
  <2>4. PICK q : Write(q) /\ (IsActive(q) => ~Exhausted(q))
                 /\ (ShotFired => IsActive(q) \/ Exhausted(q))
    <3>1. CASE Poll \/ StopSequence
      BY <2>2, <3>1, OperationsOpen
         DEF StopSequence, Poll, ShotFired, Record, Goto
    <3>2. CASE ShotFired \/ ShotFailed \/ SlotMissed
      BY <2>2, <3>2, OperationsOpen DEF ShotFired, ShotFailed, SlotMissed, Record, Goto
    <3>3. QED
      BY <1>1, <3>1, <3>2
  <2>5. OneActive' /\ ActiveOpen'
    BY <2>2, <2>3, <2>4, WriteOpen DEF Write
  <2>6. NoForeignFire'
    BY <1>1 DEF NoForeignFire, StopSequence, Poll, Verdict, Verdicts, ShotFired,
                ShotFailed, SlotMissed, Record, Goto
  <2>7. WorkerFollows'
    <3>1. CASE Poll
      <4>1. UNCHANGED seqs
        BY <2>2, <3>1, OperationsOpen DEF Poll, Write, TypeOK
      <4>2. QED
        BY <2>1, <2>2, <2>3, <3>1, <4>1 DEF WorkerFollows, Active, Poll, Verdict, Verdicts
    <3>2. CASE StopSequence \/ ShotFired \/ ShotFailed \/ SlotMissed
      BY <2>1, <2>3, <3>2 DEF WorkerFollows, Active, StopSequence, ShotFired,
         ShotFailed, SlotMissed, Record, Goto
    <3>3. QED
      BY <1>1, <3>1, <3>2
  <2>8. SecondAccount'
    <3>1. CASE ShotFired
      <4>1. IsActive(seqs'[wseq]) \/ Exhausted(seqs'[wseq])
        BY <2>2, <2>4, <3>1 DEF Write, TypeOK
      <4>2. QED
        BY <2>2, <2>3, <4>1 DEF SecondAccount, Armed
    <3>2. CASE ~ShotFired
      BY <1>1, <3>2 DEF SecondAccount, StopSequence, Poll, Verdict, Verdicts, ShotFailed,
                        SlotMissed, Record, Goto
    <3>3. QED
      BY <3>1, <3>2
  <2>9. QED
    BY <2>5, <2>6, <2>7, <2>8 DEF OwnInv
<1>2. CASE ShotFailedToo
  <2>1. /\ wseq \in Armed /\ seqs[wseq] \in Sequences
        /\ IsActive(seqs[wseq]) \/ Exhausted(seqs[wseq])
    BY <1>2, ArmedTyped DEF OwnInv, SecondAccount, ShotFailedToo, Record, Goto
  <2>2. IsActive(RecordFailed(seqs[wseq])) =>
          IsActive(seqs[wseq]) /\ ~Exhausted(RecordFailed(seqs[wseq]))
    BY <2>1, OperationsOpen
  <2>3. OneActive' /\ ActiveOpen'
    BY <1>2, <2>1, <2>2, WriteOpen DEF ShotFailedToo, Record, Write, WorkerKeeps
  <2>4. QED
    BY <1>2, <2>3 DEF OwnInv, ShotFailedToo, Record, Goto, WorkerFollows,
                      NoForeignFire, SecondAccount
<1>3. CASE AbortLost
  <2>1. wseq \in Armed /\ seqs[wseq] \in Sequences
    BY <1>3, IntervalometerAssumption
       DEF TypeOK, AbortLost, WorkerSees, Armed, SeqIds, None
  <2>2. OneActive' /\ ActiveOpen'
    BY <1>3, <2>1, OperationsOpen, WriteOpen DEF AbortLost, Write, WorkerKeeps
  <2>3. QED
    BY <1>3, <2>2 DEF OwnInv, AbortLost, Goto, WorkerFollows, NoForeignFire,
                      SecondAccount, WorkerSees, wvars
<1>4. CASE AbortLeft
  <2>1. CASE Active
    <3>1. cur \in Armed /\ seqs[cur] \in Sequences
      BY <2>1, CurrentTyped
    <3>2. seqs' = [seqs EXCEPT ![cur] = Aborted(seqs[cur])]
      BY <1>4, <2>1 DEF AbortLeft
    <3>3. OneActive' /\ ActiveOpen'
      BY <1>4, <3>1, <3>2, OperationsOpen, WriteOpen DEF AbortLeft, WorkerKeeps
    <3>4. QED
      BY <1>4, <2>1, <3>3 DEF OwnInv, AbortLeft, Goto, WorkerFollows,
                              NoForeignFire, SecondAccount, Active
  <2>2. CASE ~Active
    <3>1. OneActive' /\ ActiveOpen' /\ Active' = Active
      BY <1>4, <2>2, LedgersUnchanged DEF AbortLeft, WorkerKeeps
    <3>2. QED
      BY <1>4, <2>2, <3>1 DEF OwnInv, AbortLeft, Goto, WorkerFollows, NoForeignFire,
                              SecondAccount
  <2>3. QED
    BY <2>1, <2>2
<1>5. QED
  BY <1>1, <1>2, <1>3, <1>4

\* What a host does to the ledgers, if it does anything: it adds one.
LEMMA HostArms ==
  ASSUME TypeInv, NEW h \in Hosts, Host(h)
  PROVE  /\ UNCHANGED <<wpc, wseq>>
         /\ \/ UNCHANGED <<seqs, used, cur>>
            \/ /\ ArmSequence(h) /\ ~Active
               /\ used' = used + 1 /\ cur' = used + 1
               /\ \A s \in Armed : seqs'[s] = seqs[s]
               /\ Armed' = Armed \cup {used + 1} /\ used + 1 \notin Armed
               /\ \E n \in Nat : seqs'[used + 1] = NewSequence(n)
<1> USE DEF TypeInv
<1>1. CASE ~ArmSequence(h)
  BY <1>1 DEF Host, StartStep, RequestTrigger, FlagTrigger, StopIntervalSequence,
     SetDetectionMode, CheckCaptureMode, ApplyCaptureMode, BeginStart,
     CheckNotRunning, AskRefresh, AwaitRefresh, ValidateStart, HostKeeps
<1>2. CASE ArmSequence(h)
  <2>1. /\ ~Active
        /\ used' = used + 1 /\ cur' = used + 1
        /\ UNCHANGED <<wpc, wseq>>
    BY <1>2 DEF ArmSequence, NoneRunning, HostKeeps
  <2>2. PICK n \in Counts : seqs' = [seqs EXCEPT ![used + 1] = NewSequence(n)]
    BY <1>2 DEF ArmSequence
  <2>3. n \in Nat
    BY IntervalometerAssumption
  <2>4. used \in Nat /\ used + 1 \in SeqIds
    BY <1>2, IntervalometerAssumption
       DEF TypeOK, StartExclusive, ArmSequence, HostGoto, StartPCs, SeqIds
  <2>5. /\ seqs'[used + 1] = NewSequence(n)
        /\ \A s \in Armed : seqs'[s] = seqs[s]
    BY <2>2, <2>4 DEF TypeOK, SeqIds, Armed
  <2>6. Armed' = Armed \cup {used + 1} /\ used + 1 \notin Armed
    BY <2>1, <2>4 DEF Armed
  <2>7. QED
    BY <1>2, <2>1, <2>3, <2>5, <2>6
<1>3. QED
  BY <1>1, <1>2

LEMMA HostOwnStep ==
  ASSUME TypeInv, OwnInv, NEW h \in Hosts, Host(h)
  PROVE  OwnInv'
<1>0. UNCHANGED <<wpc, wseq>>
  BY HostArms
<1>1. CASE UNCHANGED <<seqs, used, cur>>
  <2>1. OneActive' /\ ActiveOpen' /\ Active' = Active
    BY <1>1, LedgersUnchanged
  <2>2. QED
    BY <1>0, <1>1, <2>1 DEF OwnInv, WorkerFollows, NoForeignFire, SecondAccount, Armed
<1>2. CASE ~UNCHANGED <<seqs, used, cur>>
  <2>1. /\ ~Active /\ cur' = used + 1
        /\ \A s \in Armed : seqs'[s] = seqs[s]
        /\ Armed' = Armed \cup {used + 1} /\ used + 1 \notin Armed
    BY <1>2, HostArms
  <2>2. PICK n \in Nat : seqs'[used + 1] = NewSequence(n)
    BY <1>2, HostArms
  <2>3. /\ NewSequence(n).next = 0
        /\ ~Exhausted(NewSequence(n))
    BY <2>2 DEF NewSequence, Exhausted, IsInfinite
  <2>4. \A s \in Armed : ~IsActive(seqs[s])
    BY <2>1, IntervalometerAssumption DEF OwnInv, OneActive, Active, Armed, None, TypeInv, TypeOK
  <2>5. OneActive' /\ ActiveOpen'
    BY <2>1, <2>2, <2>3, <2>4 DEF OneActive, ActiveOpen
  <2>6. NoForeignFire'
    BY <2>1, <2>2, <2>3 DEF NoForeignFire
  <2>7. WorkerFollows' /\ SecondAccount'
    BY <1>0, <2>1 DEF OwnInv, WorkerFollows, SecondAccount
  <2>8. QED
    BY <2>5, <2>6, <2>7 DEF OwnInv
<1>3. QED
  BY <1>1, <1>2

LEMMA OwnInvStep == TypeInv /\ OwnInv /\ [Next]_vars => OwnInv'
<1> SUFFICES ASSUME TypeInv, OwnInv, [Next]_vars PROVE OwnInv'
  OBVIOUS
<1>1. CASE Worker
  BY <1>1, QuietWorkerStep, WritingWorkerStep DEF Worker, QuietWorker, TypeInv
<1>2. CASE \E h \in Hosts : Host(h)
  BY <1>2, HostOwnStep
<1>3. CASE UNCHANGED vars
  BY <1>3 DEF vars, OwnInv, OneActive, ActiveOpen, WorkerFollows, NoForeignFire,
              SecondAccount, Armed, Active
<1>4. QED
  BY <1>1, <1>2, <1>3 DEF Next

LEMMA Owned == Spec => [](TypeInv /\ OwnInv)
BY TypeInvInit, TypeInvStep, OwnInvInit, OwnInvStep, PTL DEF Spec

\* Two starts never leave two sequences active, and no failure in the middle of
\* a shot wakes a finished one up (camera_manager.py:390-473, capture_ops.py 39-69).
THEOREM OneSequenceActive == Spec => []OneActive
BY Owned, PTL DEF OwnInv

\* No manual trigger and no auto-fire between two frames of a sequence, even
\* when refreshes time out, the worker dies or its adapter vanishes (worker.py
\* 211-219).
THEOREM SequencesOwnTheTrigger == Spec => []NoForeignFire
BY Owned, PTL DEF OwnInv

\* Recording accounts for one slot, ending for none.
LEMMA OperationsCount ==
  ASSUME NEW q \in Sequences
  PROVE  /\ RecordFired(q).next = q.next + 1
         /\ RecordMissed(q).next = q.next + 1
         /\ RecordFailed(q).next = q.next + 1
         /\ Stopped(q).next = q.next /\ Aborted(q).next = q.next
<1> USE DEF Account, Sequences, States, MaybeComplete
<1>1. RecordFired(q).next = q.next + 1 /\ RecordMissed(q).next = q.next + 1
  BY DEF RecordFired, RecordMissed
<1>2. RecordFailed(q).next = q.next + 1
  BY DEF RecordFailed
<1>3. Stopped(q).next = q.next /\ Aborted(q).next = q.next
  BY DEF Stopped, Aborted
<1>4. QED
  BY <1>1, <1>2, <1>3

\* One step of the ledgers: a finished sequence keeps its record, but for a shot
\* accounted for twice, and an unfinished one accounts for at most one slot.
Kept(s) ==
  /\ ~IsActive(seqs[s]) => ~IsActive(seqs'[s])
  /\ ~IsActive(seqs[s]) /\ wpc # "fail_again" => seqs'[s] = seqs[s]
  /\ seqs'[s].next - seqs[s].next \in {0, 1}

LEMMA TerminalStep ==
  ASSUME TypeInv, OwnInv, [Next]_vars, NEW s \in Armed
  PROVE  Kept(s)
<1>0. s \in SeqIds /\ seqs[s] \in Sequences /\ seqs[s].next \in Int
  BY IntervalometerAssumption DEF TypeInv, TypeOK, Armed, SeqIds, Sequences
<1>1. ASSUME seqs'[s] = seqs[s] PROVE Kept(s)
  BY <1>0, <1>1 DEF Kept
<1>2. CASE StopSequence \/ Poll \/ ShotFired \/ ShotFailed \/ SlotMissed
  <2>1. Active /\ wseq = cur
    BY <1>2 DEF OwnInv, WorkerFollows, StopSequence, Poll, ShotFired, ShotFailed,
                SlotMissed, Record, Goto
  <2>2. IsActive(seqs[s]) => s = wseq
    BY <2>1 DEF OwnInv, OneActive
  <2>3. wseq \in Armed /\ seqs[wseq] \in Sequences /\ IsActive(seqs[wseq]) /\ ~Exhausted(seqs[wseq])
    BY <2>1, CurrentTyped DEF OwnInv, ActiveOpen, Active, TypeInv
  <2>4. PICK q : seqs' = [seqs EXCEPT ![wseq] = q] /\ q.next - seqs[wseq].next \in {0, 1}
    <3>1. seqs[wseq].next \in Int
      BY <2>3 DEF Sequences
    <3>2. CASE Poll
      <4>1. Polled(seqs[wseq]) = seqs[wseq]
        BY <2>3, OperationsOpen
      <4>2. seqs' = [seqs EXCEPT ![wseq] = Polled(seqs[wseq])]
        BY <3>2 DEF Poll, Write
      <4>3. Polled(seqs[wseq]).next - seqs[wseq].next \in {0, 1}
        BY <3>1, <4>1
      <4>4. QED
        BY <4>2, <4>3
    <3>3. CASE StopSequence
      <4>1. seqs' = [seqs EXCEPT ![wseq] = Stopped(seqs[wseq])]
        BY <3>3 DEF StopSequence, Write
      <4>2. Stopped(seqs[wseq]).next = seqs[wseq].next
        BY <2>3, OperationsCount
      <4>3. Stopped(seqs[wseq]).next - seqs[wseq].next \in {0, 1}
        BY <3>1, <4>2
      <4>4. QED
        BY <4>1, <4>3
    <3>4. CASE ShotFired \/ ShotFailed \/ SlotMissed
      BY <2>3, <3>1, <3>4, OperationsCount DEF ShotFired, ShotFailed, SlotMissed, Record, Write
    <3>5. QED
      BY <1>2, <3>2, <3>3, <3>4
  <2>5. seqs'[s] = IF s = wseq THEN q ELSE seqs[s]
    BY <1>0, <2>4 DEF TypeInv, TypeOK
  <2>6. CASE s = wseq
    BY <2>3, <2>4, <2>5, <2>6 DEF Kept
  <2>7. CASE s # wseq
    BY <1>1, <2>5, <2>7
  <2>8. QED
    BY <2>6, <2>7
<1>3. CASE ShotFailedToo
  <2>1. /\ wseq \in Armed /\ seqs[wseq] \in Sequences /\ wpc = "fail_again"
        /\ IsActive(seqs[wseq]) \/ Exhausted(seqs[wseq])
    BY <1>3, ArmedTyped DEF OwnInv, SecondAccount, ShotFailedToo, Record, Goto, TypeInv
  <2>2. seqs'[s] = IF s = wseq THEN RecordFailed(seqs[wseq]) ELSE seqs[s]
    BY <1>0, <1>3 DEF ShotFailedToo, Record, Write, TypeInv, TypeOK
  <2>3. CASE s = wseq
    <3>1. IsActive(seqs'[s]) => IsActive(seqs[s])
      BY <2>1, <2>2, <2>3, OperationsOpen
    <3>2. seqs'[s].next = seqs[s].next + 1
      BY <2>1, <2>2, <2>3, OperationsCount
    <3>3. QED
      BY <1>0, <2>1, <3>1, <3>2 DEF Kept
  <2>4. CASE s # wseq
    BY <1>1, <2>2, <2>4
  <2>5. QED
    BY <2>3, <2>4
<1>4. ASSUME NEW t \in SeqIds, seqs' = [seqs EXCEPT ![t] = Aborted(seqs[t])], IsActive(seqs[t])
      PROVE  Kept(s)
  <2>1. seqs'[s] = IF s = t THEN Aborted(seqs[t]) ELSE seqs[s]
    BY <1>0, <1>4 DEF TypeInv, TypeOK
  <2>2. CASE s = t
    <3>1. seqs'[s].next = seqs[s].next /\ IsActive(seqs[s])
      BY <1>0, <1>4, <2>1, <2>2, OperationsCount
    <3>2. QED
      BY <1>0, <3>1 DEF Kept
  <2>3. CASE s # t
    BY <1>1, <2>1, <2>3
  <2>4. QED
    BY <2>2, <2>3
<1>5. CASE AbortLost
  <2>1. /\ wseq # 0 /\ IsActive(seqs[wseq])
        /\ seqs' = [seqs EXCEPT ![wseq] = Aborted(seqs[wseq])]
    BY <1>5 DEF AbortLost, Write, WorkerSees, None
  <2>2. wseq \in SeqIds
    BY <2>1, IntervalometerAssumption DEF TypeInv, TypeOK, SeqIds
  <2>3. QED
    BY <1>4, <2>1, <2>2
<1>6. CASE AbortLeft
  <2>1. CASE Active
    BY <1>4, <1>6, <2>1, CurrentTyped DEF AbortLeft, Active, TypeInv
  <2>2. CASE ~Active
    BY <1>1, <1>6, <2>2 DEF AbortLeft
  <2>3. QED
    BY <2>1, <2>2
<1>7. ASSUME NEW h \in Hosts, Host(h) PROVE Kept(s)
  BY <1>1, <1>7, HostArms
<1>8. CASE QuietWorker
  <2>1. UNCHANGED seqs
    BY <1>8 DEF QuietWorker, Top, LeaveLoop, FireShot, Report, FinishSequence, ServiceConfig,
       SkipConfig, ArbitrateTrigger, FireTrigger, NoDetection, SeeEvent, Detect, LoseCamera,
       NothingLost, Exit, Die, ApplyTiming, TimingFails, DiagnosisFails
  <2>2. QED
    BY <1>1, <2>1
<1>9. CASE UNCHANGED vars
  BY <1>1, <1>9 DEF vars
<1>10. QED
  BY <1>2, <1>3, <1>5, <1>6, <1>7, <1>8, <1>9 DEF Next, Worker, QuietWorker

\* "Terminal states persist until the next start" (sequences.py:19), and after it: no
\* later step wakes an ended sequence up, or rewrites its ledger, but the second
\* accounting of a shot whose adapter vanished inside it (capture_ops.py:60-62).
THEOREM FinishedLedgersStay == Spec => TerminalPersists
<1>1. TypeInv /\ OwnInv /\ [Next]_vars => [\A s \in Armed : Kept(s)]_vars
  BY TerminalStep
<1>2. [\A s \in Armed : Kept(s)]_vars =>
        [\A s \in Armed :
           /\ ~IsActive(seqs[s]) => ~IsActive(seqs'[s])
           /\ ~IsActive(seqs[s]) /\ wpc # "fail_again" => seqs'[s] = seqs[s]
           /\ seqs'[s].next - seqs[s].next \in {0, 1}]_vars
  BY DEF Kept
<1>3. QED
  BY <1>1, <1>2, Owned, PTL DEF Spec, TerminalPersists

-----------------------------------------------------------------------------
(***************************************************************************)
(* The ledgers, as long as the adapter stays in place: no shot is accounted  *)
(* for twice then.                                                           *)
(***************************************************************************)
LedgerInv == LedgersSound /\ wpc # "fail_again"

LEMMA LedgerInvInit == Init => LedgerInv
BY DEF Init, LedgerInv, LedgersSound, Armed

\* A sound ledger written over an armed one.
LEMMA WriteSound ==
  ASSUME TypeOK, LedgersSound, NEW s \in Armed, NEW q,
         seqs' = [seqs EXCEPT ![s] = q], LedgerSound(q), UNCHANGED used
  PROVE  LedgersSound'
<1>1. \A t \in Armed : seqs'[t] = IF t = s THEN q ELSE seqs[t]
  BY ArmedTyped DEF TypeOK
<1>2. QED
  BY <1>1 DEF LedgersSound, Armed

LEMMA LedgerWorkerStep ==
  ASSUME ~AdapterMayVanish, TypeOK, OwnInv, LedgerInv, Worker
  PROVE  LedgerInv'
<1>0. ~ShotFailedToo
  BY DEF LedgerInv, ShotFailedToo, Record, Goto
<1>1. CASE QuietWorker
  <2>1. UNCHANGED <<seqs, used>>
    BY <1>1 DEF QuietWorker, Top, LeaveLoop, FireShot, ApplyTiming, TimingFails,
       DiagnosisFails, Report, FinishSequence, ServiceConfig, SkipConfig,
       ArbitrateTrigger, FireTrigger, NoDetection, SeeEvent, Detect, LoseCamera,
       NothingLost, Exit, Die, WorkerKeeps
  <2>2. wpc' # "fail_again"
    BY <1>1 DEF QuietWorker, Top, LeaveLoop, FireShot, ApplyTiming, TimingFails,
       DiagnosisFails, Report, FinishSequence, ServiceConfig, SkipConfig,
       ArbitrateTrigger, FireTrigger, NoDetection, SeeEvent, Detect, LoseCamera,
       NothingLost, Exit, Die, Goto
  <2>3. QED
    BY <2>1, <2>2 DEF LedgerInv, LedgersSound, Armed
<1>2. CASE StopSequence \/ Poll \/ ShotFired \/ ShotFailed \/ SlotMissed
  <2>1. Active /\ wseq = cur
    BY <1>2 DEF OwnInv, WorkerFollows, StopSequence, Poll, ShotFired, ShotFailed,
                SlotMissed, Record, Goto
  <2>2. wseq \in Armed /\ seqs[wseq] \in Sequences
        /\ LedgerSound(seqs[wseq]) /\ IsActive(seqs[wseq])
    BY <2>1, CurrentTyped DEF LedgerInv, LedgersSound, Active
  <2>3. PICK q : Write(q) /\ LedgerSound(q)
    BY <1>2, <2>2, RecordingSound, EndingSound
       DEF StopSequence, Poll, ShotFired, ShotFailed, SlotMissed, Record
  <2>4. UNCHANGED used
    BY <1>2 DEF StopSequence, Poll, ShotFired, ShotFailed, SlotMissed, Record, WorkerKeeps
  <2>5. wpc' # "fail_again"
    BY <1>2 DEF StopSequence, Poll, Verdict, Verdicts, ShotFired, ShotFailed,
                SlotMissed, Record, Goto
  <2>6. QED
    BY <2>2, <2>3, <2>4, <2>5, WriteSound DEF LedgerInv, Write
<1>3. CASE AbortLost
  <2>1. wseq \in Armed /\ seqs[wseq] \in Sequences /\ LedgerSound(seqs[wseq])
    BY <1>3, IntervalometerAssumption
       DEF TypeOK, LedgerInv, LedgersSound, AbortLost, WorkerSees, Armed, SeqIds, None
  <2>2. LedgersSound'
    BY <1>3, <2>1, EndingSound, WriteSound DEF LedgerInv, AbortLost, Write, WorkerKeeps
  <2>3. QED
    BY <1>3, <2>2 DEF LedgerInv, AbortLost, Goto
<1>4. CASE AbortLeft
  <2>1. CASE Active
    <3>1. cur \in Armed /\ seqs[cur] \in Sequences /\ LedgerSound(seqs[cur])
      BY <2>1, CurrentTyped DEF LedgerInv, LedgersSound
    <3>2. LedgersSound'
      BY <1>4, <2>1, <3>1, EndingSound, WriteSound DEF LedgerInv, AbortLeft, WorkerKeeps
    <3>3. QED
      BY <1>4, <3>2 DEF LedgerInv, AbortLeft, Goto
  <2>2. CASE ~Active
    BY <1>4, <2>2 DEF LedgerInv, LedgersSound, Armed, AbortLeft, Goto, WorkerKeeps
  <2>3. QED
    BY <2>1, <2>2
<1>5. QED
  BY <1>0, <1>1, <1>2, <1>3, <1>4 DEF Worker, QuietWorker

LEMMA LedgerInvStep ==
  ~AdapterMayVanish /\ TypeInv /\ OwnInv /\ LedgerInv /\ [Next]_vars => LedgerInv'
<1> SUFFICES ASSUME ~AdapterMayVanish, TypeInv, OwnInv, LedgerInv, [Next]_vars
             PROVE LedgerInv'
  OBVIOUS
<1>1. CASE Worker
  BY <1>1, LedgerWorkerStep DEF TypeInv
<1>2. ASSUME NEW h \in Hosts, Host(h) PROVE LedgerInv'
  <2>1. CASE UNCHANGED <<seqs, used, cur>>
    BY <1>2, <2>1, HostArms DEF LedgerInv, LedgersSound, Armed
  <2>2. CASE ~UNCHANGED <<seqs, used, cur>>
    BY <1>2, <2>2, HostArms, NewSequenceSound DEF LedgerInv, LedgersSound
  <2>3. QED
    BY <2>1, <2>2
<1>3. CASE UNCHANGED vars
  BY <1>3 DEF vars, LedgerInv, LedgersSound, Armed
<1>4. QED
  BY <1>1, <1>2, <1>3 DEF Next

LEMMA Reachable == ASSUME ~AdapterMayVanish PROVE Spec => [](TypeInv /\ OwnInv /\ LedgerInv)
BY Owned, LedgerInvInit, LedgerInvStep, PTL DEF Spec

\* Every ledger adds up, ends by itself and never overruns, for any number of
\* frames and any failure limit, under every interleaving of the worker with
\* any number of hosts (sequences.py:128-202).
THEOREM LedgersAlwaysSound == ASSUME ~AdapterMayVanish PROVE Spec => []LedgersSound
BY Reachable, PTL DEF LedgerInv

-----------------------------------------------------------------------------
(***************************************************************************)
(* Auto-Fire is off during a sequence whose start had its refresh answered:  *)
(* that start asked the worker to pass through ServiceConfig, where it is    *)
(* done with the previous sequence, so the mode saved by one sequence is     *)
(* not given back during the next.                                           *)
(***************************************************************************)
\* Where the worker is between the head of an iteration that serves a sequence
\* and the restore at the sequence's end.
Restoring == {"finish", "finish_lost", "finish_exit"}
Serving   == {"stop", "poll", "fire", "fired", "failed", "skip", "timing",
              "fail_again", "diagnose", "report"} \cup Restoring

\* A start whose refresh has been answered, whether it goes on or still waits.
Answered(h) == \/ hpc[h] \in {"snapshot", "assign"} /\ ~hasty
               \/ hpc[h] = "await" /\ h \notin waiting

\* Past the check no sequence runs, and past the answer the worker serves none.
StartsAlone ==
  \A h \in Hosts :
    /\ hpc[h] \in {"refresh", "await", "snapshot", "assign"} => ~Active
    /\ Answered(h) => wpc \notin Serving

\* The sequence the worker serves is the one that runs, if any does that was not
\* started in haste.
EndsAlone == wpc \in Serving /\ Active /\ ~hasty => wseq = cur /\ wpc \notin Restoring

DemotedInv == AutoNeverDuringSequence /\ StartsAlone /\ EndsAlone

LEMMA DemotedInit == Init => DemotedInv
BY DEF Init, DemotedInv, AutoNeverDuringSequence, StartsAlone, EndsAlone, Answered,
       Active, None, Serving, Restoring

\* What a step of the worker keeps of a start in progress.
LEMMA WorkerHosts ==
  ASSUME Worker
  PROVE  /\ UNCHANGED <<used, cur, hpc, hasty>>
         /\ waiting' = waiting \/ wpc' = "trigger"
         /\ detection' = detection
            \/ (detection' = "auto" /\ wpc \in Restoring /\ saved = "auto" /\ detection = "monitor")
<1> USE DEF WorkerKeeps, wvars, Goto
<1>1. CASE \/ Top \/ LeaveLoop \/ StopSequence \/ Poll \/ FireShot \/ ShotFired
           \/ ApplyTiming \/ ShotFailed \/ SlotMissed \/ TimingFails
           \/ ShotFailedToo \/ DiagnosisFails \/ Report("report") \/ Report("diagnose")
  BY <1>1 DEF Top, LeaveLoop, StopSequence, Poll, FireShot, ShotFired, ApplyTiming,
              ShotFailed, SlotMissed, TimingFails, ShotFailedToo, DiagnosisFails,
              Report, Record
<1>2. CASE \/ FinishSequence("finish", "top")
           \/ FinishSequence("finish_lost", "exit")
           \/ FinishSequence("finish_exit", "final")
  BY <1>2 DEF FinishSequence, Restoring
<1>3. CASE \/ ServiceConfig \/ SkipConfig \/ ArbitrateTrigger
           \/ FireTrigger("manual", "frame") \/ FireTrigger("auto", "top")
           \/ NoDetection \/ SeeEvent \/ Detect
           \/ LoseCamera \/ AbortLost \/ NothingLost \/ Exit \/ AbortLeft \/ Die
  BY <1>3 DEF ServiceConfig, SkipConfig, ArbitrateTrigger, FireTrigger, NoDetection,
              SeeEvent, Detect, LoseCamera, AbortLost, NothingLost, Exit, AbortLeft, Die
<1>4. QED
  BY <1>1, <1>2, <1>3 DEF Worker

\* The worker starts to serve a sequence only when one runs, it makes none run,
\* and it leaves a sequence that runs only for the next iteration.
LEMMA WorkerServes ==
  ASSUME TypeInv, OwnInv, Worker
  PROVE  /\ wpc' \in Serving /\ wpc \notin Serving => Active
         /\ wpc' \in Serving /\ wpc \notin Serving /\ Active' =>
              wseq' = cur /\ wpc' \notin Restoring
         /\ Active' => Active
         /\ wpc' \in Serving /\ wpc \in Serving => wseq' = wseq
         /\ wpc' \in Restoring /\ wpc \in Serving /\ Active' => wseq # cur
<1> USE DEF WorkerKeeps, wvars, Goto, Serving, Restoring, TypeInv
<1>1. CASE QuietWorker
  <2>1. Active' = Active
    BY <1>1, WorkerHosts DEF QuietWorker, Active, Top, LeaveLoop, FireShot, ApplyTiming,
       TimingFails, DiagnosisFails, Report, FinishSequence, ServiceConfig, SkipConfig,
       ArbitrateTrigger, FireTrigger, NoDetection, SeeEvent, Detect, LoseCamera,
       NothingLost, Exit, Die
  <2>2. CASE Top \/ LeaveLoop \/ FireShot \/ ApplyTiming \/ TimingFails \/ DiagnosisFails
    BY <2>1, <2>2 DEF Top, LeaveLoop, FireShot, ApplyTiming, TimingFails, DiagnosisFails
  <2>3. CASE Report("report") \/ Report("diagnose")
    BY <2>1, <2>3 DEF Report, WorkerSees, Active
  <2>4. CASE \/ FinishSequence("finish", "top")
             \/ FinishSequence("finish_lost", "exit")
             \/ FinishSequence("finish_exit", "final")
    BY <2>1, <2>4 DEF FinishSequence
  <2>5. CASE \/ ServiceConfig \/ SkipConfig \/ ArbitrateTrigger
             \/ FireTrigger("manual", "frame") \/ FireTrigger("auto", "top")
             \/ NoDetection \/ SeeEvent \/ Detect \/ LoseCamera \/ NothingLost
             \/ Exit \/ Die
    BY <2>1, <2>5 DEF ServiceConfig, SkipConfig, ArbitrateTrigger, FireTrigger,
       NoDetection, SeeEvent, Detect, LoseCamera, NothingLost, Exit, Die
  <2>6. QED
    BY <1>1, <2>2, <2>3, <2>4, <2>5 DEF QuietWorker
<1>2. CASE StopSequence \/ Poll \/ ShotFired \/ ShotFailed \/ SlotMissed
  <2>1. Active /\ wseq = cur /\ cur \in SeqIds /\ seqs[cur] \in Sequences
        /\ IsActive(seqs[cur]) /\ ~Exhausted(seqs[cur])
    BY <1>2, CurrentTyped
       DEF OwnInv, ActiveOpen, Active, WorkerFollows, StopSequence, Poll, ShotFired,
           ShotFailed, SlotMissed, Record
  <2>2. CASE StopSequence
    <3>1. ~IsActive(seqs'[cur])
      BY <2>1, <2>2, OperationsOpen DEF StopSequence, Write, TypeOK
    <3>2. QED
      BY <2>1, <2>2, <3>1 DEF StopSequence, Active
  <2>3. CASE Poll
    <3>1. wpc = "poll" /\ wpc' \in {"fire", "skip", "top", "config"}
      BY <2>1, <2>3 DEF Poll, Verdict, Verdicts
    <3>2. UNCHANGED <<cur, wseq>>
      BY <2>3 DEF Poll
    <3>3. QED
      BY <2>1, <3>1, <3>2
  <2>4. CASE ShotFired \/ ShotFailed \/ SlotMissed
    BY <2>1, <2>4 DEF ShotFired, ShotFailed, SlotMissed, Record
  <2>5. QED
    BY <1>2, <2>2, <2>3, <2>4
<1>3. CASE ShotFailedToo
  <2>1. wseq \in SeqIds /\ seqs[wseq] \in Sequences
        /\ (IsActive(seqs[wseq]) \/ Exhausted(seqs[wseq]))
    BY <1>3, ArmedTyped DEF OwnInv, SecondAccount, ShotFailedToo, Record
  <2>2. IsActive(RecordFailed(seqs[wseq])) => IsActive(seqs[wseq])
    BY <2>1, OperationsOpen
  <2>3. Active' => Active
    BY <1>3, <2>1, <2>2 DEF ShotFailedToo, Record, Write, TypeOK, Active, None, SeqIds
  <2>4. QED
    BY <1>3, <2>3 DEF ShotFailedToo, Record
<1>4. CASE AbortLost
  <2>1. wseq \in Armed /\ seqs[wseq] \in Sequences /\ IsActive(seqs[wseq])
    BY <1>4, IntervalometerAssumption
       DEF TypeOK, AbortLost, WorkerSees, Armed, SeqIds, None
  <2>2. wseq = cur /\ Active
    BY <2>1 DEF OwnInv, OneActive, Active, Armed, None
  <2>3. ~IsActive(seqs'[cur])
    BY <1>4, <2>1, <2>2, OperationsOpen, ArmedTyped DEF AbortLost, Write, TypeOK
  <2>4. QED
    BY <1>4, <2>2, <2>3 DEF AbortLost, Active
<1>5. CASE AbortLeft
  <2>1. CASE Active
    <3>1. cur \in SeqIds /\ seqs[cur] \in Sequences
      BY <2>1, CurrentTyped
    <3>2. ~IsActive(seqs'[cur])
      BY <1>5, <2>1, <3>1, OperationsOpen DEF AbortLeft, TypeOK
    <3>3. QED
      BY <1>5, <2>1, <3>2 DEF AbortLeft, Active
  <2>2. CASE ~Active
    BY <1>5, <2>2 DEF AbortLeft, Active
  <2>3. QED
    BY <2>1, <2>2
<1>6. QED
  BY <1>1, <1>2, <1>3, <1>4, <1>5 DEF Worker, QuietWorker

LEMMA DemotedWorkerStep ==
  ASSUME TypeInv, OwnInv, DemotedInv, Worker
  PROVE  DemotedInv'
<1>1. AutoNeverDuringSequence'
  BY WorkerHosts, WorkerServes
     DEF DemotedInv, AutoNeverDuringSequence, EndsAlone, Serving
<1>2. StartsAlone'
  <2> SUFFICES ASSUME NEW h \in Hosts
               PROVE  /\ hpc'[h] \in {"refresh", "await", "snapshot", "assign"} => ~Active'
                      /\ Answered(h)' => wpc' \notin Serving
    BY DEF StartsAlone
  <2>1. hpc'[h] \in {"refresh", "await", "snapshot", "assign"} => ~Active'
    BY WorkerHosts, WorkerServes DEF DemotedInv, StartsAlone
  <2>2. Answered(h)' => wpc' \notin Serving
    <3>1. CASE waiting' = waiting
      BY <3>1, WorkerHosts, WorkerServes DEF DemotedInv, StartsAlone, Answered
    <3>2. CASE wpc' = "trigger"
      BY <3>2 DEF Serving, Restoring
    <3>3. QED
      BY <3>1, <3>2, WorkerHosts
  <2>3. QED
    BY <2>1, <2>2
<1>3. EndsAlone'
  BY WorkerHosts, WorkerServes DEF DemotedInv, EndsAlone
<1>4. QED
  BY <1>1, <1>2, <1>3 DEF DemotedInv

\* The calls that take part in no start.
LEMMA DemotedCallStep ==
  ASSUME TypeInv, DemotedInv, NEW h \in Hosts,
         \/ RequestTrigger(h) \/ FlagTrigger(h) \/ StopIntervalSequence(h)
         \/ \E m \in DetectionModes : SetDetectionMode(h, m)
         \/ \E m \in CaptureModes : CheckCaptureMode(h, m)
         \/ ApplyCaptureMode(h) \/ BeginStart(h)
  PROVE  DemotedInv'
<1>1. UNCHANGED <<seqs, used, cur, wpc, wseq, waiting, hasty>> /\ Active' = Active
  BY DEF RequestTrigger, FlagTrigger, StopIntervalSequence, SetDetectionMode,
         CheckCaptureMode, ApplyCaptureMode, BeginStart, HostKeeps, Active
<1>2. \A g \in Hosts : hpc'[g] \in {"refresh", "await", "snapshot", "assign"} => hpc'[g] = hpc[g]
  BY DEF RequestTrigger, FlagTrigger, StopIntervalSequence, SetDetectionMode,
         CheckCaptureMode, ApplyCaptureMode, BeginStart, HostGoto, TypeInv, TypeOK
<1>3. AutoNeverDuringSequence'
  BY <1>1 DEF DemotedInv, AutoNeverDuringSequence, RequestTrigger, FlagTrigger,
     StopIntervalSequence, SetDetectionMode, CheckCaptureMode, ApplyCaptureMode, BeginStart
<1>4. StartsAlone' /\ EndsAlone'
  BY <1>1, <1>2 DEF DemotedInv, StartsAlone, EndsAlone, Answered
<1>5. QED
  BY <1>3, <1>4 DEF DemotedInv

\* A start moves only its own host on.
LEMMA DemotedStartStep ==
  ASSUME TypeInv, OwnInv, DemotedInv, NEW h \in Hosts, StartStep(h)
  PROVE  DemotedInv'
<1> USE DEF TypeInv, TypeOK, HostGoto
<1>1. CASE CheckNotRunning(h) \/ AskRefresh(h) \/ AwaitRefresh(h) \/ ValidateStart(h)
  <2>1. UNCHANGED <<seqs, used, cur, wpc, wseq, detection>> /\ Active' = Active
    BY <1>1 DEF CheckNotRunning, AskRefresh, AwaitRefresh, ValidateStart, HostKeeps, Active
  <2>0. Active => hasty' = hasty
    <3>1. CASE CheckNotRunning(h) \/ ValidateStart(h)
      BY <3>1 DEF CheckNotRunning, ValidateStart, HostKeeps
    <3>2. CASE AskRefresh(h) \/ AwaitRefresh(h)
      BY <3>2 DEF AskRefresh, AwaitRefresh, DemotedInv, StartsAlone
    <3>3. QED
      BY <1>1, <3>1, <3>2
  <2>2. AutoNeverDuringSequence' /\ EndsAlone'
    BY <2>0, <2>1 DEF DemotedInv, AutoNeverDuringSequence, EndsAlone
  <2>3. StartsAlone'
    <3> SUFFICES ASSUME NEW g \in Hosts
                 PROVE  /\ hpc'[g] \in {"refresh", "await", "snapshot", "assign"} => ~Active
                        /\ Answered(g)' => wpc \notin Serving
      BY <2>1 DEF StartsAlone
    <3>1. CASE g # h
      <4>1. hpc'[g] = hpc[g] /\ hpc[h] \in StartPCs
        BY <1>1, <3>1 DEF CheckNotRunning, AskRefresh, AwaitRefresh, ValidateStart, StartPCs
      <4>2. hpc'[g] \notin {"refresh", "await", "snapshot", "assign"}
        BY <3>1, <4>1 DEF StartExclusive, StartPCs
      <4>3. QED
        BY <4>2 DEF Answered
    <3>2. CASE g = h
      <4>1. CASE CheckNotRunning(h)
        BY <3>2, <4>1 DEF CheckNotRunning, NoneRunning, Answered
      <4>2. CASE AskRefresh(h)
        BY <3>2, <4>2 DEF AskRefresh, Connected, Answered, DemotedInv, StartsAlone,
                          Serving, Restoring
      <4>3. CASE AwaitRefresh(h)
        BY <3>2, <4>3 DEF AwaitRefresh, Answered, DemotedInv, StartsAlone, Serving, Restoring
      <4>4. CASE ValidateStart(h)
        BY <3>2, <4>4 DEF ValidateStart, Answered, DemotedInv, StartsAlone
      <4>5. QED
        BY <1>1, <4>1, <4>2, <4>3, <4>4
    <3>3. QED
      BY <3>1, <3>2
  <2>4. QED
    BY <2>2, <2>3 DEF DemotedInv
<1>2. CASE ArmSequence(h)
  <2>1. (hasty \/ wpc \notin Serving) /\ wpc' = wpc /\ hasty' = hasty
    BY <1>2 DEF ArmSequence, HostKeeps, DemotedInv, StartsAlone, Answered
  <2>2. AutoNeverDuringSequence' /\ EndsAlone'
    <3>1. detection' # "auto"
      BY <1>2 DEF ArmSequence
    <3>2. QED
      BY <2>1, <3>1 DEF AutoNeverDuringSequence, EndsAlone
  <2>3. \A g \in Hosts : hpc'[g] \notin {"refresh", "await", "snapshot", "assign"}
    BY <1>2 DEF ArmSequence, StartExclusive, StartPCs
  <2>4. StartsAlone'
    BY <2>3 DEF StartsAlone, Answered
  <2>5. QED
    BY <2>2, <2>4 DEF DemotedInv
<1>3. QED
  BY <1>1, <1>2 DEF StartStep

LEMMA DemotedStep ==
  TypeInv /\ OwnInv /\ DemotedInv /\ [Next]_vars => DemotedInv'
<1> SUFFICES ASSUME TypeInv, OwnInv, DemotedInv, [Next]_vars
             PROVE DemotedInv'
  OBVIOUS
<1>1. CASE Worker
  BY <1>1, DemotedWorkerStep
<1>2. CASE \E h \in Hosts : Host(h)
  BY <1>2, DemotedCallStep, DemotedStartStep DEF Host
<1>3. CASE UNCHANGED vars
  BY <1>3 DEF vars, DemotedInv, AutoNeverDuringSequence, StartsAlone, EndsAlone,
              Answered, Active
<1>4. QED
  BY <1>1, <1>2, <1>3 DEF Next

\* While a sequence runs Auto-Fire is not armed, for any number of starts, mode
\* changes, failures and refreshes that time out -- but for the sequence of a start
\* that went on without its answer (camera_manager.py:409, 475-480, 512-518).
THEOREM AutoFireDemoted == Spec => []AutoNeverDuringSequence
BY Owned, DemotedInit, DemotedStep, PTL DEF Spec, DemotedInv

-----------------------------------------------------------------------------
(***************************************************************************)
(* Auto-Fire is given back.  While a sequence owes it, the saved mode is     *)
(* there to restore, and the worker is not past the restore.                 *)
(***************************************************************************)
Closing == {"timing", "diagnose", "report", "finish", "finish_lost", "finish_exit"}

ReturnInv ==
  owed => \/ detection = "auto"
          \/ /\ saved = "auto" /\ detection = "monitor"
             /\ Active \/ wpc \in Closing

LEMMA ReturnWorkerStep ==
  ASSUME ~AdapterMayVanish, TypeInv, OwnInv, LedgerInv, ReturnInv, Worker
  PROVE  ReturnInv'
<1> USE DEF ReturnInv, Closing, Goto, WorkerKeeps, wvars
<1>1. CASE \/ FinishSequence("finish", "top")
           \/ FinishSequence("finish_lost", "exit")
           \/ FinishSequence("finish_exit", "final")
  BY <1>1 DEF FinishSequence
<1>2. CASE /\ QuietWorker /\ wpc \notin {"finish", "finish_lost", "finish_exit"}
  <2>1. UNCHANGED <<seqs, cur, saved, detection, owed>> /\ Active' = Active
    BY <1>2 DEF QuietWorker, Active, Top, LeaveLoop, FireShot, ApplyTiming,
       TimingFails, DiagnosisFails, Report, FinishSequence, ServiceConfig, SkipConfig,
       ArbitrateTrigger, FireTrigger, NoDetection, SeeEvent, Detect, LoseCamera,
       NothingLost, Exit, Die
  <2>2. wpc \in Closing => wpc' \in Closing \/ Active
    <3>1. CASE Report("report") \/ Report("diagnose")
      <4>1. WorkerSees => Active
        BY IntervalometerAssumption
           DEF TypeInv, TypeOK, OwnInv, OneActive, WorkerSees, Active, Armed, None
      <4>2. QED
        BY <3>1, <4>1 DEF Report
    <3>2. CASE ~(Report("report") \/ Report("diagnose"))
      BY <1>2, <3>2 DEF QuietWorker, Top, LeaveLoop, FireShot, ApplyTiming, TimingFails,
         DiagnosisFails, FinishSequence, ServiceConfig, SkipConfig, ArbitrateTrigger,
         FireTrigger, NoDetection, SeeEvent, Detect, LoseCamera, NothingLost, Exit, Die
    <3>3. QED
      BY <3>1, <3>2
  <2>3. QED
    BY <2>1, <2>2
<1>3. CASE StopSequence \/ Poll \/ ShotFired \/ ShotFailed \/ SlotMissed
  <2>1. UNCHANGED <<cur, saved, detection, owed, wseq>>
    BY <1>3 DEF StopSequence, Poll, ShotFired, ShotFailed, SlotMissed, Record
  <2>2. CASE ~Poll
    BY <1>3, <2>1, <2>2 DEF StopSequence, ShotFired, ShotFailed, SlotMissed, Record
  <2>3. CASE Poll
    <3>1. Active /\ wseq = cur
      BY <2>3 DEF OwnInv, WorkerFollows, Poll
    <3>2. seqs' = seqs
      BY <2>3, <3>1, CurrentTyped, OperationsOpen
         DEF OwnInv, ActiveOpen, Active, Poll, Write, TypeInv, TypeOK
    <3>3. QED
      BY <2>1, <3>1, <3>2 DEF Active
  <2>4. QED
    BY <2>2, <2>3
<1>4. CASE AbortLost
  BY <1>4 DEF AbortLost
<1>5. CASE AbortLeft
  BY <1>5 DEF AbortLeft, Active
<1>6. ~ShotFailedToo
  BY DEF LedgerInv, ShotFailedToo, Record
<1>7. QED
  BY <1>1, <1>2, <1>3, <1>4, <1>5, <1>6
     DEF Worker, QuietWorker, Top, LeaveLoop, FireShot, ApplyTiming,
         TimingFails, DiagnosisFails, Report, ServiceConfig, SkipConfig,
         ArbitrateTrigger, FireTrigger, NoDetection, SeeEvent, Detect, LoseCamera,
         NothingLost, Exit, Die

LEMMA ReturnHostStep ==
  ASSUME TypeInv, OwnInv, ReturnInv, NEW h \in Hosts, Host(h)
  PROVE  ReturnInv'
<1>1. CASE ArmSequence(h)
  <2>1. Active'
    <3>1. PICK n \in Nat : seqs'[used + 1] = NewSequence(n)
      BY <1>1, IntervalometerAssumption
         DEF ArmSequence, TypeInv, TypeOK, StartExclusive, HostGoto, StartPCs, SeqIds
    <3>2. cur' = used + 1 /\ used + 1 # None
      BY <1>1, IntervalometerAssumption DEF ArmSequence, TypeInv, TypeOK, None
    <3>3. QED
      BY <3>1, <3>2, NewSequenceSound DEF Active
  <2>2. QED
    BY <1>1, <2>1 DEF ArmSequence, SavedMode, ReturnInv
<1>2. ASSUME NEW m \in DetectionModes, SetDetectionMode(h, m) PROVE ReturnInv'
  BY <1>2 DEF SetDetectionMode, ReturnInv
<1>3. CASE ~ArmSequence(h) /\ ~\E m \in DetectionModes : SetDetectionMode(h, m)
  <2>1. UNCHANGED <<seqs, cur, wpc, saved, detection, owed>>
    BY <1>3 DEF Host, StartStep, RequestTrigger, FlagTrigger, StopIntervalSequence,
       CheckCaptureMode, ApplyCaptureMode, BeginStart, CheckNotRunning, AskRefresh,
       AwaitRefresh, ValidateStart, HostKeeps
  <2>2. QED
    BY <2>1 DEF ReturnInv, Active
<1>4. QED
  BY <1>1, <1>2, <1>3

LEMMA ReturnStep ==
  ~AdapterMayVanish /\ TypeInv /\ OwnInv /\ LedgerInv /\ ReturnInv /\ [Next]_vars => ReturnInv'
<1> SUFFICES ASSUME ~AdapterMayVanish, TypeInv, OwnInv, LedgerInv, ReturnInv, [Next]_vars
             PROVE ReturnInv'
  OBVIOUS
<1>1. CASE UNCHANGED vars
  BY <1>1 DEF vars, ReturnInv, Active
<1>2. QED
  BY <1>1, ReturnWorkerStep, ReturnHostStep DEF Next

\* A sequence that demoted Auto-Fire gives it back whatever ends it, unless the
\* user chose another mode, also when a wait for a refresh expires and the next
\* sequence is armed before the restore (camera_manager.py:475-477,
\* capture_ops.py 80-103).
THEOREM AutoFireReturns == ASSUME ~AdapterMayVanish PROVE Spec => []AutoFireGivenBack
<1>1. Init => ReturnInv
  BY DEF Init, ReturnInv
<1>2. ReturnInv => AutoFireGivenBack
  BY DEF ReturnInv, AutoFireGivenBack, Closing
<1>3. QED
  BY <1>1, <1>2, Reachable, ReturnStep, PTL DEF Spec
=============================================================================
