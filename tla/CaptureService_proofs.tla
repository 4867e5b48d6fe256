------------------------ MODULE CaptureService_proofs ------------------------
(***************************************************************************)
(* What capture_calls checks on two threads, a log of two events and two     *)
(* acts, proved for any number of threads, any sizes of the log and of a     *)
(* page, and any mixture of calls; what a capture may tell its caller is     *)
(* proved for mixtures in which no reconnection comes in the middle of a     *)
(* capture.                                                                  *)
(***************************************************************************)
EXTENDS CaptureService, SequenceTheorems, TLAPS

-----------------------------------------------------------------------------
(***************************************************************************)
(* The log is a run of consecutive ids that ends at the counter.             *)
(***************************************************************************)
LogTyped ==
  /\ log \in Seq(Events)
  /\ Len(log) <= LogSize
  /\ counter \in 0..MaxEvents
  /\ epoch \in 1..MaxEpochs

\* How many events of the session the log has dropped: no id up to it is left.
Gone   == counter - Len(log)
LogRun == \A i \in DOMAIN log : log[i].id = Gone + i

\* What an event says, without its id.
Reports == [kind : Kinds, stamp : Nat, act : Nat]

\* _events keeps the newest events it is given, in their order.
LEMMA NewestKept ==
  ASSUME NEW S, NEW s \in Seq(S)
  PROVE  /\ Newest(s) \in Seq(S)
         /\ Len(Newest(s)) <= LogSize /\ Len(Newest(s)) <= Len(s)
         /\ \A i \in 1..Len(Newest(s)) : Newest(s)[i] = s[Len(s) - Len(Newest(s)) + i]
<1> DEFINE n == IF Len(s) > LogSize THEN Len(s) - LogSize + 1 ELSE 1
<1>1. Len(s) \in Nat /\ LogSize \in Nat \ {0}
  BY LenProperties, LogAssumption
<1>2. n \in Int /\ n >= 1 /\ n <= Len(s) + 1
  BY <1>1
<1>3. \A i \in n..Len(s) : s[i] \in S
  BY <1>1, <1>2, ElementOfSeq
<1>4. /\ SubSeq(s, n, Len(s)) \in Seq(S)
      /\ Len(SubSeq(s, n, Len(s))) = Len(s) - n + 1
      /\ \A i \in 1..Len(s) - n + 1 : SubSeq(s, n, Len(s))[i] = s[n + i - 1]
  <2> HIDE DEF n
  <2>1. QED
    BY <1>1, <1>2, <1>3, SubSeqProperties
<1>5. Newest(s) = SubSeq(s, n, Len(s))
  BY DEF Newest
<1>6. Len(s) - n + 1 <= LogSize /\ Len(s) - n + 1 <= Len(s)
  BY <1>1
<1> HIDE DEF n
<1>7. \A i \in 1..Len(s) - n + 1 : n + i - 1 = Len(s) - (Len(s) - n + 1) + i
  BY <1>1, <1>2
<1>8. QED
  BY <1>4, <1>5, <1>6, <1>7

\* A function on an initial segment is a sequence of that length.
LEMMA FunctionSeq ==
  ASSUME NEW S, NEW n \in Nat, NEW f \in [1..n -> S]
  PROVE  f \in Seq(S) /\ Len(f) = n
<1>1. f \in Seq(S)
  BY SeqDef
<1>2. DOMAIN f = 1..Len(f) /\ Len(f) \in Nat
  BY <1>1, LenProperties
<1>3. QED
  BY <1>1, <1>2

\* Appending adds the new events with the next ids and drops the oldest ones.
LEMMA Appended ==
  ASSUME LogTyped, LogRun, NEW events \in Seq(Reports), AppendEvents(events)
  PROVE  /\ LogTyped' /\ LogRun'
         /\ Gone' >= Gone /\ counter' >= counter /\ UNCHANGED epoch
         /\ \A i \in DOMAIN log' :
              \/ \E j \in DOMAIN log : log'[i] = log[j]
              \/ \E k \in DOMAIN events : log'[i] = Entry(counter + k, events[k])
<1> DEFINE new == [i \in DOMAIN events |-> Entry(counter + i, events[i])]
           all == log \o new
<1>1. /\ Len(events) \in Nat /\ Len(log) \in Nat /\ counter \in Nat
      /\ DOMAIN events = 1..Len(events) /\ DOMAIN log = 1..Len(log)
  BY LenProperties DEF LogTyped
<1>2. counter + Len(events) <= MaxEvents /\ counter' = counter + Len(events)
      /\ log' = Newest(all) /\ epoch' = epoch
  BY DEF AppendEvents
<1>3. \A k \in 1..Len(events) : Entry(counter + k, events[k]) \in Events
  <2> SUFFICES ASSUME NEW k \in 1..Len(events) PROVE Entry(counter + k, events[k]) \in Events
    OBVIOUS
  <2>1. events[k] \in Reports
    BY <1>1, ElementOfSeq
  <2>2. counter + k \in 1..MaxEvents
    BY <1>1, <1>2, LogAssumption
  <2>3. QED
    BY ONLY <2>1, <2>2 DEF Entry, Events, Reports
<1>4. new \in Seq(Events) /\ Len(new) = Len(events)
  <2>1. new \in [1..Len(events) -> Events]
    BY <1>1, <1>3
  <2> HIDE DEF new
  <2>2. QED
    BY ONLY <1>1, <2>1, FunctionSeq
<1>5. /\ all \in Seq(Events)
      /\ Len(all) = Len(log) + Len(events)
      /\ \A i \in 1..Len(all) : all[i] = IF i <= Len(log) THEN log[i] ELSE new[i - Len(log)]
  <2> HIDE DEF new
  <2>1. log \in Seq(Events)
    BY DEF LogTyped
  <2>2. /\ log \o new \in Seq(Events)
        /\ Len(log \o new) = Len(log) + Len(new)
        /\ \A i \in 1..Len(log) + Len(new) :
             (log \o new)[i] = IF i <= Len(log) THEN log[i] ELSE new[i - Len(log)]
    BY ONLY <1>4, <2>1, ConcatProperties
  <2>3. QED
    BY ONLY <1>4, <2>2
<1>6. \A i \in 1..Len(all) :
        \/ i \in DOMAIN log /\ all[i] = log[i] /\ log[i].id = Gone + i
        \/ \E k \in DOMAIN events : /\ all[i] = Entry(counter + k, events[k])
                                    /\ k = i - Len(log)
  <2> HIDE DEF all
  <2> SUFFICES ASSUME NEW i \in 1..Len(all)
               PROVE  \/ i \in DOMAIN log /\ all[i] = log[i] /\ log[i].id = Gone + i
                      \/ \E k \in DOMAIN events : /\ all[i] = Entry(counter + k, events[k])
                                                  /\ k = i - Len(log)
    OBVIOUS
  <2>1. CASE i <= Len(log)
    <3>1. i \in DOMAIN log
      BY <1>1, <1>5, <2>1
    <3>4. all[i] = log[i]
      BY ONLY <1>5, <2>1, i \in 1..Len(all), Zenon
    <3>2. log[i].id = Gone + i
      BY <3>1 DEF LogRun
    <3>3. QED
      BY <3>1, <3>2, <3>4
  <2>2. CASE i > Len(log)
    <3>1. i - Len(log) \in 1..Len(events)
      BY <1>1, <1>5, <2>2
    <3>2. all[i] = new[i - Len(log)]
      BY <1>1, <1>5, <2>2
    <3>3. QED
      BY <1>1, <3>1, <3>2
  <2>3. QED
    BY <1>1, <1>5, <2>1, <2>2
<1> HIDE DEF all, new
<1>7. \A i \in 1..Len(all) : all[i].id = Gone + i
  <2> SUFFICES ASSUME NEW i \in 1..Len(all) PROVE all[i].id = Gone + i
    OBVIOUS
  <2>1. CASE \E k \in DOMAIN events : all[i] = Entry(counter + k, events[k]) /\ k = i - Len(log)
    <3>1. PICK k \in DOMAIN events : all[i] = Entry(counter + k, events[k]) /\ k = i - Len(log)
      BY <2>1
    <3>2. all[i].id = counter + k
      BY <3>1 DEF Entry
    <3>3. k \in Int /\ i \in Int
      BY <1>1
    <3>4. QED
      BY ONLY <1>1, <3>1, <3>2, <3>3 DEF Gone
  <2>2. QED
    BY <1>6, <2>1
<1>8. /\ log' \in Seq(Events) /\ Len(log') <= LogSize /\ Len(log') <= Len(all)
      /\ \A i \in 1..Len(log') : log'[i] = all[Len(all) - Len(log') + i]
      /\ Len(log') \in Nat /\ DOMAIN log' = 1..Len(log')
  BY <1>2, <1>5, NewestKept, LenProperties
<1>9. \A i \in 1..Len(log') : Len(all) - Len(log') + i \in 1..Len(all)
  BY <1>1, <1>5, <1>8
<1>10. LogTyped'
  BY <1>1, <1>2, <1>8, LogAssumption DEF LogTyped
<1>11. Gone' = Gone + (Len(all) - Len(log')) /\ Gone' >= Gone
  BY <1>1, <1>2, <1>5, <1>8 DEF Gone
<1>12. LogRun'
  <2> SUFFICES ASSUME NEW i \in 1..Len(log') PROVE log'[i].id = Gone' + i
    BY <1>8 DEF LogRun
  <2>1. log'[i].id = Gone + (Len(all) - Len(log') + i)
    BY <1>7, <1>8, <1>9
  <2>2. Gone \in Int
    BY <1>1 DEF Gone
  <2>3. QED
    BY <1>1, <1>5, <1>8, <1>11, <2>1, <2>2
<1>13. \A i \in DOMAIN log' :
         \/ \E j \in DOMAIN log : log'[i] = log[j]
         \/ \E k \in DOMAIN events : log'[i] = Entry(counter + k, events[k])
  BY <1>6, <1>8, <1>9
<1>14. QED
  BY <1>1, <1>2, <1>10, <1>11, <1>12, <1>13

\* Clearing the log drops what it holds, a session of its own drops the ids too.
LEMMA Cleared ==
  ASSUME LogTyped, log' = <<>>, counter' \in 0..MaxEvents, epoch' \in 1..MaxEpochs
  PROVE  LogTyped' /\ LogRun' /\ Gone' = counter'
<1>1. <<>> \in Seq(Events) /\ Len(<<>>) = 0 /\ DOMAIN <<>> = {}
  BY EmptySeq
<1>2. log' \in Seq(Events) /\ Len(log') = 0 /\ DOMAIN log' = {}
  BY ONLY <1>1, log' = <<>>
<1>3. LogSize \in Nat
  BY LogAssumption
<1>4. LogTyped'
  BY ONLY <1>2, <1>3, counter' \in 0..MaxEvents, epoch' \in 1..MaxEpochs DEF LogTyped
<1>5. LogRun'
  BY ONLY <1>2 DEF LogRun
<1>6. Gone' = counter'
  <2>1. counter' \in Int
    BY LogAssumption
  <2>2. Gone' = counter' - Len(log')
    BY DEF Gone
  <2>3. Len(log') = 0
    BY <1>2
  <2>4. \A x \in Int : x - 0 = x
    OBVIOUS
  <2>5. QED
    BY ONLY <2>1, <2>2, <2>3, <2>4, Zenon
<1>7. QED
  BY <1>4, <1>5, <1>6

\* event_watermark(): no event of the log is newer.
LEMMA WatermarkNewest ==
  ASSUME LogTyped, LogRun
  PROVE  Watermark \in 0..MaxEvents /\ \A i \in DOMAIN log : log[i].id <= Watermark
<1>1. Len(log) \in Nat /\ DOMAIN log = 1..Len(log)
  BY LenProperties DEF LogTyped
<1>2. CASE log = <<>>
  BY <1>2, LogAssumption DEF Watermark
<1>3. CASE log # <<>>
  <2>1. Len(log) >= 1
    BY <1>1, <1>3, EmptySeq DEF LogTyped
  <2>2. Watermark = log[Len(log)].id /\ log[Len(log)] \in Events
    BY <1>1, <1>3, <2>1, ElementOfSeq DEF Watermark, LogTyped
  <2>3. log[Len(log)].id = counter /\ \A i \in 1..Len(log) : log[i].id <= counter
    BY <1>1, <2>1 DEF LogRun, Gone, LogTyped
  <2>4. QED
    BY <1>1, <2>2, <2>3 DEF Events
<1>4. QED
  BY <1>2, <1>3

\* The largest and the smallest of an interval.
LEMMA RunMaxMin ==
  ASSUME NEW lo \in Int, NEW hi \in Int, lo <= hi
  PROVE  Max(lo..hi) = hi /\ Min(lo..hi) = lo
<1>1. hi \in lo..hi /\ \A y \in lo..hi : hi >= y
  OBVIOUS
<1>2. lo \in lo..hi /\ \A y \in lo..hi : lo <= y
  OBVIOUS
<1>3. \A x \in lo..hi : (\A y \in lo..hi : x >= y) => x = hi
  BY <1>1
<1>4. \A x \in lo..hi : (\A y \in lo..hi : x <= y) => x = lo
  BY <1>2
<1>5. QED
  BY <1>1, <1>2, <1>3, <1>4 DEF Max, Min

\* get_events(): a page is a run of ids that starts right after the cursor, or
\* after the last id that is gone.
PageIds   == {log[i].id : i \in Page}
PageFirst == IF reader.cursor > Gone THEN reader.cursor + 1 ELSE Gone + 1

LEMMA PageRun ==
  ASSUME LogTyped, LogRun, reader.cursor \in Nat
  PROVE  PageIds = {} \/ \E hi \in 1..counter : PageFirst <= hi /\ PageIds = PageFirst..hi
<1> DEFINE lo == PageFirst - Gone
           hi == IF Len(log) < lo + PageSize THEN Len(log) ELSE lo + PageSize - 1
<1>1. Len(log) \in Nat /\ DOMAIN log = 1..Len(log) /\ counter \in Nat
  BY LenProperties DEF LogTyped
<1>2. Gone \in Int /\ Gone + Len(log) = counter
  BY <1>1 DEF Gone
<1>3. lo \in Int /\ lo >= 1 /\ PageFirst = Gone + lo
  BY <1>2 DEF PageFirst
<1>4. Since(reader.cursor) = lo..Len(log)
  BY <1>1, <1>2 DEF Since, LogRun, PageFirst
<1>5. PageSize \in Nat \ {0}
  BY LogAssumption
<1> HIDE DEF lo
<1>6. CASE lo > Len(log)
  <2>1. Page = {}
    BY <1>1, <1>3, <1>4, <1>6 DEF Page
  <2>2. QED
    BY <2>1 DEF PageIds
<1>7. CASE lo <= Len(log)
  <2>1. lo \in lo..Len(log) /\ \A j \in lo..Len(log) : lo <= j
    BY <1>1, <1>3, <1>7
  <2>2. Page = {i \in lo..Len(log) : \A j \in lo..Len(log) : i < j + PageSize}
    BY <1>4 DEF Page
  <2>3. Page = {i \in lo..Len(log) : i < lo + PageSize}
    BY <1>1, <1>3, <1>5, <2>1, <2>2
  <2>4. Page = lo..hi /\ hi \in lo..Len(log)
    BY <1>1, <1>3, <1>5, <1>7, <2>3
  <2> HIDE DEF hi
  <2>5. \A i \in lo..hi : log[i].id = Gone + i
    BY <1>1, <1>3, <2>4 DEF LogRun
  <2>6. PageIds = {Gone + i : i \in lo..hi}
    BY <2>4, <2>5 DEF PageIds
  <2>7. {Gone + i : i \in lo..hi} = (Gone + lo)..(Gone + hi)
    <3>1. \A x \in (Gone + lo)..(Gone + hi) : x - Gone \in lo..hi /\ x = Gone + (x - Gone)
      BY <1>1, <1>2, <1>3, <2>4
    <3>2. \A i \in lo..hi : Gone + i \in (Gone + lo)..(Gone + hi)
      BY <1>1, <1>2, <1>3, <2>4
    <3>3. QED
      BY <3>1, <3>2
  <2>8. Gone + hi \in 1..counter
    <3>1. Gone + hi <= counter /\ Gone + hi >= PageFirst
      BY <1>1, <1>2, <1>3, <2>4
    <3>2. PageFirst >= 1
      BY <1>2 DEF PageFirst
    <3>3. QED
      BY <1>1, <1>2, <1>3, <2>4, <3>1, <3>2
  <2>9. PageFirst <= Gone + hi
    BY <1>1, <1>2, <1>3, <2>4
  <2>10. PageIds = PageFirst..(Gone + hi)
    BY ONLY <1>3, <2>6, <2>7
  <2>11. QED
    BY ONLY <2>8, <2>9, <2>10
<1>8. QED
  BY <1>1, <1>3, <1>6, <1>7

-----------------------------------------------------------------------------
(***************************************************************************)
(* Types, with the two facts they rest on: the ids of the log are a run, and *)
(* an act whose file is due has been numbered.                               *)
(***************************************************************************)
ReaderTyped ==
  /\ reader \in [pc : {"new", "idle", "session", "window"}, cursor : 0..MaxEvents,
                 last : 0..MaxEvents, known : 0..MaxEpochs, told : 0..MaxEpochs,
                 home : 0..MaxEpochs]
  /\ seen \subseteq 1..MaxEvents
  /\ excused \subseteq 1..MaxEvents

CallsTyped == call \in [Hosts -> CallsMade]

FlagsTyped ==
  /\ conn \in BOOLEAN
  /\ rec \in BOOLEAN /\ rolling \in BOOLEAN /\ failed \in BOOLEAN
  /\ trig \in BOOLEAN

WorkerTyped ==
  /\ seq \in 0..MaxActs
  /\ expect \in 0..MaxActs
  /\ queued \subseteq Files
  /\ due \subseteq 1..seq
  /\ w \in [pc : {"loop", "fire", "final", "last", "gone"}, for : SUBSET Purposes]
  /\ asked \subseteq Purposes

HostTyped ==
  /\ usage \in Usages
  /\ {confirms, adapter, stopReq, strayed, barred, misled, misfired} \subseteq BOOLEAN
  /\ interval \in {"none", "arming", "running", "demoted"}
  /\ det \in {"off", "monitor", "auto"}
  /\ mode \in Modes
  /\ lock \in Hosts \cup {NoHost}

TypeInv == LogTyped /\ LogRun /\ ReaderTyped /\ CallsTyped /\ FlagsTyped /\ WorkerTyped
           /\ HostTyped

LEMMA TypeInvIsStronger == TypeInv => TypeOK
<1>1. LogTyped /\ ReaderTyped => LogTypeOK
  BY DEF LogTyped, ReaderTyped, LogTypeOK
<1>2. WorkerTyped => due \subseteq 1..MaxActs
  <2> SUFFICES ASSUME WorkerTyped, NEW act \in due PROVE act \in 1..MaxActs
    OBVIOUS
  <2>1. act \in 1..seq /\ seq \in 0..MaxActs
    BY DEF WorkerTyped
  <2>2. QED
    BY <2>1, CaptureAssumption
<1>3. QED
  BY <1>1, <1>2, Zenon DEF TypeInv, TypeOK, FlagsTyped, WorkerTyped, HostTyped, CallsTyped

\* What a step of a call leaves alone: everything the worker and the consumer
\* of the log have.
LEMMA CallFrame ==
  ASSUME NEW h \in Hosts, Call(h)
  PROVE  Body /\ UNCHANGED stopReq
<1>1. CallOnly => Body /\ UNCHANGED stopReq
  BY DEF CallOnly
<1>2. ASSUME Leave(h) PROVE Body /\ UNCHANGED stopReq
  BY <1>1, <1>2 DEF Leave, Return
<1>3. CASE Check(h)
  BY <1>1, <1>3 DEF Check, CheckPhoto, CheckVideo, CheckStop, CheckWatch, Decide, Return
<1>4. CASE Request(h)
  BY <1>2, <1>4 DEF Request, Refuses
<1>5. QED
  BY <1>1, <1>2, <1>3, <1>4 DEF Call, Begin, SetMode, Mark, MovieReached, MovieGivenUp,
     EndHold, FileAnswered, FileGivenUp, Restore, Arm, Return

\* What a check comes to: the call returns, or goes on with a mode to set.
LEMMA Checks ==
  ASSUME NEW h \in Hosts, Check(h)
  PROVE  \/ call[h].pc = "check" /\ Return(h)
         \/ /\ call[h].pc = "check" /\ CallOnly
            /\ \E target \in Modes \cup {"none"} :
                 Update(h, [call[h] EXCEPT !.pc = "mode", !.prev = mode, !.target = target,
                              !.ending = call[h].name = "stop"])
<1>1. Unless("single") \in Modes \cup {"none"} /\ Unless("video") \in Modes \cup {"none"}
      /\ {"single", "video", "none"} \subseteq Modes \cup {"none"}
  BY DEF Unless, Modes
<1>2. \E refused \in BOOLEAN, target \in Modes \cup {"none"} : Decide(h, refused, target)
  BY <1>1 DEF Check, CheckPhoto, CheckVideo, CheckStop, CheckWatch
<1>3. QED
  BY <1>2 DEF Decide

\* A call writes its own place alone.
LEMMA Updated ==
  ASSUME CallsTyped, NEW h \in Hosts, NEW new \in CallsMade, Update(h, new)
  PROVE  /\ CallsTyped'
         /\ call'[h] = new
         /\ \A g \in Hosts : g # h => call'[g] = call[g]
BY DEF CallsTyped, Update

LEMMA WentTo ==
  ASSUME CallsTyped, NEW h \in Hosts, NEW pc \in Places, Goto(h, pc)
  PROVE  /\ CallsTyped'
         /\ call'[h] = [call[h] EXCEPT !.pc = pc]
         /\ \A g \in Hosts : g # h => call'[g] = call[g]
<1>1. [call[h] EXCEPT !.pc = pc] \in CallsMade
  BY DEF CallsTyped, CallsMade
<1>2. QED
  BY <1>1, Updated DEF Goto

LEMMA IdleIsACall == Idle \in CallsMade
BY LogAssumption, CaptureAssumption DEF Idle, CallsMade, Places, Captures, Modes

LEMMA CallsStep ==
  ASSUME TypeInv, NEW h \in Hosts, Call(h)
  PROVE  CallsTyped' /\ \A g \in Hosts : g # h => call'[g] = call[g]
<1> DEFINE Own == CallsTyped' /\ \A g \in Hosts : g # h => call'[g] = call[g]
<1>0. CallsTyped /\ WorkerTyped /\ HostTyped
  BY DEF TypeInv
<1>a. ASSUME Returns(h) PROVE Own
  BY <1>0, <1>a, IdleIsACall, Updated DEF Returns
<1>b. ASSUME NEW pc \in Places, Goto(h, pc) PROVE Own
  BY <1>0, <1>b, WentTo
<1>c. ASSUME Leave(h) PROVE Own
  <2>1. "restore" \in Places
    BY DEF Places
  <2>2. QED
    BY <1>a, <1>b, <1>c, <2>1 DEF Leave, Return
<1>d. {"mark", "arm", "file", "movie", "hold", "restore"} \subseteq Places
  BY DEF Places
<1>1. CASE Begin(h)
  <2>1. PICK name \in usage \cap Captures : Update(h, [Idle EXCEPT !.pc = "check", !.name = name])
    BY <1>1 DEF Begin
  <2>2. [Idle EXCEPT !.pc = "check", !.name = name] \in CallsMade
    BY IdleIsACall DEF CallsMade, Places
  <2>3. QED
    BY <1>0, <2>1, <2>2, Updated
<1>2. CASE Check(h)
  <2>1. CASE Return(h)
    BY <1>a, <2>1 DEF Return
  <2>2. CASE ~Return(h)
    <3>1. PICK target \in Modes \cup {"none"} :
             Update(h, [call[h] EXCEPT !.pc = "mode", !.prev = mode, !.target = target,
                          !.ending = call[h].name = "stop"])
      BY <1>2, <2>2, Checks
    <3>2. [call[h] EXCEPT !.pc = "mode", !.prev = mode, !.target = target,
             !.ending = call[h].name = "stop"] \in CallsMade
      BY <1>0 DEF CallsTyped, HostTyped, CallsMade, Places
    <3>3. QED
      BY <1>0, <3>1, <3>2, Updated
  <2>3. QED
    BY <2>1, <2>2
<1>3. CASE SetMode(h)
  BY <1>3, <1>a, <1>b, <1>d DEF SetMode, Return
<1>4. CASE Mark(h)
  <2>1. Watermark \in 0..MaxEvents
    BY WatermarkNewest DEF TypeInv
  <2>2. seq + 1 \in 0..MaxActs + 1 /\ {f.act : f \in queued} \in SUBSET (1..MaxActs)
    BY <1>0, CaptureAssumption DEF WorkerTyped, Files
  <2>3. [call[h] EXCEPT !.pc = "request", !.since = Watermark, !.min = seq + 1,
           !.backlog = {f.act : f \in queued}] \in CallsMade
    <3> HIDE DEF Watermark
    <3>1. QED
      BY <1>0, <2>1, <2>2 DEF CallsTyped, CallsMade, Places
  <2>4. QED
    BY <1>0, <1>4, <2>3, Updated DEF Mark
<1>5. CASE Request(h)
  BY <1>5, <1>a, <1>b, <1>c, <1>d DEF Request, Refuses
<1>6. CASE MovieReached(h)
  BY <1>6, <1>b, <1>d DEF MovieReached
<1>7. CASE MovieGivenUp(h)
  BY <1>7, <1>c DEF MovieGivenUp
<1>8. CASE EndHold(h)
  <2>1. [call[h] EXCEPT !.pc = "mark", !.ending = TRUE] \in CallsMade
    BY <1>0 DEF CallsTyped, CallsMade, Places
  <2>2. QED
    BY <1>0, <1>8, <2>1, Updated DEF EndHold
<1>9. CASE FileAnswered(h) \/ FileGivenUp(h)
  BY <1>9, <1>b, <1>d DEF FileAnswered, FileGivenUp
<1>10. CASE Restore(h) \/ Arm(h)
  BY <1>10, <1>a DEF Restore, Arm
<1>11. QED
  BY <1>1, <1>2, <1>3, <1>4, <1>5, <1>6, <1>7, <1>8, <1>9, <1>10 DEF Call

LEMMA HostStep ==
  ASSUME TypeInv, NEW h \in Hosts, Call(h)
  PROVE  HostTyped' /\ trig' \in BOOLEAN /\ asked' \subseteq Purposes
<1> DEFINE Kept == HostTyped' /\ trig' \in BOOLEAN /\ asked' \subseteq Purposes
<1>0. CallsTyped /\ FlagsTyped /\ WorkerTyped /\ HostTyped
  BY DEF TypeInv
<1>1. UNCHANGED <<usage, stopReq, confirms, adapter, interval, misfired>>
  BY CallFrame DEF Body, camera
<1>2. ASSUME lock' = lock \/ lock' = h \/ lock' = NoHost, mode' \in Modes,
             det' \in {"off", "monitor", "auto"}, UNCHANGED trigger,
             strayed' \in BOOLEAN, barred' \in BOOLEAN, misled' \in BOOLEAN
      PROVE  Kept
  BY <1>0, <1>1, <1>2 DEF HostTyped, FlagsTyped, WorkerTyped, trigger
<1>a. ASSUME CallOnly PROVE Kept
  BY <1>0, <1>2, <1>a DEF CallOnly, HostTyped
<1>b. ASSUME Returns(h) PROVE (lock' = lock \/ lock' = NoHost) /\ strayed' \in BOOLEAN
  BY <1>0, <1>b DEF Returns, HostTyped, FlagsTyped, Unserved
<1>c. ASSUME Return(h) PROVE Kept
  <2>1. UNCHANGED <<det, mode, trigger, barred, misled>> /\ Returns(h)
    BY <1>c DEF Return
  <2>2. QED
    BY <1>0, <1>2, <1>b, <2>1 DEF HostTyped
<1>d. ASSUME Leave(h) PROVE Kept
  BY <1>a, <1>c, <1>d DEF Leave
<1>3. CASE Begin(h)
  BY <1>0, <1>2, <1>3 DEF Begin, HostTyped
<1>4. CASE Check(h) \/ Mark(h) \/ MovieReached(h) \/ MovieGivenUp(h) \/ EndHold(h) \/ FileGivenUp(h)
  BY <1>4, <1>a, <1>c, <1>d, Checks DEF Mark, MovieReached, MovieGivenUp, EndHold, FileGivenUp
<1>5. CASE SetMode(h)
  <2>1. CASE Return(h)
    BY <1>c, <2>1
  <2>2. CASE ~Return(h)
    <3>1. /\ mode' = (IF call[h].target # "none" THEN call[h].target ELSE mode)
          /\ barred' = (barred /\ ~(call[h].target # "none"))
          /\ UNCHANGED <<det, trigger, lock, strayed, misled>>
      BY <1>5, <2>2 DEF SetMode
    <3>2. mode' \in Modes
      BY <1>0, <3>1 DEF CallsTyped, CallsMade, HostTyped
    <3>3. barred' \in BOOLEAN /\ strayed' \in BOOLEAN /\ misled' \in BOOLEAN
      BY <1>0, <3>1 DEF HostTyped
    <3>4. QED
      BY <1>0, <1>2, <3>1, <3>2, <3>3 DEF HostTyped
  <2>3. QED
    BY <2>1, <2>2
<1>6. CASE Request(h)
  <2>1. CASE Refuses(h) /\ call[h].ending
    BY <1>d, <2>1 DEF Refuses
  <2>2. CASE Refuses(h) /\ ~call[h].ending
    <3>1. barred' \in BOOLEAN /\ Returns(h) /\ UNCHANGED <<det, mode, trigger, misled>>
      BY <1>0, <2>2 DEF Refuses, HostTyped
    <3>2. QED
      BY <1>0, <1>2, <1>b, <3>1 DEF HostTyped
  <2>3. CASE ~Refuses(h)
    <3>1. trig' = TRUE /\ UNCHANGED <<det, mode, lock, strayed, barred, misled>>
          /\ \E p \in Purposes : asked' = asked \cup {p}
      BY <1>6, <2>3 DEF Request, Purposes
    <3>2. QED
      BY <1>0, <1>1, <3>1 DEF HostTyped, WorkerTyped
  <2>4. QED
    BY <2>1, <2>2, <2>3
<1>7. CASE FileAnswered(h)
  <2>1. misled' \in BOOLEAN /\ UNCHANGED <<det, mode, trigger, lock, strayed, barred>>
    BY <1>0, <1>7 DEF FileAnswered, HostTyped
  <2>2. QED
    BY <1>0, <1>2, <2>1 DEF HostTyped
<1>8. CASE Restore(h)
  <2>1. mode' \in Modes /\ Returns(h) /\ UNCHANGED <<det, trigger, misled>>
    BY <1>0, <1>8 DEF Restore, CallsTyped, CallsMade, HostTyped
  <2>2. barred' \in BOOLEAN
    BY <1>0, <1>8 DEF Restore, HostTyped
  <2>3. QED
    BY <1>0, <1>2, <1>b, <2>1, <2>2 DEF HostTyped
<1>9. CASE Arm(h)
  <2>1. det' \in {"off", "monitor", "auto"} /\ Returns(h) /\ UNCHANGED <<mode, trigger, barred, misled>>
    BY <1>0, <1>9 DEF Arm, HostTyped
  <2>2. QED
    BY <1>0, <1>2, <1>b, <2>1 DEF HostTyped
<1>10. QED
  BY <1>3, <1>4, <1>5, <1>6, <1>7, <1>8, <1>9 DEF Call

\* What a step of the worker adds to the log: photo events only of files that
\* were queued, with their act and their stamp.
NewReports == {e \in Reports : e.kind = "photo" => \E f \in queued : f.act = e.act /\ f.stamp = e.stamp}
LogsReports ==
  \/ UNCHANGED logVars
  \/ \E events \in Seq(Reports) :
       AppendEvents(events) /\ \A k \in DOMAIN events : events[k] \in NewReports

LEMMA ReportsOne ==
  ASSUME NEW e \in NewReports, AppendEvents(<<e>>)
  PROVE  LogsReports
<1>1. e \in Reports
  BY DEF NewReports
<1>2. <<e>> \in Seq(Reports) /\ \A k \in DOMAIN <<e>> : <<e>>[k] \in NewReports
  BY <1>1
<1>3. QED
  BY <1>2 DEF LogsReports

LEMMA ReportsTwo ==
  ASSUME NEW e \in NewReports, NEW f \in NewReports, AppendEvents(<<e, f>>)
  PROVE  LogsReports
<1>1. e \in Reports /\ f \in Reports
  BY DEF NewReports
<1>2. <<e, f>> \in Seq(Reports) /\ \A k \in DOMAIN <<e, f>> : <<e, f>>[k] \in NewReports
  BY <1>1
<1>3. QED
  BY <1>2 DEF LogsReports

\* Every event but a photo is as good as any.
LEMMA Unrelated ==
  ASSUME NEW kind \in Kinds \ {"photo"}, NEW stamp \in Nat, NEW act \in Nat
  PROVE  Event(kind, stamp, act) \in NewReports
BY DEF Event, NewReports, Reports, Kinds

LEMMA ErrorsUnrelated ==
  ASSUME NEW act \in Nat
  PROVE  ErrorOf(act) \in NewReports
BY Unrelated DEF ErrorOf, Kinds

LEMMA ToggledLog ==
  ASSUME NEW act \in Nat, Toggled(act)
  PROVE  LogsReports
<1>1. Event("trigger", act, act) \in NewReports /\ Event("error", 0, act) \in NewReports
  BY Unrelated DEF Kinds
<1>2. ErrorOf(act) \in NewReports
  BY ErrorsUnrelated
<1>3. QED
  BY <1>1, <1>2, ReportsOne, ReportsTwo DEF Toggled

LEMMA WorkerLog ==
  ASSUME TypeInv, Worker
  PROVE  LogsReports
<1>0. seq \in Nat /\ expect \in Nat /\ Act \in Nat /\ queued \subseteq Files
  BY CaptureAssumption DEF TypeInv, WorkerTyped, Act
<1>u. Event("trigger", 0, 0) \in NewReports /\ Event("error", 0, 0) \in NewReports
      /\ Event("trigger", Act, Act) \in NewReports
  BY <1>0, Unrelated DEF Kinds
<1>1. CASE ServeTrigger \/ Detect \/ ActRaises
  BY <1>1 DEF ServeTrigger, Detect, ActRaises, Quiet, LogsReports
<1>1a. CASE IgnoreTrigger \/ SequenceShot \/ SequenceEnds \/ Exit
  BY <1>u, <1>1a, ReportsOne DEF IgnoreTrigger, SequenceShot, SequenceEnds, Exit, Quiet, LogsReports
<1>2. CASE Shoot
  <2>1. Event("trigger", Act, Act) \in NewReports /\ ErrorOf(Act) \in NewReports
    BY <1>0, Unrelated, ErrorsUnrelated DEF Kinds
  <2>2. QED
    BY <1>2, <2>1, ReportsOne DEF Shoot
<1>3. CASE ToggleMovie
  BY <1>0, <1>3, ToggledLog DEF ToggleMovie
<1>4. CASE SilentRefusal
  <2>1. Event("error", 0, expect) \in NewReports
    BY <1>0, Unrelated DEF Kinds
  <2>2. QED
    BY <1>4, <2>1, ReportsOne DEF SilentRefusal
<1>5. CASE Announce
  <2>1. \A act \in due : Event("pending", seq, act) \in NewReports
    <3>1. \A act \in due : act \in Nat
      BY CaptureAssumption DEF TypeInv, WorkerTyped
    <3>2. "pending" \in Kinds \ {"photo"}
      BY DEF Kinds
    <3>3. QED
      BY ONLY <1>0, <3>1, <3>2, Unrelated
  <2>2. QED
    BY <1>5, <2>1, ReportsOne DEF Announce, Quiet, LogsReports
<1>6. CASE Fetch
  <2>1. \A f \in queued, kind \in {"photo", "error"} : Event(kind, f.stamp, f.act) \in NewReports
    BY <1>0, CaptureAssumption DEF Event, NewReports, Reports, Kinds, Files
  <2>2. QED
    BY <1>6, <2>1, ReportsOne DEF Fetch
<1>7. CASE Notify
  BY <1>u, <1>7, ReportsOne DEF Notify
<1>8. CASE LoopEnds
  BY <1>u, <1>8, ReportsOne, ReportsTwo DEF LoopEnds, Quiet, LogsReports
<1>9. CASE FinalStop
  BY <1>9, ToggledLog DEF FinalStop, Quiet, LogsReports
<1>10. QED
  BY <1>1, <1>1a, <1>2, <1>3, <1>4, <1>5, <1>6, <1>7, <1>8, <1>9 DEF Worker

LEMMA ToggledFlags ==
  ASSUME FlagsTyped, NEW act, Toggled(act)
  PROVE  rec' \in BOOLEAN /\ rolling' \in BOOLEAN /\ failed' \in BOOLEAN
<1>1. rec' \in BOOLEAN /\ failed' \in BOOLEAN
  BY Zenon DEF Toggled, FlagsTyped
<1>2. rolling' \in {~rec, rolling}
  BY DEF Toggled
<1>3. QED
  BY <1>1, <1>2, Zenon DEF FlagsTyped

LEMMA WorkerFlags ==
  ASSUME FlagsTyped, Worker
  PROVE  FlagsTyped'
<1>1. ASSUME UNCHANGED <<rec, rolling, failed, conn>>, trig' \in BOOLEAN PROVE FlagsTyped'
  BY <1>1, Zenon DEF FlagsTyped
<1>2. ASSUME UNCHANGED <<rec, rolling, failed, conn>>, UNCHANGED trigger PROVE FlagsTyped'
  BY <1>1, <1>2, Zenon DEF trigger, FlagsTyped
<1>3. CASE ServeTrigger \/ IgnoreTrigger
  BY <1>1, <1>3 DEF ServeTrigger, IgnoreTrigger, Ends
<1>4. CASE Shoot
  BY <1>1, <1>4 DEF Shoot, Numbered, trigger, FlagsTyped
<1>5. CASE ToggleMovie \/ FinalStop
  <2>1. (\E act : Toggled(act)) \/ UNCHANGED <<rec, rolling, failed>>
    BY <1>5 DEF ToggleMovie, FinalStop
  <2>2. UNCHANGED <<conn, trig>>
    BY <1>5 DEF ToggleMovie, FinalStop, Numbered, trigger
  <2>3. rec' \in BOOLEAN /\ rolling' \in BOOLEAN /\ failed' \in BOOLEAN
    BY <2>1, ToggledFlags, Zenon DEF FlagsTyped
  <2>4. QED
    BY <2>2, <2>3, Zenon DEF FlagsTyped
<1>6. CASE Detect \/ ActRaises \/ SequenceShot \/ SilentRefusal \/ Announce \/ Fetch \/ Notify
  BY <1>2, <1>6 DEF Ends, Detect, ActRaises, SequenceShot, SilentRefusal, Announce, Fetch, Notify
<1>7. CASE SequenceEnds \/ LoopEnds
  BY <1>2, <1>7 DEF SequenceEnds, LoopEnds
<1>8. CASE Exit
  BY <1>8, Zenon DEF Exit, FlagsTyped, trigger
<1>9. QED
  BY <1>3, <1>4, <1>5, <1>6, <1>7, <1>8 DEF Worker

LEMMA ToggledFiles ==
  ASSUME NEW act, Toggled(act)
  PROVE  due' \subseteq due \cup {act} /\ (act = 0 => due' = due)
BY DEF Toggled, MovieDue

LEMMA WorkerOwnTypes ==
  ASSUME TypeInv, Worker
  PROVE  WorkerTyped'
<1> DEFINE Stages == [pc : {"loop", "fire", "final", "last", "gone"}, for : SUBSET Purposes]
<1>0. WorkerTyped
  BY DEF TypeInv
<1>t. ASSUME seq' \in 0..MaxActs, expect' \in 0..MaxActs, queued' \subseteq Files,
             due' \subseteq 1..seq', w' \in Stages, asked' \subseteq Purposes
      PROVE  WorkerTyped'
  BY ONLY <1>t DEF WorkerTyped
<1>0a. /\ seq \in 0..MaxActs /\ expect \in 0..MaxActs /\ queued \subseteq Files
       /\ due \subseteq 1..seq /\ w \in Stages /\ asked \subseteq Purposes
  BY ONLY <1>0 DEF WorkerTyped
<1> HIDE DEF Stages
<1>3. CASE ServeTrigger \/ IgnoreTrigger \/ Detect \/ LoopEnds \/ Exit
  <2>1. w' \in Stages /\ asked' \subseteq Purposes
    BY <1>0a, <1>3 DEF ServeTrigger, IgnoreTrigger, Detect, LoopEnds, Exit, Stages, trigger
  <2>2. UNCHANGED <<seq, files>>
    BY <1>3 DEF ServeTrigger, IgnoreTrigger, Detect, LoopEnds, Exit
  <2>3. QED
    BY <1>0a, <1>t, <2>1, <2>2 DEF files
<1>n. ASSUME seq < MaxActs, seq' = Act
      PROVE  seq' = seq + 1 /\ seq' \in 0..MaxActs /\ Act \in 0..MaxActs
             /\ 1..seq \subseteq 1..seq' /\ Act \in 1..seq'
  BY <1>0a, <1>n, CaptureAssumption DEF Act
<1>4. ASSUME Numbered
      PROVE  /\ w' \in Stages /\ seq < MaxActs /\ seq' = Act
             /\ UNCHANGED <<trigger, queued>>
  <2>1. seq < MaxActs /\ seq' = Act /\ w' = [pc |-> "loop", for |-> {}]
        /\ UNCHANGED <<trigger, queued>>
    BY <1>4 DEF Numbered
  <2>2. w' \in Stages
    BY <1>0a, <2>1 DEF Stages
  <2>3. QED
    BY <2>1, <2>2
<1>5. CASE Shoot
  <2>1. Numbered /\ due' \subseteq due \cup {Act} /\ expect' \in {expect, Act}
    BY <1>5 DEF Shoot
  <2>2. due' \subseteq 1..seq'
    BY <1>0a, <1>4, <1>n, <2>1
  <2>3. QED
    BY <1>0a, <1>4, <1>n, <1>t, <2>1, <2>2 DEF trigger
<1>6. CASE ToggleMovie
  <2>1. Numbered /\ due' \subseteq due \cup {Act} /\ expect' = expect
    BY <1>6, ToggledFiles DEF ToggleMovie
  <2>2. due' \subseteq 1..seq'
    BY <1>0a, <1>4, <1>n, <2>1
  <2>3. QED
    BY <1>0a, <1>4, <1>n, <1>t, <2>1, <2>2 DEF trigger
<1>6a. CASE ActRaises
  <2>1. seq < MaxActs /\ seq' = Act /\ w' = [pc |-> "final", for |-> {}]
        /\ UNCHANGED <<trigger, files>>
    BY <1>6a DEF ActRaises
  <2>2. w' \in Stages
    BY <2>1 DEF Stages
  <2>3. due' \subseteq 1..seq'
    BY <1>0a, <1>n, <2>1 DEF files
  <2>4. QED
    BY <1>0a, <1>n, <1>t, <2>1, <2>2, <2>3 DEF trigger, files
<1>6b. CASE SequenceShot
  <2>1. /\ seq < MaxActs /\ seq' = Act /\ due' \subseteq due \cup {Act} /\ expect' \in {expect, Act}
        /\ UNCHANGED <<trigger, queued, w>>
    BY <1>6b DEF SequenceShot
  <2>2. due' \subseteq 1..seq'
    BY <1>0a, <1>n, <2>1
  <2>3. QED
    BY <1>0a, <1>n, <1>t, <2>1, <2>2 DEF trigger
<1>7. CASE SilentRefusal
  <2>1. expect' = 0 /\ UNCHANGED <<trigger, seq, queued, due, w>>
    BY <1>7 DEF SilentRefusal
  <2>2. QED
    BY <1>0a, <1>t, <2>1, CaptureAssumption DEF trigger
<1>8. CASE Announce
  <2>1. PICK act \in due : due' = due \ {act} /\ queued' = queued \cup {[act |-> act, stamp |-> seq]}
    BY <1>8 DEF Announce
  <2>2. expect' = 0 /\ UNCHANGED <<trigger, seq, w>>
    BY <1>8 DEF Announce
  <2>3. act \in 1..MaxActs /\ seq \in 1..MaxActs
    BY <1>0a, CaptureAssumption
  <2>4. [act |-> act, stamp |-> seq] \in Files
    BY <2>3 DEF Files
  <2>5. QED
    BY <1>0a, <1>t, <2>1, <2>2, <2>4, CaptureAssumption DEF trigger
<1>9. CASE Fetch \/ Notify \/ SequenceEnds
  <2>1. queued' \subseteq queued /\ UNCHANGED <<trigger, seq, expect, due, w>>
    BY <1>9 DEF Fetch, Notify, SequenceEnds, files
  <2>2. QED
    BY <1>0a, <1>t, <2>1 DEF trigger
<1>11. CASE FinalStop
  <2>1. /\ w' = [w EXCEPT !.pc = "last"]
        /\ due' = due /\ UNCHANGED <<trigger, seq, expect, queued>>
    BY <1>11, ToggledFiles DEF FinalStop
  <2>2. w' \in Stages
    BY <1>0a, <2>1 DEF Stages
  <2>3. QED
    BY <1>0a, <1>t, <2>1, <2>2 DEF trigger
<1>12. QED
  BY <1>3, <1>5, <1>6, <1>6a, <1>6b, <1>7, <1>8, <1>9, <1>11 DEF Worker

\* The detection and the sequence: an end of the sequence restores Auto-Fire.
LEMMA WorkerDetection ==
  ASSUME Worker
  PROVE  \/ UNCHANGED <<det, interval>>
         \/ SequenceOver
<1>1. QED
  BY DEF Worker, ServeTrigger, IgnoreTrigger, Detect, Shoot, ToggleMovie, ActRaises, SequenceShot,
     SequenceEnds, Numbered, SilentRefusal, Announce, Fetch, Notify, LoopEnds, FinalStop, Exit,
     Ends, Alone

LEMMA WorkerHosting ==
  ASSUME Worker
  PROVE  Hosting
BY DEF Worker, ServeTrigger, IgnoreTrigger, Detect, Shoot, ToggleMovie, ActRaises, SequenceShot,
   SequenceEnds, Numbered, SilentRefusal, Announce, Fetch, Notify, LoopEnds, FinalStop, Exit

LEMMA WorkerTypes ==
  ASSUME TypeInv, Worker
  PROVE  FlagsTyped' /\ WorkerTyped' /\ HostTyped' /\ ReaderTyped' /\ UNCHANGED call
<1>0. FlagsTyped /\ HostTyped /\ ReaderTyped
  BY DEF TypeInv
<1>1. Hosting
  BY WorkerHosting
<1>2. det' \in {"off", "monitor", "auto"} /\ interval' \in {"none", "arming", "running", "demoted"}
  BY <1>0, WorkerDetection DEF HostTyped, SequenceOver
<1>3. misfired' \in BOOLEAN
  <2>1. UNCHANGED misfired \/ misfired' = (misfired \/ "stop_recording" \in w.for)
    BY DEF Worker, ServeTrigger, IgnoreTrigger, Detect, Shoot, ToggleMovie, ActRaises, SequenceShot,
       SequenceEnds, Numbered, SilentRefusal, Announce, Fetch, Notify, LoopEnds, FinalStop, Exit, Ends
  <2>2. QED
    BY <1>0, <2>1 DEF HostTyped
<1>4. HostTyped' /\ ReaderTyped' /\ UNCHANGED call
  BY <1>0, <1>1, <1>2, <1>3 DEF Hosting, HostTyped, ReaderTyped, readerVars
<1>5. QED
  BY <1>0, <1>4, WorkerFlags, WorkerOwnTypes

\* The consumer reads a page, then the session, then the window.
LEMMA ReaderTypes ==
  ASSUME TypeInv, ReaderStep
  PROVE  ReaderTyped' /\ UNCHANGED logVars
<1>0. LogTyped /\ LogRun /\ ReaderTyped /\ reader.cursor \in Nat
  BY LogAssumption DEF TypeInv, ReaderTyped
<1>1. epoch \in 0..MaxEpochs /\ counter \in 0..MaxEvents /\ 0 \in 0..MaxEvents
  BY LogAssumption DEF TypeInv, LogTyped
<1>2. CASE StartReading
  <2>1. PICK start \in {0, Watermark} :
          /\ reader' = [reader EXCEPT !.pc = "idle", !.cursor = start, !.home = epoch]
          /\ excused' = 1..start
    BY <1>2 DEF StartReading
  <2>2. start \in 0..MaxEvents
    BY <1>0, <1>1, <2>1, WatermarkNewest
  <2>3. 1..start \subseteq 1..MaxEvents
    BY <2>2, LogAssumption
  <2> HIDE DEF Watermark
  <2>4. QED
    BY <1>0, <1>1, <1>2, <2>1, <2>2, <2>3 DEF StartReading, ReaderTyped
<1>3. CASE ReadEvents
  <2>1. PageIds = {} \/ \E hi \in 1..counter : PageFirst <= hi /\ PageIds = PageFirst..hi
    BY <1>0, PageRun
  <2>2. PageFirst \in Nat \ {0} \/ PageIds = {}
    <3>1. Len(log) \in Nat
      BY <1>0, LenProperties DEF LogTyped
    <3>2. QED
      BY <1>0, <1>1, <3>1, LogAssumption DEF PageFirst, Gone
  <2>3. PageIds # {} => Max(PageIds) \in 0..MaxEvents /\ PageIds \subseteq 1..MaxEvents
                        /\ 1..(Min(PageIds) - 1) \subseteq 1..MaxEvents
    <3>1. SUFFICES ASSUME NEW hi \in 1..counter, PageFirst <= hi, PageIds = PageFirst..hi,
                          PageFirst \in Nat \ {0}
                   PROVE  Max(PageIds) \in 0..MaxEvents /\ PageIds \subseteq 1..MaxEvents
                          /\ 1..(Min(PageIds) - 1) \subseteq 1..MaxEvents
      BY <2>1, <2>2
    <3>2. hi \in Int /\ hi <= MaxEvents
      BY <1>1, LogAssumption
    <3>3. Max(PageIds) = hi /\ Min(PageIds) = PageFirst
      BY <3>1, <3>2, RunMaxMin
    <3>4. PageIds \subseteq 1..MaxEvents
      BY <3>1, <3>2, LogAssumption
    <3>5. 1..(PageFirst - 1) \subseteq 1..MaxEvents
      BY <3>1, <3>2, LogAssumption
    <3>6. hi \in 0..MaxEvents
      BY <3>1, <3>2
    <3>7. QED
      BY <3>3, <3>4, <3>5, <3>6
  <2>4. /\ reader' = [reader EXCEPT !.pc = "session",
                        !.last = IF PageIds = {} THEN reader.cursor ELSE Max(PageIds)]
        /\ seen' \subseteq seen \cup PageIds
        /\ excused' = excused \/ (PageIds # {} /\ excused' = excused \cup 1..(Min(PageIds) - 1))
        /\ UNCHANGED logVars
    BY <1>3 DEF ReadEvents, PageIds
  <2>5. QED
    BY <1>0, <2>3, <2>4 DEF ReaderTyped
<1>4. CASE ReadSession
  BY <1>0, <1>1, <1>4 DEF ReadSession, ReaderTyped
<1>5. CASE ReadWindow
  <2>1. Evicted \subseteq 1..MaxEvents
    <3>1. log # <<>> => log[1].id \in 1..MaxEvents
      <4>1. log # <<>> => 1 \in 1..Len(log)
        BY <1>0, EmptySeq, LenProperties DEF LogTyped
      <4>2. \A i \in 1..Len(log) : log[i] \in Events
        BY <1>0, ElementOfSeq DEF LogTyped
      <4>3. QED
        BY ONLY <4>1, <4>2 DEF Events
    <3>2. QED
      BY <1>0, <1>1, <3>1, LogAssumption DEF Evicted
  <2>2. 0 \in 0..MaxEpochs
    BY <1>1, LogAssumption
  <2>3. /\ reader'.pc = "idle" /\ reader'.known = reader.told
        /\ reader'.cursor \in {0, reader.last} /\ reader'.home \in {reader.told, reader.home}
        /\ reader' = [reader EXCEPT !.pc = "idle", !.known = reader.told,
                        !.cursor = reader'.cursor, !.home = reader'.home]
        /\ seen' \subseteq seen /\ excused' \subseteq excused \cup Evicted
        /\ UNCHANGED logVars
    BY <1>0, <1>5 DEF ReadWindow, ReaderTyped
  <2>4. QED
    BY <1>0, <1>1, <2>1, <2>3 DEF ReaderTyped
<1>6. QED
  BY <1>2, <1>3, <1>4, <1>5 DEF ReaderStep, StartReading, logVars

\* How a step may change the log: it grows at its end, is cleared, or starts
\* the ids of a new session.
LogForward ==
  /\ LogTyped' /\ LogRun'
  /\ (epoch' = epoch /\ Gone' >= Gone) \/ epoch' = epoch + 1

LEMMA SameLog ==
  ASSUME LogTyped, LogRun, UNCHANGED logVars
  PROVE  LogForward
<1>1. LogTyped' /\ LogRun' /\ Gone' = Gone
  BY DEF LogTyped, LogRun, logVars, Gone
<1>2. Gone \in Int
  BY LenProperties DEF LogTyped, Gone
<1>3. QED
  BY <1>1, <1>2 DEF LogForward, logVars

LEMMA ReportsForward ==
  ASSUME LogTyped, LogRun, LogsReports
  PROVE  LogForward
BY SameLog, Appended DEF LogsReports, LogForward

LEMMA TypeStep ==
  ASSUME TypeInv, [Next]_vars
  PROVE  TypeInv' /\ LogForward
<1>0. LogTyped /\ LogRun /\ ReaderTyped /\ CallsTyped /\ FlagsTyped /\ WorkerTyped /\ HostTyped
  BY DEF TypeInv
<1>k. ASSUME UNCHANGED <<usage, camera, stopReq, det, mode, rec, trigger, seq, files, rolling,
                         interval, w, lock, call, history>>
      PROVE  CallsTyped' /\ FlagsTyped' /\ WorkerTyped' /\ HostTyped'
  <2>1. CallsTyped' /\ HostTyped'
    BY <1>0, <1>k DEF CallsTyped, HostTyped, history, camera
  <2>2. FlagsTyped'
    BY <1>0, <1>k, Zenon DEF FlagsTyped, trigger, history, camera
  <2>3. WorkerTyped'
    BY <1>0, <1>k DEF WorkerTyped, trigger, files
  <2>4. QED
    BY <2>1, <2>2, <2>3
<1>1. CASE \E h \in Hosts : Call(h)
  <2> SUFFICES ASSUME NEW h \in Hosts, Call(h) PROVE TypeInv' /\ LogForward
    BY <1>1
  <2>1. Body
    BY CallFrame
  <2>2. CallsTyped' /\ HostTyped' /\ trig' \in BOOLEAN /\ asked' \subseteq Purposes
    BY CallsStep, HostStep
  <2>3. ReaderTyped' /\ LogForward
    BY <1>0, <2>1, SameLog DEF Body, ReaderTyped, readerVars
  <2>4. FlagsTyped'
    BY <1>0, <2>1, <2>2, Zenon DEF Body, FlagsTyped, camera
  <2>5. WorkerTyped'
    BY <1>0, <2>1, <2>2 DEF Body, WorkerTyped, files
  <2>6. QED
    BY <2>2, <2>3, <2>4, <2>5 DEF TypeInv, LogForward
<1>2. CASE Disarm \/ SelectBurst \/ Close
  <2>1. Body /\ UNCHANGED <<trigger, lock, call, strayed, barred, misled>>
        /\ stopReq' \in BOOLEAN /\ det' \in {"off", "monitor", "auto"} /\ mode' \in Modes
    BY <1>0, <1>2 DEF Disarm, SelectBurst, Close, HostTyped, Modes
  <2>2. ReaderTyped' /\ LogForward
    BY <1>0, <2>1, SameLog DEF Body, ReaderTyped, readerVars
  <2>3. CallsTyped' /\ HostTyped'
    BY <1>0, <2>1 DEF CallsTyped, HostTyped, Body, camera
  <2>4. FlagsTyped'
    BY <1>0, <2>1, Zenon DEF Body, FlagsTyped, trigger, camera
  <2>5. WorkerTyped'
    BY <1>0, <2>1 DEF Body, WorkerTyped, files, trigger
  <2>6. QED
    BY <2>2, <2>3, <2>4, <2>5 DEF TypeInv, LogForward
<1>2a. CASE JoinGivesUp \/ ValidateSequence \/ ArmSequence
  <2>1. /\ UNCHANGED <<readerVars, usage, confirms, stopReq, mode, rec, trigger, seq, files, rolling,
                       w, lock, call, history>>
        /\ conn' \in BOOLEAN /\ adapter' \in BOOLEAN
        /\ interval' \in {"none", "arming", "running", "demoted"}
        /\ det' \in {"off", "monitor", "auto"}
    <3>1. conn' \in BOOLEAN
      BY <1>0, <1>2a, Zenon DEF JoinGivesUp, ValidateSequence, ArmSequence, camera, FlagsTyped
    <3>2. QED
      BY <1>0, <1>2a, <3>1 DEF JoinGivesUp, ValidateSequence, ArmSequence, camera, HostTyped
  <2>2. LogForward
    <3>1. Event("trigger", 0, 0) \in NewReports
      BY Unrelated DEF Kinds
    <3>2. LogsReports
      BY <1>2a, <3>1, ReportsOne DEF JoinGivesUp, ValidateSequence, ArmSequence, LogsReports
    <3>3. QED
      BY <1>0, <3>2, ReportsForward
  <2>3. ReaderTyped' /\ CallsTyped' /\ HostTyped'
    BY <1>0, <2>1 DEF CallsTyped, HostTyped, ReaderTyped, readerVars, history
  <2>4. FlagsTyped'
    BY <1>0, <2>1, Zenon DEF FlagsTyped, trigger, history
  <2>5. WorkerTyped'
    BY <1>0, <2>1 DEF WorkerTyped, files, trigger
  <2>6. QED
    BY <2>2, <2>3, <2>4, <2>5 DEF TypeInv, LogForward
<1>3. CASE Connect
  <2>1. LogTyped' /\ LogRun' /\ epoch' = epoch + 1
    <3>1. log' = <<>> /\ counter' = 0 /\ epoch' = epoch + 1 /\ epoch < MaxEpochs
      BY <1>3 DEF Connect, NewSession
    <3>2. counter' \in 0..MaxEvents /\ epoch' \in 1..MaxEpochs
      BY <1>0, <3>1, LogAssumption DEF LogTyped
    <3>3. QED
      BY <1>0, <3>1, <3>2, Cleared
  <2>2. /\ conn' = TRUE /\ adapter' = TRUE /\ stopReq' = FALSE /\ trig' = FALSE /\ asked' = {}
        /\ seq' = 0 /\ rolling' \in {rolling, FALSE} /\ due' = {}
        /\ w' = [pc |-> "loop", for |-> {}]
        /\ UNCHANGED <<readerVars, usage, confirms, det, mode, rec, expect, queued, interval, lock,
                       call, history>>
    BY <1>3 DEF Connect
  <2>3. FlagsTyped'
    BY <1>0, <2>2, Zenon DEF FlagsTyped, history
  <2>4. WorkerTyped'
    BY <1>0, <2>2, CaptureAssumption DEF WorkerTyped
  <2>5. CallsTyped' /\ HostTyped' /\ ReaderTyped'
    BY <1>0, <2>2 DEF CallsTyped, HostTyped, ReaderTyped, history, readerVars
  <2>6. QED
    BY <2>1, <2>3, <2>4, <2>5 DEF TypeInv, LogForward
<1>4. CASE Worker
  <2>1. LogForward
    BY <1>0, <1>4, WorkerLog, ReportsForward
  <2>2. QED
    BY <1>0, <1>4, <2>1, WorkerTypes DEF TypeInv, LogForward, CallsTyped
<1>5. CASE Reads
  <2>1. CASE ReaderStep
    BY <1>0, <1>5, <1>k, <2>1, ReaderTypes, SameLog DEF Reads, TypeInv, LogForward
  <2>2. CASE ClearEvents
    <3>1. log' = <<>> /\ counter' = counter /\ epoch' = epoch /\ UNCHANGED readerVars
      BY <2>2 DEF ClearEvents
    <3>2. LogTyped' /\ LogRun' /\ Gone' = counter
      BY <1>0, <3>1, Cleared DEF LogTyped
    <3>3. Gone' >= Gone
      <4>1. Len(log) \in Nat /\ counter \in Nat
        BY <1>0, LenProperties DEF LogTyped
      <4>2. QED
        BY <3>2, <4>1 DEF Gone
    <3>4. ReaderTyped'
      BY <1>0, <3>1 DEF ReaderTyped, readerVars
    <3>5. QED
      BY <1>5, <1>k, <3>1, <3>2, <3>3, <3>4 DEF Reads, TypeInv, LogForward
  <2>3. QED
    BY <1>5, <2>1, <2>2 DEF Reads
<1>6. CASE UNCHANGED vars
  BY <1>0, <1>6, <1>k, SameLog DEF vars, TypeInv, ReaderTyped, readerVars, LogForward
<1>7. QED
  BY <1>1, <1>2, <1>2a, <1>3, <1>4, <1>5, <1>6 DEF Next

LEMMA TypeInit == Init => TypeInv
<1> SUFFICES ASSUME Init PROVE TypeInv
  OBVIOUS
<1>1. LogTyped /\ LogRun
  BY EmptySeq, LogAssumption DEF Init, LogInit, LogTyped, LogRun
<1>2. ReaderTyped
  BY LogAssumption DEF Init, LogInit, ReaderTyped
<1>3. CallsTyped
  BY IdleIsACall DEF Init, CallsTyped
<1>4. FlagsTyped
  BY DEF Init, FlagsTyped
<1>5. WorkerTyped
  BY CaptureAssumption DEF Init, WorkerTyped
<1>6. HostTyped
  BY DEF Init, HostTyped, Modes
<1>7. QED
  BY <1>1, <1>2, <1>3, <1>4, <1>5, <1>6 DEF TypeInv

LEMMA Typed == Spec => []TypeInv
<1>1. TypeInv /\ [Next]_vars => TypeInv'
  BY TypeStep
<1>2. QED
  BY <1>1, TypeInit, PTL DEF Spec

\* The variables stay in their types, whatever the sizes of the log and of a
\* page: the cursor a page ends at, the window of the ids that are gone and the
\* stamps a file carries (_append_event, get_events, _announce_file_added).
THEOREM CallsAndLogTyped == Spec => []TypeOK
BY Typed, TypeInvIsStronger, PTL

-----------------------------------------------------------------------------
(***************************************************************************)
(* No silent gap.  Between the three reads the cursor has not moved yet, and  *)
(* what the page skipped is gone from the log for good: it is in the window   *)
(* the last of them names.                                                    *)
(***************************************************************************)
Skipped == IF reader.cursor = 0 THEN {} ELSE (reader.cursor + 1)..Gone

ReaderInv ==
  /\ reader.home <= epoch /\ reader.told <= epoch
  /\ reader.pc = "window" => reader.home <= reader.told
  /\ reader.home = epoch => 1..reader.cursor \subseteq seen \cup excused
  /\ (reader.home = epoch /\ reader.pc \in {"session", "window"})
       => 1..reader.last \subseteq seen \cup excused \cup Skipped

LEMMA ReaderForward ==
  ASSUME TypeInv, ReaderInv, LogForward, UNCHANGED readerVars
  PROVE  ReaderInv'
<1>0. ReaderTyped /\ epoch \in Nat /\ Gone \in Int /\ Gone' \in Int
  <2>1. Len(log) \in Nat /\ counter \in Nat /\ epoch \in Nat
    BY LenProperties DEF TypeInv, LogTyped
  <2>2. Len(log') \in Nat /\ counter' \in Nat
    BY LenProperties DEF LogForward, LogTyped
  <2>3. QED
    BY <2>1, <2>2 DEF TypeInv, Gone
<1>1. reader' = reader /\ seen' = seen /\ excused' = excused
  BY DEF readerVars
<1>2. reader.home \in Nat /\ reader.told \in Nat /\ reader.cursor \in Nat
  BY <1>0, LogAssumption DEF ReaderTyped
<1>3. CASE epoch' = epoch + 1
  BY <1>0, <1>1, <1>2, <1>3 DEF ReaderInv
<1>4. CASE epoch' = epoch /\ Gone' >= Gone
  <2>1. Skipped \subseteq Skipped'
    BY <1>0, <1>1, <1>2, <1>4 DEF Skipped
  <2>2. QED
    BY <1>1, <1>4, <2>1 DEF ReaderInv
<1>5. QED
  BY <1>3, <1>4 DEF LogForward

\* What get_events() says is gone is what its page skipped.
LEMMA EvictedIsSkipped ==
  ASSUME TypeInv
  PROVE  Evicted = Skipped
<1>1. Len(log) \in Nat /\ DOMAIN log = 1..Len(log) /\ counter \in Nat /\ (log = <<>> <=> Len(log) = 0)
  BY LenProperties, EmptySeq DEF TypeInv, LogTyped
<1>2. CASE log = <<>>
  <2>1. Gone = counter
    BY <1>1, <1>2 DEF Gone
  <2>2. QED
    BY <1>2, <2>1 DEF Evicted, Skipped
<1>3. CASE log # <<>>
  <2>1. log[1].id = Gone + 1
    BY <1>1, <1>3 DEF TypeInv, LogRun
  <2>2. log[1].id - 1 = Gone
    BY <1>1, <2>1 DEF Gone
  <2>3. QED
    BY <1>3, <2>2 DEF Evicted, Skipped
<1>4. QED
  BY <1>2, <1>3

LEMMA ReaderActs ==
  ASSUME TypeInv, ReaderInv, ReaderStep
  PROVE  ReaderInv'
<1>0. LogTyped /\ LogRun /\ ReaderTyped
  BY DEF TypeInv
<1>1. /\ reader.cursor \in Nat /\ reader.last \in Nat /\ reader.home \in Nat /\ reader.told \in Nat
      /\ epoch \in Nat /\ counter \in Nat /\ Len(log) \in Nat
  BY <1>0, LenProperties, LogAssumption DEF ReaderTyped, LogTyped
<1>2. log' = log /\ counter' = counter /\ epoch' = epoch /\ Gone' = Gone /\ Gone \in Int
  BY <1>1, ReaderTypes DEF logVars, Gone
<1>3. CASE StartReading
  <2>1. PICK start \in {0, Watermark} :
          /\ reader' = [reader EXCEPT !.pc = "idle", !.cursor = start, !.home = epoch]
          /\ excused' = 1..start
    BY <1>3 DEF StartReading
  <2>2. reader'.cursor = start /\ reader'.home = epoch /\ reader'.told = reader.told
        /\ reader'.pc = "idle"
    BY <1>0, <2>1 DEF ReaderTyped
  <2>3. QED
    BY <1>1, <1>2, <2>1, <2>2 DEF ReaderInv
<1>4. CASE ReadEvents
  <2> DEFINE last == IF PageIds = {} THEN reader.cursor ELSE Max(PageIds)
  <2>1. /\ reader' = [reader EXCEPT !.pc = "session", !.last = last]
        /\ seen' = (IF reader.home = epoch THEN seen \cup PageIds ELSE seen)
        /\ excused' = IF reader.cursor = 0 /\ PageIds # {} THEN excused \cup 1..(Min(PageIds) - 1)
                      ELSE excused
    BY <1>4 DEF ReadEvents, PageIds
  <2>2. /\ reader'.pc = "session" /\ reader'.last = last /\ reader'.cursor = reader.cursor
        /\ reader'.home = reader.home /\ reader'.told = reader.told
    BY <1>0, <2>1 DEF ReaderTyped
  <2> HIDE DEF last
  <2>3. Skipped' = Skipped
    BY <1>2, <2>2 DEF Skipped
  <2>4. CASE reader.home = epoch
    <3>1. 1..reader.cursor \subseteq seen' \cup excused'
      BY <2>1, <2>4 DEF ReaderInv
    <3>2. 1..last \subseteq seen' \cup excused' \cup Skipped
      <4>1. CASE PageIds = {}
        BY <3>1, <4>1 DEF last
      <4>2. CASE PageIds # {}
        <5>1. PICK hi \in 1..counter : PageFirst <= hi /\ PageIds = PageFirst..hi
          BY <1>0, <1>1, <4>2, PageRun
        <5>2. hi \in Int /\ PageFirst \in Int
          BY <1>1, <1>2 DEF PageFirst
        <5>3. last = hi /\ Min(PageIds) = PageFirst
          BY <4>2, <5>1, <5>2, RunMaxMin DEF last
        <5>4. ASSUME NEW x \in 1..hi PROVE x \in seen' \cup excused' \cup Skipped
          <6>1. CASE x >= PageFirst
            <7>1. x \in PageIds
              BY <5>1, <5>2, <6>1
            <7>2. QED
              BY <2>1, <2>4, <7>1
          <6>2. CASE x < PageFirst /\ reader.cursor = 0
            <7>1. x \in 1..(PageFirst - 1)
              BY <5>2, <6>2
            <7>2. QED
              BY <2>1, <4>2, <5>3, <6>2, <7>1
          <6>3. CASE x < PageFirst /\ reader.cursor # 0 /\ x <= reader.cursor
            BY <1>1, <3>1, <6>3
          <6>4. CASE x < PageFirst /\ reader.cursor # 0 /\ x > reader.cursor
            BY <1>1, <1>2, <6>4 DEF PageFirst, Skipped
          <6>5. QED
            BY <1>1, <5>2, <6>1, <6>2, <6>3, <6>4
        <5>5. QED
          BY <5>3, <5>4
      <4>3. QED
        BY <4>1, <4>2
    <3>3. QED
      BY <1>2, <2>2, <2>3, <3>1, <3>2 DEF ReaderInv
  <2>5. CASE reader.home # epoch
    BY <1>2, <2>2, <2>5 DEF ReaderInv
  <2>6. QED
    BY <2>4, <2>5
<1>5. CASE ReadSession
  <2>1. /\ reader'.pc = "window" /\ reader'.told = epoch /\ reader'.cursor = reader.cursor
        /\ reader'.last = reader.last /\ reader'.home = reader.home
        /\ seen' = seen /\ excused' = excused /\ reader.pc = "session"
    BY <1>0, <1>5 DEF ReadSession, ReaderTyped
  <2>2. Skipped' = Skipped
    BY <1>2, <2>1 DEF Skipped
  <2>3. QED
    BY <1>1, <1>2, <2>1, <2>2 DEF ReaderInv
<1>6. CASE ReadWindow
  <2> DEFINE changed == reader.known # 0 /\ reader.told # reader.known
  <2>1. /\ reader'.pc = "idle" /\ reader'.told = reader.told /\ reader.pc = "window"
        /\ reader'.cursor = (IF changed THEN 0 ELSE reader.last)
        /\ reader'.home = (IF changed THEN reader.told ELSE reader.home)
        /\ seen' = (IF changed THEN {} ELSE seen)
        /\ excused' = (IF changed THEN {} ELSE excused \cup Evicted)
    BY <1>0, <1>6 DEF ReadWindow, ReaderTyped
  <2> HIDE DEF changed
  <2>2. CASE changed
    BY <1>1, <1>2, <2>1, <2>2 DEF ReaderInv
  <2>3. CASE ~changed
    <3>1. Evicted = Skipped
      BY EvictedIsSkipped
    <3>2. QED
      BY <1>2, <2>1, <2>3, <3>1 DEF ReaderInv
  <2>4. QED
    BY <2>2, <2>3
<1>7. QED
  BY <1>3, <1>4, <1>5, <1>6 DEF ReaderStep

LEMMA ReaderKnows == Spec => []ReaderInv
<1>1. Init => ReaderInv
  <2> SUFFICES ASSUME Init PROVE ReaderInv
    OBVIOUS
  <2>1. reader.home = 0 /\ reader.told = 0 /\ reader.pc = "new" /\ epoch = 1
    BY DEF Init, LogInit
  <2>2. QED
    BY <2>1 DEF ReaderInv
<1>2. TypeInv /\ ReaderInv /\ [Next]_vars => ReaderInv'
  <2> SUFFICES ASSUME TypeInv, ReaderInv, [Next]_vars PROVE ReaderInv'
    OBVIOUS
  <2>1. CASE ReaderStep
    BY <2>1, ReaderActs
  <2>2. CASE UNCHANGED readerVars
    BY <2>2, TypeStep, ReaderForward
  <2>3. readerVars' = readerVars \/ ReaderStep
    <3>1. ASSUME NEW h \in Hosts, Call(h) PROVE UNCHANGED readerVars
      BY <3>1, CallFrame DEF Body
    <3>2. CASE Disarm \/ SelectBurst \/ Close \/ JoinGivesUp \/ Connect \/ ValidateSequence \/ ArmSequence
      BY <3>2 DEF Disarm, SelectBurst, Close, JoinGivesUp, Connect, ValidateSequence, ArmSequence, Body
    <3>3. CASE Worker
      BY <3>3, WorkerHosting DEF Hosting
    <3>4. CASE Reads
      BY <3>4 DEF Reads, ClearEvents
    <3>5. QED
      BY <3>1, <3>2, <3>3, <3>4 DEF Next, vars
  <2>4. QED
    BY <2>1, <2>2, <2>3
<1>3. QED
  BY <1>1, <1>2, Typed, PTL DEF Spec

\* A consumer of get_events() that follows the cursor rules is given every event
\* of the session or told it is gone, whatever the size of the log and of a page:
\* eviction, clear_events() and reconnections between its reads included.
THEOREM GapsAreTold == Spec => []NoSilentGap
<1>1. ReaderInv => NoSilentGap
  BY DEF ReaderInv, NoSilentGap
<1>2. QED
  BY <1>1, ReaderKnows, PTL

-----------------------------------------------------------------------------
(***************************************************************************)
(* The end of a session.  Of a body that confirms, and whose last movie       *)
(* command did not raise, the flag of the worker never says less than the     *)
(* body does: the final stop has something to go by.                          *)
(***************************************************************************)
FilmInv ==
  /\ (confirms /\ ~failed /\ rolling) => rec
  /\ (w.pc \in {"last", "gone"} /\ adapter /\ rec) => failed

\* Where each step of the worker leaves it.
LEMMA WorkerPlaces ==
  ASSUME TypeInv
  PROVE  /\ ServeTrigger => w.pc = "loop" /\ w'.pc = "fire" /\ w'.for = asked
         /\ Detect => w.pc = "loop" /\ w'.pc = "fire" /\ w'.for = {}
         /\ Shoot \/ ToggleMovie => w.pc = "fire" /\ w'.pc = "loop"
         /\ ActRaises => w.pc \in {"loop", "fire"} /\ w'.pc = "final"
         /\ IgnoreTrigger \/ SequenceShot \/ SequenceEnds => w.pc = "loop" /\ w' = w
         /\ SilentRefusal \/ Announce \/ Fetch \/ Notify => w' = w
         /\ LoopEnds => w.pc = "loop" /\ w'.pc = "final"
         /\ FinalStop => w.pc = "final" /\ w'.pc = "last"
         /\ Exit => w.pc = "last" /\ w'.pc = "gone"
<1>0. WorkerTyped
  BY DEF TypeInv
<1>1. /\ ServeTrigger => w.pc = "loop" /\ w'.pc = "fire" /\ w'.for = asked
      /\ Detect => w.pc = "loop" /\ w'.pc = "fire" /\ w'.for = {}
  BY DEF ServeTrigger, Detect
<1>2. /\ Shoot \/ ToggleMovie => w.pc = "fire" /\ w'.pc = "loop"
      /\ ActRaises => w.pc \in {"loop", "fire"} /\ w'.pc = "final"
  BY DEF Shoot, ToggleMovie, Numbered, ActRaises
<1>3. /\ IgnoreTrigger \/ SequenceShot \/ SequenceEnds => w.pc = "loop" /\ w' = w
      /\ SilentRefusal \/ Announce \/ Fetch \/ Notify => w' = w
  BY DEF IgnoreTrigger, SequenceShot, SequenceEnds, SilentRefusal, Announce, Fetch, Notify
<1>4. /\ LoopEnds => w.pc = "loop" /\ w'.pc = "final"
      /\ FinalStop => w.pc = "final" /\ w'.pc = "last"
      /\ Exit => w.pc = "last" /\ w'.pc = "gone"
  BY <1>0 DEF LoopEnds, FinalStop, Exit, WorkerTyped
<1>5. QED
  BY <1>1, <1>2, <1>3, <1>4

\* The steps of the worker that command no recording.
LEMMA StillSteps ==
  ASSUME Worker, ~ToggleMovie, ~FinalStop
  PROVE  UNCHANGED <<rec, rolling, failed>>
BY DEF Worker, ServeTrigger, IgnoreTrigger, Detect, Shoot, ActRaises, SequenceShot, SequenceEnds,
   SilentRefusal, Announce, Fetch, Notify, LoopEnds, Exit, Ends

LEMMA FilmStep ==
  ASSUME TypeInv, FilmInv, [Next]_vars
  PROVE  FilmInv'
<1>0. FlagsTyped /\ WorkerTyped
  BY DEF TypeInv
<1>1. ASSUME UNCHANGED <<confirms, rec, rolling, failed>>, adapter' => adapter,
             w'.pc = w.pc \/ w'.pc \notin {"last", "gone"} \/ w.pc = "last"
      PROVE  FilmInv'
  <2>1. w'.pc \in {"last", "gone"} => w.pc \in {"last", "gone"}
    BY <1>1
  <2>2. QED
    BY <1>1, <2>1, Zenon DEF FilmInv
<1>2. ASSUME NEW act, Toggled(act), confirms' = confirms
      PROVE  ((confirms' /\ ~failed' /\ rolling') => rec') /\ ((rec /\ rec') => failed')
  <2>1. \/ rec' = ~rec /\ (confirms => rolling' = ~rec)
        \/ ~rec /\ rec' = rec /\ rolling' = rolling /\ failed' = failed
        \/ failed' = TRUE
    BY <1>2 DEF Toggled
  <2>2. CASE rec' = ~rec /\ (confirms => rolling' = ~rec)
    BY ONLY <1>2, <2>2
  <2>3. CASE ~rec /\ rec' = rec /\ rolling' = rolling /\ failed' = failed
    BY ONLY <1>2, <2>3, FilmInv, Zenon DEF FilmInv
  <2>4. CASE failed' = TRUE
    BY ONLY <2>4
  <2>5. QED
    BY <2>1, <2>2, <2>3, <2>4
<1>3. ASSUME NEW h \in Hosts, Call(h) PROVE FilmInv'
  <2>1. UNCHANGED <<confirms, adapter, rec, rolling, failed, w>>
    BY <1>3, CallFrame DEF Body, camera
  <2>2. QED
    BY <1>1, <2>1
<1>4. CASE Disarm \/ SelectBurst \/ Close \/ JoinGivesUp \/ ValidateSequence \/ ArmSequence
           \/ Reads \/ UNCHANGED vars
  <2>1. UNCHANGED <<confirms, rec, rolling, failed, w>> /\ (adapter' => adapter)
    BY <1>4 DEF Disarm, SelectBurst, Close, JoinGivesUp, ValidateSequence, ArmSequence, Reads, vars,
       Body, history, camera
  <2>2. QED
    BY <1>1, <2>1
<1>5. CASE Connect
  <2>1. w'.pc = "loop" /\ UNCHANGED <<rec, failed, confirms>> /\ rolling' \in {rolling, FALSE}
    BY <1>5 DEF Connect, history
  <2>2. w'.pc \notin {"last", "gone"}
    BY <2>1
  <2>3. rolling' => rolling
    BY <2>1
  <2>4. QED
    BY <2>1, <2>2, <2>3, Zenon DEF FilmInv
<1>6. CASE Worker
  <2>0. UNCHANGED <<confirms, adapter>>
    BY <1>6, WorkerHosting DEF Hosting
  <2>1. CASE ~ToggleMovie /\ ~FinalStop
    <3>1. UNCHANGED <<rec, rolling, failed>>
      BY <1>6, <2>1, StillSteps
    <3>2. w' = w \/ w'.pc \in {"loop", "fire", "final"} \/ w.pc = "last"
      BY <1>6, <2>1, WorkerPlaces DEF Worker
    <3>3. QED
      BY <1>1, <2>0, <3>1, <3>2
  <2>2. CASE ToggleMovie
    <3>1. Toggled(Act) /\ w'.pc \notin {"last", "gone"}
      BY <2>2 DEF ToggleMovie, Numbered
    <3>2. QED
      BY <1>2, <2>0, <3>1, Zenon DEF FilmInv
  <2>3. CASE FinalStop
    <3>1. CASE rec /\ Toggled(0)
      BY <1>2, <2>0, <3>1, Zenon DEF FilmInv
    <3>2. CASE ~(rec /\ adapter) /\ UNCHANGED <<rec, rolling, failed>>
      BY <2>0, <3>2, Zenon DEF FilmInv
    <3>3. QED
      BY <2>3, <3>1, <3>2 DEF FinalStop
  <2>4. QED
    BY <2>1, <2>2, <2>3
<1>7. QED
  BY <1>3, <1>4, <1>5, <1>6 DEF Next

\* A session that ends with its adapter leaves no recording flag behind, and no
\* recording of a body that does what it accepts, unless the last movie command
\* raised: for any mixture of calls, among them a stop flag raised in the middle
\* of a capture, a sequence and a reconnection to a body that was switched off.
THEOREM SessionsEndTheirRecording == Spec => []ClosedNotRecording
<1>1. Init => FilmInv
  BY DEF Init, FilmInv
<1>2. TypeInv /\ FilmInv /\ [Next]_vars => FilmInv'
  BY FilmStep
<1>3. FilmInv => ClosedNotRecording
  BY DEF FilmInv, ClosedNotRecording
<1>4. QED
  BY <1>1, <1>2, <1>3, Typed, PTL DEF Spec

-----------------------------------------------------------------------------
(***************************************************************************)
(* Where each step of a call leaves it.                                      *)
(***************************************************************************)
\* Nothing of the call changes but where it is.
Same(h) ==
  /\ call'[h].name = call[h].name /\ call'[h].target = call[h].target
  /\ call'[h].prev = call[h].prev /\ call'[h].ending = call[h].ending
  /\ call'[h].since = call[h].since /\ call'[h].min = call[h].min
  /\ call'[h].backlog = call[h].backlog

LEMMA SamePlaces ==
  ASSUME CallsTyped, NEW h \in Hosts, NEW pc \in Places, Goto(h, pc)
  PROVE  Same(h) /\ call'[h].pc = pc
<1>1. call'[h] = [call[h] EXCEPT !.pc = pc]
  BY WentTo
<1>2. call[h] \in CallsMade
  BY DEF CallsTyped
<1>3. QED
  BY ONLY <1>1, <1>2 DEF CallsMade, Same

LEMMA LeavePlaces ==
  ASSUME CallsTyped, NEW h \in Hosts, Leave(h)
  PROVE  \/ /\ call[h].name = "video" /\ call[h].pc # "restore"
            /\ Same(h) /\ call'[h].pc = "restore" /\ CallOnly
         \/ ~(call[h].name = "video" /\ call[h].pc # "restore") /\ Return(h)
<1>1. "restore" \in Places
  BY DEF Places
<1>2. QED
  BY <1>1, SamePlaces DEF Leave

LEMMA BeginPlaces ==
  ASSUME CallsTyped, NEW h \in Hosts, Begin(h)
  PROVE  /\ call[h].pc = "idle" /\ lock = NoHost /\ lock' = h
         /\ call'[h].pc = "check" /\ call'[h].name \in usage \cap Captures
         /\ call'[h].target = "none" /\ ~call'[h].ending
         /\ UNCHANGED <<stopReq, det, mode, trigger, strayed, barred, misled>>
BY DEF CallsTyped, Begin, Update, Idle

LEMMA CheckPlaces ==
  ASSUME CallsTyped, NEW h \in Hosts, Check(h)
  PROVE  /\ call[h].pc = "check"
         /\ \/ Return(h)
            \/ /\ CallOnly
               /\ call'[h].pc = "mode" /\ call'[h].name = call[h].name
               /\ call'[h].prev = mode /\ call'[h].ending = (call[h].name = "stop")
               /\ call'[h].target = "video" => call[h].name \in {"video", "watch"}
               /\ call[h].name = "video" => ~rec /\ call'[h].target = Unless("video")
               /\ call[h].name = "stop" => rec
<1>1. ASSUME NEW refused, NEW target, Decide(h, refused, target)
      PROVE  /\ call[h].pc = "check"
             /\ \/ Return(h)
                \/ /\ ~refused /\ CallOnly
                   /\ call'[h].pc = "mode" /\ call'[h].name = call[h].name
                   /\ call'[h].prev = mode /\ call'[h].ending = (call[h].name = "stop")
                   /\ call'[h].target = target
  <2>1. call[h].pc = "check"
    BY <1>1 DEF Decide
  <2>2. CASE ~Return(h)
    <3>1. /\ ~refused /\ CallOnly
          /\ Update(h, [call[h] EXCEPT !.pc = "mode", !.prev = mode, !.target = target,
                          !.ending = call[h].name = "stop"])
      BY <1>1, <2>2 DEF Decide
    <3>2. call'[h] = [call[h] EXCEPT !.pc = "mode", !.prev = mode, !.target = target,
                       !.ending = call[h].name = "stop"]
      BY <3>1 DEF Update, CallsTyped
    <3>3. call[h] \in CallsMade
      BY DEF CallsTyped
    <3>4. QED
      BY <2>1, <3>1, <3>2, <3>3 DEF CallsMade
  <2>3. QED
    BY <2>1, <2>2
<1>2. Unless("single") # "video"
  BY DEF Unless
<1>3. CASE CheckPhoto(h)
  BY <1>1, <1>2, <1>3 DEF CheckPhoto
<1>4. CASE CheckVideo(h)
  BY <1>1, <1>4 DEF CheckVideo
<1>5. CASE CheckStop(h)
  <2>1. call[h].name = "stop" /\ Decide(h, ~rec, "none")
    BY <1>5 DEF CheckStop
  <2>2. CASE rec
    BY <1>1, <2>1, <2>2
  <2>3. CASE ~rec
    BY <1>1, <2>1, <2>3 DEF Decide
  <2>4. QED
    BY <2>2, <2>3
<1>6. CASE CheckWatch(h)
  BY <1>1, <1>6 DEF CheckWatch
<1>7. QED
  BY <1>3, <1>4, <1>5, <1>6 DEF Check

LEMMA SetModePlaces ==
  ASSUME CallsTyped, NEW h \in Hosts, SetMode(h)
  PROVE  /\ call[h].pc = "mode"
         /\ \/ Return(h)
            \/ /\ Same(h)
               /\ call'[h].pc = IF call[h].name = "watch" THEN "arm" ELSE "mark"
               /\ mode' = (IF call[h].target = "none" THEN mode ELSE call[h].target)
               /\ barred' = (barred /\ call[h].target = "none")
               /\ UNCHANGED <<det, trigger, lock, strayed, misled>>
<1>1. {"mark", "arm"} \subseteq Places
  BY DEF Places
<1>2. QED
  BY <1>1, SamePlaces DEF SetMode

LEMMA MarkPlaces ==
  ASSUME CallsTyped, NEW h \in Hosts, Mark(h)
  PROVE  /\ call[h].pc = "mark" /\ call'[h].pc = "request" /\ CallOnly
         /\ call'[h].name = call[h].name /\ call'[h].target = call[h].target
         /\ call'[h].prev = call[h].prev /\ call'[h].ending = call[h].ending
         /\ call'[h].since = Watermark /\ call'[h].min = seq + 1
         /\ call'[h].backlog = {f.act : f \in queued}
BY DEF CallsTyped, CallsMade, Mark, Update

\* A refused request leaves, or returns in the mode that was set.
LEMMA RequestPlaces ==
  ASSUME CallsTyped, NEW h \in Hosts, Request(h)
  PROVE  /\ call[h].pc = "request"
         /\ \/ Leave(h)
            \/ /\ Returns(h) /\ ~call[h].ending /\ (conn => Running)
               /\ barred' = (barred \/ (Running /\ mode = "video"))
               /\ UNCHANGED <<stopReq, det, mode, trigger, misled>>
            \/ /\ trig' = TRUE /\ asked' # {} /\ Same(h)
               /\ call'[h].pc = IF call[h].name = "photo" THEN "file" ELSE "movie"
               /\ UNCHANGED <<det, mode, lock, strayed, barred, misled>>
<1>1. {"file", "movie"} \subseteq Places
  BY DEF Places
<1>2. call[h].pc = "request"
  BY DEF Request
<1>3. CASE (~conn \/ Running) /\ Refuses(h)
  BY <1>2, <1>3 DEF Refuses
<1>4. CASE ~((~conn \/ Running) /\ Refuses(h))
  BY <1>1, <1>2, <1>4, SamePlaces DEF Request
<1>5. QED
  BY <1>3, <1>4

LEMMA MoviePlaces ==
  ASSUME CallsTyped, NEW h \in Hosts, MovieReached(h)
  PROVE  /\ call[h].pc = "movie" /\ rec = ~call[h].ending /\ Same(h) /\ CallOnly
         /\ call'[h].pc = IF call[h].ending THEN "file" ELSE "hold"
<1>1. {"file", "hold"} \subseteq Places
  BY DEF Places
<1>2. QED
  BY <1>1, SamePlaces DEF MovieReached

LEMMA EndHoldPlaces ==
  ASSUME CallsTyped, NEW h \in Hosts, EndHold(h)
  PROVE  /\ call[h].pc = "hold" /\ call'[h].pc = "mark" /\ CallOnly
         /\ call'[h].name = call[h].name /\ call'[h].target = call[h].target
         /\ call'[h].prev = call[h].prev /\ call'[h].ending = TRUE
BY DEF CallsTyped, CallsMade, EndHold, Update

LEMMA FilePlaces ==
  ASSUME CallsTyped, NEW h \in Hosts, FileAnswered(h) \/ FileGivenUp(h)
  PROVE  /\ call[h].pc = "file" /\ Same(h) /\ call'[h].pc = "restore"
         /\ UNCHANGED <<det, mode, trigger, lock, strayed, barred>>
<1>1. "restore" \in Places
  BY DEF Places
<1>2. QED
  BY <1>1, SamePlaces DEF FileAnswered, FileGivenUp, CallOnly, history

\* A call that returns is idle again, and the lock is free if it held it.
LEMMA ReturnPlaces ==
  ASSUME CallsTyped, NEW h \in Hosts, Returns(h)
  PROVE  call'[h] = Idle /\ lock' = (IF lock = h THEN NoHost ELSE lock)
BY IdleIsACall, Updated DEF Returns

-----------------------------------------------------------------------------
(***************************************************************************)
(* The capture lock is held by the one call that is under way.               *)
(***************************************************************************)
\* The call is past its preparation: it asks for something, or waits for it.
Asking(c) == c.pc \in {"mark", "request", "movie", "hold", "file"}

LockInv ==
  \A h \in Hosts :
    /\ call[h].pc # "idle" <=> lock = h
    /\ call[h].pc = "idle" => call[h] = Idle
    /\ call[h].name \in usage \cup {"none"}
    /\ call[h].pc # "idle" => call[h].name \in Captures
    /\ call[h].target = "video" => call[h].name \in {"video", "watch"}
    /\ call[h].pc = "arm" => call[h].name = "watch"
    /\ Asking(call[h]) => call[h].name # "watch"

\* What is true of one call, when the lock is l.
Locked(c, h, l) ==
  /\ c.pc # "idle" <=> l = h
  /\ c.pc = "idle" => c = Idle
  /\ c.name \in usage \cup {"none"}
  /\ c.pc # "idle" => c.name \in Captures
  /\ c.target = "video" => c.name \in {"video", "watch"}
  /\ c.pc = "arm" => c.name = "watch"
  /\ Asking(c) => c.name # "watch"

LEMMA LockIdle ==
  ASSUME NEW h \in Hosts, NEW l, l # h
  PROVE  Locked(Idle, h, l)
BY DEF Locked, Idle, Asking

LEMMA LockCall ==
  ASSUME TypeInv, LockInv, NEW h \in Hosts, Call(h)
  PROVE  /\ Locked(call'[h], h, lock')
         /\ \A g \in Hosts : g # h => lock' # g /\ lock # g
<1>0. CallsTyped /\ NoHost \notin Hosts
  BY CaptureAssumption DEF TypeInv
<1>1. Locked(call[h], h, lock)
  BY DEF LockInv, Locked
<1> DEFINE Fits == Locked(call'[h], h, lock') /\ \A g \in Hosts : g # h => lock' # g /\ lock # g
<1>a. ASSUME Returns(h), lock = h PROVE Fits
  <2>1. call'[h] = Idle /\ lock' = NoHost
    BY <1>0, <1>a, ReturnPlaces
  <2>2. QED
    BY <1>0, <1>a, <2>1, LockIdle
<1>b. ASSUME Same(h), lock = h, lock' = lock, call'[h].pc # "idle",
             call'[h].pc = "arm" => call[h].name = "watch",
             Asking(call'[h]) => Asking(call[h]) \/ call[h].name # "watch"
      PROVE  Fits
  <2>1. Locked(call'[h], h, lock')
    BY <1>1, <1>b DEF Locked, Same
  <2>2. QED
    BY <1>b, <2>1
<1>c. ASSUME call[h].pc # "idle" PROVE lock = h
  BY <1>1, <1>c DEF Locked
<1>d. CallOnly => lock' = lock
  BY DEF CallOnly
<1>e. ASSUME Leave(h), lock = h PROVE Fits
  <2>1. \/ Same(h) /\ call'[h].pc = "restore" /\ CallOnly
        \/ Return(h)
    BY <1>0, <1>e, LeavePlaces
  <2>2. QED
    BY <1>a, <1>b, <1>d, <1>e, <2>1 DEF Return, Asking
<1>2. CASE Begin(h)
  <2>1. /\ lock = NoHost /\ lock' = h
        /\ call'[h].pc = "check" /\ call'[h].name \in usage \cap Captures
        /\ call'[h].target = "none"
    BY <1>0, <1>2, BeginPlaces
  <2>2. Locked(call'[h], h, lock')
    BY <2>1 DEF Locked, Asking
  <2>3. QED
    BY <1>0, <2>1, <2>2
<1>3. CASE Check(h)
  <2>1. call[h].pc = "check" /\ lock = h
    BY <1>0, <1>3, <1>c, CheckPlaces
  <2>2. CASE Return(h)
    BY <1>a, <2>1, <2>2 DEF Return
  <2>3. CASE ~Return(h)
    <3>1. /\ lock' = lock /\ call'[h].pc = "mode" /\ call'[h].name = call[h].name
          /\ call'[h].target = "video" => call[h].name \in {"video", "watch"}
      BY <1>0, <1>3, <1>d, <2>3, CheckPlaces
    <3>2. Locked(call'[h], h, lock')
      BY <1>1, <2>1, <3>1 DEF Locked, Asking
    <3>3. QED
      BY <2>1, <3>1, <3>2
  <2>4. QED
    BY <2>2, <2>3
<1>4. CASE SetMode(h)
  <2>1. call[h].pc = "mode" /\ lock = h
    BY <1>0, <1>4, <1>c, SetModePlaces
  <2>2. CASE Return(h)
    BY <1>a, <2>1, <2>2 DEF Return
  <2>3. CASE ~Return(h)
    <3>1. /\ Same(h) /\ lock' = lock
          /\ call'[h].pc = IF call[h].name = "watch" THEN "arm" ELSE "mark"
      BY <1>0, <1>4, <2>3, SetModePlaces
    <3>2. QED
      BY <1>b, <2>1, <3>1 DEF Asking
  <2>4. QED
    BY <2>2, <2>3
<1>5. CASE Mark(h) \/ EndHold(h)
  <2>1. /\ call[h].pc # "idle" /\ call'[h].pc \in {"request", "mark"} /\ lock' = lock
        /\ call'[h].name = call[h].name /\ call'[h].target = call[h].target
    BY <1>0, <1>5, <1>d, MarkPlaces, EndHoldPlaces
  <2>2. Asking(call[h])
    BY <1>0, <1>5, MarkPlaces, EndHoldPlaces DEF Asking
  <2>3. Locked(call'[h], h, lock') /\ lock = h
    BY <1>1, <1>c, <2>1, <2>2 DEF Locked
  <2>4. QED
    BY <2>1, <2>3
<1>6. CASE Request(h)
  <2>1. call[h].pc = "request" /\ lock = h
    BY <1>0, <1>6, <1>c, RequestPlaces
  <2>2. CASE Leave(h) \/ Returns(h)
    BY <1>a, <1>e, <2>1, <2>2
  <2>3. CASE ~(Leave(h) \/ Returns(h))
    <3>1. Same(h) /\ lock' = lock /\ call'[h].pc \in {"file", "movie"}
      BY <1>0, <1>6, <2>3, RequestPlaces
    <3>2. QED
      BY <1>b, <2>1, <3>1 DEF Asking
  <2>4. QED
    BY <2>2, <2>3
<1>7. CASE MovieReached(h)
  BY <1>0, <1>7, <1>b, <1>c, <1>d, MoviePlaces DEF Asking
<1>8. CASE MovieGivenUp(h)
  BY <1>8, <1>c, <1>e DEF MovieGivenUp
<1>9. CASE FileAnswered(h) \/ FileGivenUp(h)
  BY <1>0, <1>9, <1>b, <1>c, FilePlaces DEF Asking
<1>10. CASE Restore(h) \/ Arm(h)
  BY <1>10, <1>a, <1>c DEF Restore, Arm
<1>11. QED
  BY <1>2, <1>3, <1>4, <1>5, <1>6, <1>7, <1>8, <1>9, <1>10 DEF Call

\* Of the steps that are no call's, none writes what the calls go by.
Others == \/ Disarm \/ SelectBurst \/ Close \/ JoinGivesUp \/ Connect
          \/ ValidateSequence \/ ArmSequence \/ Worker \/ Reads \/ UNCHANGED vars

LEMMA OthersKeepCalls ==
  ASSUME Others
  PROVE  UNCHANGED <<call, lock, usage>>
<1>1. CASE Worker
  BY <1>1, WorkerHosting DEF Hosting
<1>2. CASE ~Worker
  BY <1>2 DEF Others, Disarm, SelectBurst, Close, JoinGivesUp, Connect, ValidateSequence,
     ArmSequence, Reads, Body, vars
<1>3. QED
  BY <1>1, <1>2

LEMMA StepIsCallOrOther ==
  ASSUME [Next]_vars
  PROVE  (\E h \in Hosts : Call(h)) \/ Others
BY DEF Next, Others

LEMMA UsageStays ==
  ASSUME [Next]_vars
  PROVE  usage' = usage
<1>1. ASSUME NEW h \in Hosts, Call(h) PROVE usage' = usage
  BY <1>1, CallFrame DEF Body
<1>2. QED
  BY <1>1, StepIsCallOrOther, OthersKeepCalls

LEMMA LockStep ==
  ASSUME TypeInv, LockInv, [Next]_vars
  PROVE  LockInv'
<1>1. ASSUME NEW h \in Hosts, Call(h) PROVE LockInv'
  <2>1. usage' = usage
    BY <1>1, CallFrame DEF Body
  <2>2. ASSUME NEW g \in Hosts PROVE Locked(call'[g], g, lock')
    <3>1. CASE g = h
      BY <1>1, <3>1, LockCall
    <3>2. CASE g # h
      <4>1. call'[g] = call[g] /\ lock' # g /\ lock # g
        BY <1>1, <3>2, CallsStep, LockCall
      <4>2. call[g] = Idle
        BY <4>1 DEF LockInv
      <4>3. QED
        BY <4>1, <4>2, LockIdle
    <3>3. QED
      BY <3>1, <3>2
  <2>3. QED
    BY <2>1, <2>2 DEF Locked, LockInv
<1>2. CASE Others
  BY <1>2, OthersKeepCalls DEF LockInv
<1>3. QED
  BY <1>1, <1>2, StepIsCallOrOther

LEMMA LockInit == Init => LockInv
BY CaptureAssumption DEF Init, LockInv, Idle, Asking

LEMMA Locks == Spec => []LockInv
BY LockInit, LockStep, Typed, PTL DEF Spec

-----------------------------------------------------------------------------
(***************************************************************************)
(* Video mode is borrowed.  A mixture of calls that reconnects in the middle *)
(* of a capture is another matter: set_capture_mode() and the restore refuse *)
(* a camera that is gone, and connect() keeps the mode it finds.             *)
(***************************************************************************)
ReconnectsApart == \A u \in Usages : "connect" \in u => u \cap {"photo", "video", "stop"} = {}

\* The call has set Video mode, and will put the mode of before back.
Borrows(c) == c.name = "video" /\ c.pc \notin {"check", "mode"}

\* What is true of one call, when a sequence has barred the way or not.  A call
\* that found Video mode sets no mode and has none to put back.
Borrowed(c, isBarred) ==
  /\ (conn /\ c.name = "video" /\ c.pc # "check" /\ c.prev = "video") => isBarred
  /\ (c.name = "video" /\ c.pc = "mode") => c.target = (IF c.prev = "video" THEN "none" ELSE "video")

BorrowInv ==
  "watch" \notin usage =>
    /\ "video" \notin usage => mode # "video" /\ ~rec
    /\ (conn /\ mode = "video") => barred \/ \E h \in Hosts : Borrows(call[h])
    /\ \A h \in Hosts : Borrowed(call[h], barred)

LEMMA BorrowedIdle ==
  ASSUME NEW isBarred
  PROVE  Borrowed(Idle, isBarred) /\ ~Borrows(Idle)
BY DEF Borrowed, Borrows, Idle

\* Nobody but the call under way borrows the mode.
LEMMA OneBorrows ==
  ASSUME TypeInv, LockInv, NEW h \in Hosts, Call(h)
  PROVE  \A g \in Hosts : g # h => call[g] = Idle /\ call'[g] = Idle
<1> SUFFICES ASSUME NEW g \in Hosts, g # h PROVE call[g] = Idle /\ call'[g] = Idle
  OBVIOUS
<1>1. call'[g] = call[g] /\ lock # g
  BY CallsStep, LockCall
<1>2. QED
  BY <1>1 DEF LockInv

LEMMA BorrowCall ==
  ASSUME TypeInv, LockInv, BorrowInv, "watch" \notin usage, NEW h \in Hosts, Call(h)
  PROVE  /\ "video" \notin usage => mode' # "video"
         /\ (conn /\ mode' = "video") => barred' \/ Borrows(call'[h])
         /\ Borrowed(call'[h], barred')
<1> DEFINE Goal == /\ "video" \notin usage => mode' # "video"
                   /\ (conn /\ mode' = "video") => barred' \/ Borrows(call'[h])
                   /\ Borrowed(call'[h], barred')
<1>0. CallsTyped
  BY DEF TypeInv
<1>1. /\ call[h].name \in usage \cup {"none"}
      /\ call[h].target = "video" => call[h].name = "video"
      /\ call[h].pc = "arm" => call[h].name = "watch"
      /\ call[h].pc = "idle" => call[h] = Idle
  BY DEF LockInv
<1>2. /\ "video" \notin usage => mode # "video"
      /\ (conn /\ mode = "video") => barred \/ Borrows(call[h])
      /\ Borrowed(call[h], barred)
  <2>1. "video" \notin usage => mode # "video"
    BY DEF BorrowInv
  <2>2. Borrowed(call[h], barred)
    BY DEF BorrowInv
  <2>3. ASSUME conn, mode = "video", ~barred PROVE Borrows(call[h])
    <3>1. PICK g \in Hosts : Borrows(call[g])
      BY <2>3 DEF BorrowInv
    <3>2. g = h
      BY <3>1, OneBorrows, BorrowedIdle
    <3>3. QED
      BY <3>1, <3>2
  <2>4. QED
    BY <2>1, <2>2, <2>3
<1>a. ASSUME Returns(h), mode' = mode,
             ~conn \/ mode # "video" \/ barred' \/ (barred' = barred /\ ~Borrows(call[h]))
      PROVE  Goal
  <2>1. call'[h] = Idle
    BY <1>0, <1>a, ReturnPlaces
  <2>2. QED
    BY <1>2, <1>a, <2>1, BorrowedIdle
<1>b. ASSUME mode' = mode, barred' = barred, call[h].pc # "check", call'[h].pc # "mode",
             call'[h].name = call[h].name, call'[h].prev = call[h].prev,
             Borrows(call[h]) => Borrows(call'[h])
      PROVE  Goal
  BY <1>2, <1>b DEF Borrowed
<1>c. ASSUME Leave(h), call[h].pc \in {"request", "movie"} PROVE Goal
  <2>1. CASE Return(h) /\ call[h].name # "video"
    BY <1>a, <2>1 DEF Return, Borrows
  <2>2. CASE Same(h) /\ call'[h].pc = "restore" /\ CallOnly
    BY <1>b, <1>c, <2>2 DEF Same, CallOnly, Borrows
  <2>3. QED
    BY <1>0, <1>c, <2>1, <2>2, LeavePlaces
<1>3. CASE Begin(h)
  <2>1. mode' = mode /\ barred' = barred /\ call'[h].pc = "check" /\ call[h] = Idle
    BY <1>0, <1>1, <1>3, BeginPlaces
  <2>2. ~Borrows(call[h]) /\ Borrowed(call'[h], barred')
    BY <2>1 DEF Borrowed, Borrows, Idle
  <2>3. QED
    BY <1>2, <2>1, <2>2
<1>4. CASE Check(h)
  <2>1. call[h].pc = "check" /\ ~Borrows(call[h])
    BY <1>0, <1>4, CheckPlaces DEF Borrows
  <2>2. CASE Return(h)
    BY <1>a, <2>1, <2>2 DEF Return
  <2>3. CASE ~Return(h)
    <3>1. /\ mode' = mode /\ barred' = barred
          /\ call'[h].pc = "mode" /\ call'[h].prev = mode /\ call'[h].name = call[h].name
          /\ call[h].name = "video" => call'[h].target = Unless("video")
      BY <1>0, <1>4, <2>3, CheckPlaces DEF CallOnly
    <3>2. (conn /\ mode = "video") => barred
      BY <1>2, <2>1
    <3>3. Borrowed(call'[h], barred')
      BY <3>1, <3>2 DEF Borrowed, Unless
    <3>4. QED
      BY <1>2, <3>1, <3>2, <3>3
  <2>4. QED
    BY <2>2, <2>3
<1>5. CASE SetMode(h)
  <2>1. call[h].pc = "mode" /\ ~Borrows(call[h])
    BY <1>0, <1>5, SetModePlaces DEF Borrows
  <2>2. CASE Return(h)
    BY <1>a, <2>1, <2>2 DEF Return
  <2>3. CASE ~Return(h)
    <3>1. /\ Same(h)
          /\ call'[h].pc \in {"arm", "mark"}
          /\ call[h].name # "watch" => call'[h].pc = "mark"
          /\ mode' = (IF call[h].target = "none" THEN mode ELSE call[h].target)
          /\ barred' = (barred /\ call[h].target = "none")
      BY <1>0, <1>5, <2>3, SetModePlaces
    <3>2. call[h].name = "video" => Borrows(call'[h])
      BY <3>1 DEF Same, Borrows
    <3>3. CASE call[h].target = "none"
      <4>1. barred' = barred /\ mode' = mode
        BY <3>1, <3>3, <1>0 DEF CallsTyped, TypeInv, FlagsTyped, HostTyped
      <4>2. Borrowed(call'[h], barred')
        BY <1>2, <2>1, <3>1, <4>1 DEF Borrowed, Same
      <4>3. QED
        BY <1>2, <2>1, <4>1, <4>2
    <3>4. CASE call[h].target # "none"
      <4>1. mode' = "video" => call[h].name = "video" /\ "video" \in usage
        BY <1>1, <3>1, <3>4
      <4>2. call[h].name = "video" => call[h].prev # "video"
        BY <1>2, <2>1, <3>4 DEF Borrowed
      <4>3. Borrowed(call'[h], barred')
        BY <3>1, <4>2 DEF Borrowed, Same
      <4>4. QED
        BY <3>2, <4>1, <4>3
    <3>5. QED
      BY <3>3, <3>4
  <2>4. QED
    BY <2>2, <2>3
<1>6. CASE Mark(h) \/ EndHold(h)
  <2>1. /\ call[h].pc \in {"mark", "hold"} /\ call'[h].pc \in {"request", "mark"}
        /\ mode' = mode /\ barred' = barred
        /\ call'[h].name = call[h].name /\ call'[h].prev = call[h].prev
    BY <1>0, <1>6, MarkPlaces, EndHoldPlaces DEF CallOnly
  <2>2. QED
    BY <1>b, <2>1 DEF Borrows
<1>7. CASE Request(h)
  <2>1. call[h].pc = "request"
    BY <1>0, <1>7, RequestPlaces
  <2>2. CASE Leave(h)
    BY <1>c, <2>1, <2>2
  <2>3. CASE Returns(h) /\ (conn => Running) /\ barred' = (barred \/ (Running /\ mode = "video"))
             /\ mode' = mode
    BY <1>a, <2>3
  <2>4. CASE Same(h) /\ call'[h].pc \in {"file", "movie"} /\ mode' = mode /\ barred' = barred
    BY <1>b, <2>1, <2>4 DEF Same, Borrows
  <2>5. QED
    BY <1>0, <1>7, <2>2, <2>3, <2>4, RequestPlaces
<1>8. CASE MovieReached(h)
  BY <1>0, <1>8, <1>b, MoviePlaces DEF Same, Borrows, CallOnly
<1>9. CASE MovieGivenUp(h)
  BY <1>9, <1>c DEF MovieGivenUp
<1>10. CASE FileAnswered(h) \/ FileGivenUp(h)
  BY <1>0, <1>10, <1>b, FilePlaces DEF Same, Borrows
<1>11. CASE Restore(h)
  <2> DEFINE owed    == call[h].name = "video" /\ call[h].prev # "video" /\ conn
             refused == Running /\ call[h].prev # "single"
  <2>1. /\ call[h].pc = "restore" /\ Returns(h)
        /\ mode' = (IF owed /\ ~refused THEN call[h].prev ELSE mode)
        /\ barred' = (IF owed THEN refused ELSE barred)
    BY <1>11 DEF Restore
  <2>2. CASE owed /\ ~refused
    <3>1. mode' # "video" /\ call'[h] = Idle
      BY <1>0, <2>1, <2>2, ReturnPlaces
    <3>2. QED
      BY <3>1, BorrowedIdle
  <2>3. CASE owed /\ refused
    <3>1. mode' = mode /\ barred'
      BY <2>1, <2>3
    <3>2. QED
      BY <1>a, <2>1, <3>1
  <2>4. CASE ~owed
    <3>1. mode' = mode /\ barred' = barred
      BY <2>1, <2>4
    <3>2. ~conn \/ barred \/ ~Borrows(call[h])
      BY <1>2, <2>1, <2>4 DEF Borrowed, Borrows
    <3>3. QED
      BY <1>a, <2>1, <3>1, <3>2
  <2>5. QED
    BY <2>2, <2>3, <2>4
<1>12. CASE Arm(h)
  BY <1>1, <1>12 DEF Arm
<1>13. QED
  BY <1>3, <1>4, <1>5, <1>6, <1>7, <1>8, <1>9, <1>10, <1>11, <1>12 DEF Call

\* A toggle needs Video mode, and the final stop a recording.
LEMMA BorrowWorker ==
  ASSUME Worker
  PROVE  /\ mode' = mode /\ barred' = barred /\ (conn' => conn)
         /\ rec' => rec \/ mode = "video"
<1>1. mode' = mode /\ barred' = barred
  BY WorkerHosting DEF Hosting
<1>2. conn' = conn \/ conn' = FALSE
  BY DEF Worker, ServeTrigger, IgnoreTrigger, Detect, Shoot, ToggleMovie, ActRaises, SequenceShot,
     SequenceEnds, Numbered, SilentRefusal, Announce, Fetch, Notify, LoopEnds, FinalStop, Exit, Ends
<1>3. rec' = rec \/ mode = "video" \/ rec
  <2>1. CASE ~ToggleMovie /\ ~FinalStop
    BY <2>1, StillSteps
  <2>2. CASE ToggleMovie
    BY <2>2 DEF ToggleMovie
  <2>3. CASE FinalStop
    BY <2>3 DEF FinalStop
  <2>4. QED
    BY <2>1, <2>2, <2>3
<1>4. conn' => conn
  BY ONLY <1>2
<1>5. rec' => rec \/ mode = "video"
  BY ONLY <1>3
<1>6. QED
  BY <1>1, <1>4, <1>5

LEMMA BorrowStep ==
  ASSUME ReconnectsApart, TypeInv, LockInv, BorrowInv, [Next]_vars
  PROVE  BorrowInv'
<1> DEFINE Goal == /\ "video" \notin usage => mode' # "video" /\ ~rec'
                   /\ (conn' /\ mode' = "video") => barred' \/ \E h \in Hosts : Borrows(call'[h])
                   /\ \A h \in Hosts : Borrowed(call[h], barred)'
<1> SUFFICES ASSUME "watch" \notin usage PROVE Goal
  BY UsageStays DEF BorrowInv
<1>0. /\ "video" \notin usage => mode # "video" /\ ~rec
      /\ (conn /\ mode = "video") => barred \/ \E h \in Hosts : Borrows(call[h])
      /\ \A h \in Hosts : Borrowed(call[h], barred)
  BY DEF BorrowInv
<1>1. ASSUME mode' = mode \/ mode' # "video", conn' => conn, rec' => rec \/ mode = "video",
             call' = call, barred' = barred
      PROVE  Goal
  <2>1. \A h \in Hosts : Borrowed(call[h], barred)'
    BY <1>0, <1>1 DEF Borrowed
  <2>2. QED
    BY <1>0, <1>1, <2>1
<1>2. CASE \E h \in Hosts : Call(h)
  <2>1. PICK h \in Hosts : Call(h)
    BY <1>2
  <2>2. conn' = conn /\ rec' = rec
    BY <2>1, CallFrame DEF Body, camera
  <2>3. /\ "video" \notin usage => mode' # "video"
        /\ (conn /\ mode' = "video") => barred' \/ Borrows(call'[h])
        /\ Borrowed(call'[h], barred')
    BY <2>1, BorrowCall
  <2>4. ASSUME NEW g \in Hosts PROVE Borrowed(call[g], barred)'
    <3>1. Borrowed(call'[g], barred')
      BY <2>1, <2>3, OneBorrows, BorrowedIdle
    <3>2. QED
      BY <2>2, <3>1 DEF Borrowed
  <2>5. QED
    BY <1>0, <2>2, <2>3, <2>4
<1>3. CASE Disarm \/ SelectBurst \/ Close \/ JoinGivesUp \/ ValidateSequence \/ ArmSequence
           \/ Reads \/ UNCHANGED vars
  <2>1. /\ mode' = mode \/ mode' # "video"
        /\ conn' = conn \/ conn' = FALSE
        /\ UNCHANGED <<rec, call, barred>>
    BY <1>3 DEF Disarm, SelectBurst, Close, JoinGivesUp, ValidateSequence, ArmSequence, Reads, vars,
       Body, camera, history
  <2>2. conn' => conn
    BY ONLY <2>1
  <2>3. QED
    BY <1>1, <2>1, <2>2
<1>4. CASE Connect
  <2>1. "connect" \in usage /\ usage \in Usages
    BY <1>4 DEF Connect, TypeInv, HostTyped
  <2>2. "video" \notin usage
    BY <2>1 DEF ReconnectsApart
  <2>3. mode' = mode /\ rec' = rec /\ call' = call /\ mode # "video" /\ ~rec
    BY <1>0, <1>4, <2>2 DEF Connect
  <2>4. \A h \in Hosts : call[h].name # "video"
    BY <2>2 DEF LockInv
  <2>5. \A h \in Hosts : Borrowed(call[h], barred)'
    BY <2>3, <2>4 DEF Borrowed
  <2>6. QED
    BY <2>3, <2>5
<1>5. CASE Worker
  <2>1. call' = call
    BY <1>5, OthersKeepCalls DEF Others
  <2>2. QED
    BY <1>1, <1>5, <2>1, BorrowWorker
<1>6. QED
  BY <1>2, <1>3, <1>4, <1>5 DEF Next

\* When no capture_video() runs and nothing was armed to record, the trigger of
\* a connected camera takes pictures again: through every overlap of captures
\* and every way one can fail or give up, but for the trigger or the restore an
\* interval sequence refuses, which is what barred remembers.
THEOREM VideoModeIsGivenBack ==
  ASSUME ReconnectsApart
  PROVE  Spec => []VideoModeIsBorrowed
<1>1. Init => BorrowInv
  BY BorrowedIdle DEF Init, BorrowInv
<1>2. TypeInv /\ LockInv /\ BorrowInv /\ [Next]_vars => BorrowInv'
  BY BorrowStep
<1>3. BorrowInv => VideoModeIsBorrowed
  BY DEF BorrowInv, VideoModeIsBorrowed, Borrows
<1>4. QED
  BY <1>1, <1>2, <1>3, Typed, Locks, PTL DEF Spec

-----------------------------------------------------------------------------
(***************************************************************************)
(* What a capture was told of its recording.  While no call has left a       *)
(* trigger behind, a raised flag belongs to the one call under way, which    *)
(* sends none before its recording is as it was told and waits until the one *)
(* it sent is served: nothing else can toggle the recording it relies on.    *)
(***************************************************************************)
Serving == w.pc \in {"loop", "fire"}
Live    == Unserved /\ Serving

\* What holds of a call c when the worker's flag says rec, its last command raised
\* or not, a trigger is live, and the worker still serves.
Told(c, recording, raised, live, serving) ==
  /\ c.pc \in {"check", "mode", "mark", "request", "hold"} => ~live
  /\ (c.name = "video" /\ ~c.ending /\ c.pc \in {"mode", "mark", "request"}) => ~recording
  /\ (c.pc \in {"mode", "mark", "request"} /\ c.ending /\ serving) => recording
  /\ (c.pc = "hold" /\ serving) => recording /\ ~raised
  /\ (c.pc = "movie" /\ live) => (recording <=> c.ending)
  /\ (c.pc = "movie" /\ ~c.ending /\ serving /\ recording) => ~raised
  /\ (c.pc = "hold" \/ (c.ending /\ c.pc \in {"mode", "mark", "request", "movie"})) =>
       (~recording => ~raised)
  /\ (c.pc = "file" /\ c.ending) => ~recording /\ ~raised /\ ~live
  /\ c.ending => c.name \in {"video", "stop"}
  /\ c.pc \in {"movie", "hold"} => c.name \in {"video", "stop"}
  /\ c.pc = "hold" => ~c.ending
  /\ (c.name = "stop" /\ c.pc # "check") => c.ending

\* A body that does what it accepts is where the flag says, after a command that
\* did not raise.
Confirmed == (confirms /\ ~failed) => (rec <=> rolling)

TruthInv ==
  (~strayed /\ "watch" \notin usage) =>
    /\ trig => asked # {} /\ w.pc # "fire"
    /\ det # "auto" /\ interval # "demoted"
    /\ w.pc = "fire" => w.for # {}
    /\ lock = NoHost => ~Live
    /\ Confirmed
    /\ \A h \in Hosts : Told(call[h], rec, failed, Live, Serving)

LEMMA ToldIdle ==
  ASSUME NEW recording, NEW raised, NEW live, NEW serving
  PROVE  Told(Idle, recording, raised, live, serving)
BY DEF Told, Idle

LEMMA ToldRestoring ==
  ASSUME NEW h \in Hosts, NEW recording, NEW raised, NEW live, NEW serving,
         Told(call[h], recording, raised, live, serving), Same(h), call'[h].pc = "restore",
         call[h].pc # "check"
  PROVE  Told(call'[h], recording, raised, live, serving)
BY DEF Told, Same

\* A step that starts nothing tells a call nothing new.
LEMMA ToldStill ==
  ASSUME NEW c, NEW recording, NEW raised, NEW live, NEW serving,
         Told(c, recording, raised, live, serving),
         NEW live2, NEW serving2, live2 => live, serving2 => serving
  PROVE  Told(c, recording, raised, live2, serving2)
BY DEF Told

\* The trigger that was live is served; whatever it did to the recording, the
\* only call that could mind is the one that waits for it.
LEMMA ToldServed ==
  ASSUME NEW c, NEW recording, NEW raised, NEW recording2, NEW raised2, NEW serving,
         Told(c, recording, raised, TRUE, serving),
         (recording2 <=> recording) \/ ~raised2
  PROVE  Told(c, recording2, raised2, FALSE, serving)
BY DEF Told

\* The final stop comes when nothing is live any more.
LEMMA ToldFinal ==
  ASSUME NEW c, NEW recording, NEW raised, NEW recording2, NEW raised2,
         Told(c, recording, raised, FALSE, FALSE),
         recording2 => recording,
         ~recording2 => ~raised2 \/ (~recording /\ (raised2 <=> raised))
  PROVE  Told(c, recording2, raised2, FALSE, FALSE)
BY DEF Told

LEMMA TruthCall ==
  ASSUME TypeInv, LockInv, TruthInv, "watch" \notin usage, NEW h \in Hosts, Call(h), ~strayed'
  PROVE  /\ ~strayed
         /\ trig' => asked' # {} /\ w.pc # "fire"
         /\ det' # "auto"
         /\ lock' = NoHost => ~Live'
         /\ Told(call'[h], rec, failed, Live', Serving)
<1> DEFINE Goal == /\ ~strayed
                   /\ trig' => asked' # {} /\ w.pc # "fire"
                   /\ det' # "auto"
                   /\ lock' = NoHost => ~Live'
                   /\ Told(call'[h], rec, failed, Live', Serving)
<1>0. CallsTyped /\ FlagsTyped /\ NoHost \notin Hosts
  BY CaptureAssumption DEF TypeInv
<1>1. /\ call[h].name \in usage \cup {"none"}
      /\ call[h].pc # "idle" => call[h].name \in {"photo", "video", "stop"} /\ lock = h
      /\ call[h].pc # "arm"
  BY DEF LockInv, Captures
<1>2. w' = w /\ rec' = rec /\ interval' = interval
  BY CallFrame DEF Body
<1>3. trig' = trig => Live' = Live
  BY <1>2 DEF Live, Unserved, Serving
<1>4. ~strayed => /\ trig => asked # {} /\ w.pc # "fire"
                  /\ det # "auto"
                  /\ w.pc = "fire" => w.for # {}
                  /\ lock = NoHost => ~Live
                  /\ Told(call[h], rec, failed, Live, Serving)
  BY DEF TruthInv
<1>r. ASSUME Returns(h), UNCHANGED <<det, trigger>> PROVE Goal
  <2>1. strayed' = (strayed \/ Unserved)
    BY <1>r DEF Returns
  <2>2. ~strayed /\ ~Unserved
    BY <2>1
  <2>3. ~Live' /\ trig' = trig /\ asked' = asked /\ det' = det
    BY <1>3, <1>r, <2>2 DEF Live, trigger
  <2>4. call'[h] = Idle
    BY <1>0, <1>r, ReturnPlaces
  <2>5. QED
    BY <1>4, <2>2, <2>3, <2>4, ToldIdle
<1>s. ASSUME UNCHANGED <<det, trigger, strayed>>, lock' = lock, call[h].pc # "idle",
             ~strayed => Told(call'[h], rec, failed, Live, Serving)
      PROVE  Goal
  <2>1. Live' = Live /\ ~strayed /\ trig' = trig /\ asked' = asked /\ det' = det
    BY <1>3, <1>s DEF trigger
  <2>2. QED
    BY <1>4, <1>s, <2>1
<1>v. ASSUME CallOnly PROVE UNCHANGED <<det, trigger, strayed>> /\ lock' = lock
  BY <1>v DEF CallOnly, history
<1>l. ASSUME Leave(h), call[h].pc \in {"request", "movie"} PROVE Goal
  <2>1. CASE Return(h)
    BY <1>r, <2>1 DEF Return
  <2>2. CASE Same(h) /\ call'[h].pc = "restore" /\ CallOnly
    <3>1. ~strayed => Told(call'[h], rec, failed, Live, Serving)
      BY <1>4, <1>l, <2>2, ToldRestoring
    <3>2. QED
      BY <1>l, <1>s, <1>v, <2>2, <3>1
  <2>3. QED
    BY <1>0, <1>l, <2>1, <2>2, LeavePlaces
<1>5. CASE Begin(h)
  <2>1. /\ lock = NoHost /\ lock' = h /\ call'[h].pc = "check" /\ ~call'[h].ending
        /\ UNCHANGED <<det, trigger, strayed>>
    BY <1>0, <1>5, BeginPlaces
  <2>2. ~strayed /\ ~Live
    BY <1>4, <2>1
  <2>3. Told(call'[h], rec, failed, Live, Serving)
    BY <2>1, <2>2 DEF Told
  <2>4. Live' = Live /\ trig' = trig /\ asked' = asked /\ det' = det
    BY <1>3, <2>1 DEF trigger
  <2>5. QED
    BY <1>0, <1>4, <2>1, <2>2, <2>3, <2>4
<1>6. CASE Check(h)
  <2>1. call[h].pc = "check"
    BY <1>0, <1>6, CheckPlaces
  <2>2. CASE Return(h)
    BY <1>r, <2>2 DEF Return
  <2>3. CASE ~Return(h)
    <3>1. /\ CallOnly
          /\ call'[h].pc = "mode" /\ call'[h].name = call[h].name
          /\ call'[h].ending = (call[h].name = "stop")
          /\ call[h].name = "video" => ~rec
          /\ call[h].name = "stop" => rec
      BY <1>0, <1>6, <2>3, CheckPlaces
    <3>3. ASSUME ~strayed PROVE Told(call'[h], rec, failed, Live, Serving)
      <4>1. ~Live
        BY <1>4, <2>1, <3>3 DEF Told
      <4>2. QED
        BY <3>1, <4>1 DEF Told
    <3>4. QED
      BY <1>s, <1>v, <2>1, <3>1, <3>3
  <2>4. QED
    BY <2>2, <2>3
<1>7. CASE SetMode(h)
  <2>1. call[h].pc = "mode"
    BY <1>0, <1>7, SetModePlaces
  <2>2. CASE Return(h)
    BY <1>r, <2>2 DEF Return
  <2>3. CASE ~Return(h)
    <3>1. /\ Same(h) /\ call'[h].pc \in {"arm", "mark"} /\ UNCHANGED <<det, trigger, lock, strayed>>
      BY <1>0, <1>7, <2>3, SetModePlaces
    <3>2. ASSUME ~strayed PROVE Told(call'[h], rec, failed, Live, Serving)
      BY <1>4, <2>1, <3>1, <3>2 DEF Told, Same
    <3>3. QED
      BY <1>s, <2>1, <3>1, <3>2
  <2>4. QED
    BY <2>2, <2>3
<1>8. CASE Mark(h)
  <2>1. /\ call[h].pc = "mark" /\ call'[h].pc = "request" /\ CallOnly
        /\ call'[h].name = call[h].name /\ call'[h].ending = call[h].ending
    BY <1>0, <1>8, MarkPlaces
  <2>2. ASSUME ~strayed PROVE Told(call'[h], rec, failed, Live, Serving)
    BY <1>4, <2>1, <2>2 DEF Told
  <2>3. QED
    BY <1>s, <1>v, <2>1, <2>2
<1>9. CASE Request(h)
  <2>1. call[h].pc = "request"
    BY <1>0, <1>9, RequestPlaces
  <2>2. CASE Returns(h) /\ UNCHANGED <<det, trigger>>
    BY <1>r, <2>2
  <2>3. CASE Leave(h)
    BY <1>l, <2>1, <2>3
  <2>4. CASE ~(Returns(h) /\ UNCHANGED <<det, trigger>>) /\ ~Leave(h)
    <3>1. /\ trig' = TRUE /\ asked' # {} /\ Same(h)
          /\ call'[h].pc = (IF call[h].name = "photo" THEN "file" ELSE "movie")
          /\ UNCHANGED <<det, lock, strayed>>
      BY <1>0, <1>9, <2>4, RequestPlaces
    <3>2. ~strayed
      BY <3>1
    <3>3. Told(call[h], rec, failed, Live, Serving) /\ ~Live /\ w.pc # "fire"
      BY <1>4, <2>1, <3>2 DEF Told, Live, Unserved, Serving
    <3>4. (Serving /\ call[h].name # "photo") => (rec <=> call[h].ending)
      BY <1>1, <2>1, <3>3 DEF Told
    <3>5. Live' => Serving
      BY <1>2 DEF Live, Serving
    <3>6. Told(call'[h], rec, failed, Live', Serving)
      BY <1>1, <2>1, <3>1, <3>3, <3>4, <3>5 DEF Told, Same
    <3>7. QED
      BY <1>0, <1>1, <1>4, <2>1, <3>1, <3>2, <3>3, <3>6
  <2>5. QED
    BY <2>2, <2>3, <2>4
<1>10. CASE MovieReached(h)
  <2>1. /\ call[h].pc = "movie" /\ rec = ~call[h].ending /\ Same(h) /\ CallOnly
        /\ call'[h].pc = IF call[h].ending THEN "file" ELSE "hold"
    BY <1>0, <1>10, MoviePlaces
  <2>2. rec <=> ~call[h].ending
    BY <2>1
  <2>3. ASSUME ~strayed PROVE Told(call'[h], rec, failed, Live, Serving)
    <3>1. Told(call[h], rec, failed, Live, Serving) /\ ~Live
      BY <1>4, <2>1, <2>2, <2>3 DEF Told
    <3>2. QED
      BY <2>1, <2>2, <3>1 DEF Told, Same
  <2>4. QED
    BY <1>s, <1>v, <2>1, <2>3
<1>11. CASE MovieGivenUp(h)
  BY <1>11, <1>l DEF MovieGivenUp
<1>12. CASE EndHold(h)
  <2>1. /\ call[h].pc = "hold" /\ call'[h].pc = "mark" /\ CallOnly
        /\ call'[h].name = call[h].name /\ call'[h].ending = TRUE
    BY <1>0, <1>12, EndHoldPlaces
  <2>2. ASSUME ~strayed PROVE Told(call'[h], rec, failed, Live, Serving)
    BY <1>4, <2>1, <2>2 DEF Told
  <2>3. QED
    BY <1>s, <1>v, <2>1, <2>2
<1>13. CASE FileAnswered(h) \/ FileGivenUp(h)
  <2>1. /\ call[h].pc = "file" /\ Same(h) /\ call'[h].pc = "restore"
        /\ UNCHANGED <<det, trigger, lock, strayed>>
    BY <1>0, <1>13, FilePlaces
  <2>2. ~strayed => Told(call'[h], rec, failed, Live, Serving)
    BY <1>4, <2>1, ToldRestoring
  <2>3. QED
    BY <1>s, <2>1, <2>2
<1>14. CASE Restore(h)
  BY <1>14, <1>r DEF Restore
<1>15. CASE Arm(h)
  BY <1>1, <1>15 DEF Arm
<1>16. QED
  BY <1>5, <1>6, <1>7, <1>8, <1>9, <1>10, <1>11, <1>12, <1>13, <1>14, <1>15 DEF Call

\* What a movie command can come to, as far as the flag goes.
LEMMA ToggledFlag ==
  ASSUME FlagsTyped, NEW act, Toggled(act)
  PROVE  /\ (rec' <=> rec) \/ ~failed'
         /\ \/ rec' = ~rec /\ failed' = FALSE
            \/ ~rec /\ rec' = rec /\ failed' = failed
            \/ rec' = rec /\ failed' = TRUE
<1>1. \/ rec' = ~rec /\ failed' = FALSE
      \/ ~rec /\ rec' = rec /\ failed' = failed
      \/ rec' = rec /\ failed' = TRUE
  BY DEF Toggled
<1>2. QED
  BY ONLY <1>1

LEMMA ToggledConfirmed ==
  ASSUME FlagsTyped, Confirmed, NEW act, Toggled(act), confirms' = confirms
  PROVE  Confirmed'
<1>1. \/ rec' = ~rec /\ (confirms => rolling' = ~rec)
      \/ rec' = rec /\ rolling' = rolling /\ failed' = failed
      \/ failed' = TRUE
  BY DEF Toggled
<1>2. QED
  BY <1>1 DEF Confirmed

\* What the worker does while nothing strays.
LEMMA TruthWorker ==
  ASSUME TypeInv, TruthInv, ~strayed, "watch" \notin usage, Worker
  PROVE  /\ trig' => asked' # {} /\ w'.pc # "fire"
         /\ w'.pc = "fire" => w'.for # {}
         /\ Live' => Live
         /\ Confirmed'
         /\ \A h \in Hosts : Told(call[h], rec', failed', Live', Serving')
<1> DEFINE Goal == /\ trig' => asked' # {} /\ w'.pc # "fire"
                   /\ w'.pc = "fire" => w'.for # {}
                   /\ Live' => Live
                   /\ Confirmed'
                   /\ \A h \in Hosts : Told(call[h], rec', failed', Live', Serving')
<1>0. FlagsTyped /\ confirms' = confirms
  BY WorkerHosting DEF TypeInv, Hosting
<1>1. /\ trig => asked # {} /\ w.pc # "fire"
      /\ det # "auto"
      /\ w.pc = "fire" => w.for # {}
      /\ Confirmed
      /\ \A h \in Hosts : Told(call[h], rec, failed, Live, Serving)
  BY DEF TruthInv
<1>a. ASSUME UNCHANGED <<rec, rolling, failed>>, Live' => Live, Serving' => Serving
      PROVE  Confirmed' /\ \A h \in Hosts : Told(call[h], rec', failed', Live', Serving')
  <2>1. \A h \in Hosts : Told(call[h], rec, failed, Live', Serving')
    BY <1>1, <1>a, ToldStill
  <2>2. QED
    BY <1>0, <1>1, <1>a, <2>1 DEF Confirmed
<1>b. ASSUME ~ToggleMovie, ~FinalStop PROVE UNCHANGED <<rec, rolling, failed>>
  BY <1>b, StillSteps
<1>2. CASE ServeTrigger
  <2>1. /\ w.pc = "loop" /\ w'.pc = "fire" /\ w'.for = asked /\ trig /\ trig' = FALSE
        /\ UNCHANGED <<rec, rolling, failed>>
    BY <1>2, WorkerPlaces DEF ServeTrigger, Ends
  <2>2. Live /\ Live' /\ Serving /\ Serving'
    BY <1>1, <2>1 DEF Live, Unserved, Serving
  <2>3. QED
    BY <1>1, <1>a, <2>1, <2>2
<1>3. CASE Detect
  BY <1>1, <1>3 DEF Detect
<1>4. CASE Shoot \/ ToggleMovie
  <2>1. w.pc = "fire" /\ w'.pc = "loop" /\ trig' = trig
    BY <1>4, WorkerPlaces DEF Shoot, ToggleMovie, Numbered, trigger
  <2>2. Live /\ ~Live' /\ Serving /\ Serving' /\ ~trig'
    BY <1>1, <2>1 DEF Live, Unserved, Serving
  <2>3. Confirmed' /\ ((rec' <=> rec) \/ ~failed')
    <3>1. CASE Shoot
      BY <1>0, <1>1, <3>1 DEF Shoot, Confirmed
    <3>2. CASE ToggleMovie
      BY <1>0, <1>1, <3>2, ToggledFlag, ToggledConfirmed DEF ToggleMovie
    <3>3. QED
      BY <1>4, <3>1, <3>2
  <2>4. \A h \in Hosts : Told(call[h], rec', failed', Live', Serving')
    <3>1. \A h \in Hosts : Told(call[h], rec, failed, TRUE, Serving)
      BY <1>1, <2>2, ToldStill
    <3>2. \A h \in Hosts : Told(call[h], rec', failed', FALSE, Serving)
      BY <2>3, <3>1, ToldServed
    <3>3. QED
      BY <2>2, <3>2, ToldStill
  <2>5. QED
    BY <2>1, <2>2, <2>3, <2>4
<1>5. CASE SequenceShot \/ SequenceEnds \/ SilentRefusal \/ Announce \/ Fetch \/ Notify
  <2>1. w' = w /\ trig' = trig /\ asked' = asked /\ UNCHANGED <<rec, rolling, failed>>
    BY <1>5, WorkerPlaces DEF SequenceShot, SequenceEnds, SilentRefusal, Announce, Fetch, Notify,
       Ends, trigger
  <2>2. Live' = Live /\ Serving' = Serving
    BY <2>1 DEF Live, Unserved, Serving
  <2>3. QED
    BY <1>1, <1>a, <2>1, <2>2
<1>6. CASE IgnoreTrigger
  <2>1. w' = w /\ w.pc = "loop" /\ trig' = FALSE /\ UNCHANGED <<rec, rolling, failed>>
    BY <1>6, WorkerPlaces DEF IgnoreTrigger, Ends
  <2>2. ~Live' /\ Serving' = Serving /\ w'.pc # "fire"
    BY <2>1 DEF Live, Unserved, Serving
  <2>3. QED
    BY <1>a, <2>1, <2>2
<1>7. CASE ActRaises \/ LoopEnds \/ Exit
  <2>1. /\ w'.pc \in {"final", "gone"} /\ trig' = trig /\ asked' = asked
        /\ UNCHANGED <<rec, rolling, failed>>
    BY <1>7, WorkerPlaces DEF ActRaises, LoopEnds, Exit, Ends, trigger
  <2>2. ~Live' /\ ~Serving' /\ w'.pc # "fire"
    BY <2>1 DEF Live, Serving
  <2>3. QED
    BY <1>1, <1>a, <2>1, <2>2
<1>8. CASE FinalStop
  <2>1. w.pc = "final" /\ w'.pc = "last" /\ trig' = trig /\ asked' = asked
    BY <1>8, WorkerPlaces DEF FinalStop, trigger
  <2>2. ~Live /\ ~Serving /\ ~Live' /\ ~Serving' /\ w'.pc # "fire"
    BY <2>1 DEF Live, Serving
  <2>3. \/ rec /\ Toggled(0)
        \/ UNCHANGED <<rec, rolling, failed>>
    BY <1>8 DEF FinalStop
  <2>4. Confirmed'
    BY <1>0, <1>1, <2>3, ToggledConfirmed DEF Confirmed
  <2>5. /\ rec' => rec
        /\ ~rec' => ~failed' \/ (~rec /\ (failed' <=> failed))
    <3>1. CASE rec /\ Toggled(0)
      <4>1. \/ rec' = ~rec /\ failed' = FALSE
            \/ rec' = rec
        BY <1>0, <3>1, ToggledFlag
      <4>2. QED
        BY ONLY <3>1, <4>1
    <3>2. CASE UNCHANGED <<rec, rolling, failed>>
      BY ONLY <3>2
    <3>3. QED
      BY <2>3, <3>1, <3>2
  <2>6. \A h \in Hosts : Told(call[h], rec', failed', Live', Serving')
    <3>1. \A h \in Hosts : Told(call[h], rec, failed, FALSE, FALSE)
      BY <1>1, <2>2, ToldStill
    <3>2. \A h \in Hosts : Told(call[h], rec', failed', FALSE, FALSE)
      BY <2>5, <3>1, ToldFinal
    <3>3. QED
      BY <2>2, <3>2, ToldStill
  <2>7. QED
    BY <1>1, <2>1, <2>2, <2>4, <2>6
<1>9. QED
  BY <1>2, <1>3, <1>4, <1>5, <1>6, <1>7, <1>8 DEF Worker

LEMMA TruthStep ==
  ASSUME ReconnectsApart, TypeInv, LockInv, BorrowInv, TruthInv, [Next]_vars
  PROVE  TruthInv'
<1> DEFINE Goal == /\ trig' => asked' # {} /\ w'.pc # "fire"
                   /\ det' # "auto" /\ interval' # "demoted"
                   /\ w'.pc = "fire" => w'.for # {}
                   /\ lock' = NoHost => ~Live'
                   /\ Confirmed'
                   /\ \A h \in Hosts : Told(call'[h], rec', failed', Live', Serving')
<1> SUFFICES ASSUME ~strayed', "watch" \notin usage PROVE Goal
  BY UsageStays DEF TruthInv
<1>1. ~strayed => /\ trig => asked # {} /\ w.pc # "fire"
                  /\ det # "auto" /\ interval # "demoted"
                  /\ w.pc = "fire" => w.for # {}
                  /\ lock = NoHost => ~Live
                  /\ Confirmed
                  /\ \A h \in Hosts : Told(call[h], rec, failed, Live, Serving)
  BY DEF TruthInv
<1>2. CASE \E h \in Hosts : Call(h)
  <2>1. PICK h \in Hosts : Call(h)
    BY <1>2
  <2>2. UNCHANGED <<w, confirms, rec, rolling, failed, interval>>
    BY <2>1, CallFrame DEF Body, camera
  <2>3. Serving' = Serving
    BY <2>2 DEF Serving
  <2>4. /\ ~strayed
        /\ trig' => asked' # {} /\ w.pc # "fire"
        /\ det' # "auto"
        /\ lock' = NoHost => ~Live'
        /\ Told(call'[h], rec, failed, Live', Serving)
    BY <2>1, TruthCall
  <2>5. ASSUME NEW g \in Hosts PROVE Told(call'[g], rec', failed', Live', Serving')
    <3>1. CASE g = h
      BY <2>2, <2>3, <2>4, <3>1
    <3>2. CASE g # h
      <4>1. call'[g] = call[g] /\ lock # g
        BY <2>1, <3>2, CallsStep, LockCall
      <4>2. call[g] = Idle
        BY <4>1 DEF LockInv
      <4>3. QED
        BY <4>1, <4>2, ToldIdle
    <3>3. QED
      BY <3>1, <3>2
  <2>6. QED
    BY <1>1, <2>2, <2>4, <2>5 DEF Confirmed
<1>3. CASE Disarm \/ SelectBurst \/ Close \/ JoinGivesUp \/ ValidateSequence \/ Reads \/ UNCHANGED vars
  <2>1. /\ UNCHANGED <<w, trig, asked, confirms, rec, rolling, failed, lock, call, strayed>>
        /\ det' \in {det, "off"} /\ interval' \in {interval, "arming"}
    BY <1>3 DEF Disarm, SelectBurst, Close, JoinGivesUp, ValidateSequence, Reads, Body, vars,
       trigger, history, camera
  <2>2. Live' = Live /\ Serving' = Serving
    BY <2>1 DEF Live, Unserved, Serving
  <2>3. QED
    BY <1>1, <2>1, <2>2 DEF Confirmed
<1>a. CASE ArmSequence
  <2>1. UNCHANGED <<w, trig, asked, confirms, rec, rolling, failed, lock, call, strayed>>
    BY <1>a DEF ArmSequence, trigger, history, camera
  <2>2. Live' = Live /\ Serving' = Serving
    BY <2>1 DEF Live, Unserved, Serving
  <2>3. det' # "auto" /\ interval' # "demoted"
    BY <1>1, <1>a, <2>1 DEF ArmSequence
  <2>4. QED
    BY <1>1, <2>1, <2>2, <2>3 DEF Confirmed
<1>4. CASE Connect
  <2>1. usage \cap Captures = {}
    BY <1>4 DEF Connect, TypeInv, HostTyped, ReconnectsApart, Captures
  <2>2. \A h \in Hosts : call[h] = Idle
    <3>1. "none" \notin Captures
      BY DEF Captures
    <3>2. QED
      BY <2>1, <3>1 DEF LockInv
  <2>3. ~rec
    BY <2>1 DEF BorrowInv, Captures
  <2>4. /\ trig' = FALSE /\ w' = [pc |-> "loop", for |-> {}]
        /\ rolling' \in {rolling, FALSE}
        /\ UNCHANGED <<confirms, rec, failed, call, det, interval, strayed>>
    BY <1>4 DEF Connect, history
  <2>5. ~Live' /\ w'.pc # "fire"
    BY <2>4 DEF Live, Unserved
  <2>6. Confirmed'
    <3>1. confirms /\ ~failed => ~rolling
      BY <1>1, <2>3, <2>4 DEF Confirmed
    <3>2. rolling' => rolling
      BY <2>4
    <3>3. QED
      BY <2>3, <2>4, <3>1, <3>2 DEF Confirmed
  <2>7. \A h \in Hosts : Told(call'[h], rec', failed', Live', Serving')
    BY <2>2, <2>4, ToldIdle
  <2>8. QED
    BY <1>1, <2>4, <2>5, <2>6, <2>7
<1>5. CASE Worker
  <2>1. ~strayed /\ lock' = lock /\ call' = call
    BY <1>5, WorkerHosting DEF Hosting
  <2>2. det' # "auto" /\ interval' # "demoted"
    <3>1. UNCHANGED <<det, interval>> \/ SequenceOver
      BY <1>5, WorkerDetection
    <3>2. QED
      BY <1>1, <2>1, <3>1 DEF SequenceOver
  <2>3. QED
    BY <1>1, <1>5, <2>1, <2>2, TruthWorker
<1>6. QED
  BY <1>2, <1>3, <1>a, <1>4, <1>5 DEF Next

\* What a bounded capture was told of its recording is true while it relies on
\* it: the last movie command was accepted and is the one it asked for, and a body
\* that does what it accepts records during the hold, and no longer once the stop
\* was confirmed.  The trigger is one flag and the video trigger a toggle, so this
\* rests on the capture lock: it is the only thing that orders the requests.
THEOREM CapturesAreToldTheTruth ==
  ASSUME ReconnectsApart
  PROVE  Spec => []ToldTheTruth
<1>1. Init => BorrowInv
  BY BorrowedIdle DEF Init, BorrowInv
<1>2. Init => TruthInv
  <2> SUFFICES ASSUME Init PROVE TruthInv
    OBVIOUS
  <2>1. ~Live /\ w.pc # "fire" /\ ~trig /\ det = "off" /\ interval = "none" /\ Confirmed
    BY DEF Init, Live, Unserved, Confirmed
  <2>2. \A h \in Hosts : call[h] = Idle
    BY DEF Init
  <2>3. QED
    BY <2>1, <2>2, ToldIdle DEF TruthInv
<1>3. TypeInv /\ LockInv /\ BorrowInv /\ [Next]_vars => BorrowInv'
  BY BorrowStep
<1>4. TypeInv /\ LockInv /\ BorrowInv /\ TruthInv /\ [Next]_vars => TruthInv'
  BY TruthStep
<1>5. TruthInv => ToldTheTruth
  BY DEF TruthInv, ToldTheTruth, Told, Serving, Confirmed
<1>6. QED
  BY <1>1, <1>2, <1>3, <1>4, <1>5, Typed, Locks, PTL DEF Spec

-----------------------------------------------------------------------------
(***************************************************************************)
(* The result of a capture.  A file is stamped with the act that is the last *)
(* when it is announced, so one that was announced before a call began       *)
(* carries a stamp below the act the call asks for, wherever it is fetched.  *)
(***************************************************************************)
FileInv ==
  "connect" \notin usage =>
    \A f \in queued : f.act \notin due /\ f.act <= seq /\ f.stamp <= seq

\* What holds of a call that asks, when so many acts are numbered, these files
\* are due, these are queued, and these are the events.
Backlogged(c, numbered, pending, waiting, events) ==
  /\ c.backlog \subseteq 1..numbered
  /\ c.backlog \cap pending = {}
  /\ c.min <= numbered + 1
  /\ \A f \in waiting : f.act \in c.backlog => f.stamp < c.min
  /\ \A i \in DOMAIN events :
       (events[i].kind = "photo" /\ events[i].id > c.since /\ events[i].act \in c.backlog)
         => events[i].stamp # 0 /\ events[i].stamp < c.min

BacklogInv ==
  \A h \in Hosts : (Asking(call[h]) /\ call[h].pc # "mark")
                     => Backlogged(call[h], seq, due, queued, log)

\* What a step of the worker does to the acts and the files.
LEMMA WorkerFiles ==
  ASSUME TypeInv, Worker
  PROVE  /\ seq' \in {seq, seq + 1}
         /\ \A a \in due' : a \in due \/ a = seq + 1
         /\ \A f \in queued' : \/ f \in queued
                               \/ f.act \in due /\ f.act \notin due' /\ f.stamp = seq
<1>0. seq \in Nat /\ 0 \notin due
  BY CaptureAssumption DEF TypeInv, WorkerTyped
<1>1. CASE Shoot \/ ToggleMovie \/ SequenceShot \/ ActRaises
  <2>1. seq' = Act /\ queued' = queued /\ due' \subseteq due \cup {Act}
    BY <1>1, ToggledFiles DEF Shoot, ToggleMovie, Numbered, SequenceShot, ActRaises, files
  <2>2. QED
    BY <2>1 DEF Act
<1>2. CASE Announce
  <2>1. PICK act \in due : due' = due \ {act} /\ queued' = queued \cup {[act |-> act, stamp |-> seq]}
    BY <1>2 DEF Announce
  <2>2. seq' = seq
    BY <1>2 DEF Announce
  <2>3. QED
    BY <2>1, <2>2
<1>3. CASE FinalStop
  <2>1. due' = due /\ seq' = seq /\ queued' = queued
    BY <1>3, ToggledFiles DEF FinalStop
  <2>2. QED
    BY <2>1
<1>4. CASE ServeTrigger \/ IgnoreTrigger \/ Detect \/ SequenceEnds \/ SilentRefusal \/ Fetch
           \/ Notify \/ LoopEnds \/ Exit
  <2>1. due' = due /\ seq' = seq /\ queued' \subseteq queued
    BY <1>4 DEF ServeTrigger, IgnoreTrigger, Detect, SequenceEnds, SilentRefusal, Fetch, Notify,
       LoopEnds, Exit, files
  <2>2. QED
    BY <2>1
<1>5. QED
  BY <1>1, <1>2, <1>3, <1>4 DEF Worker

LEMMA FileStep ==
  ASSUME TypeInv, FileInv, [Next]_vars
  PROVE  FileInv'
<1>0. /\ seq \in Nat /\ due \subseteq 1..seq /\ queued \subseteq Files
      /\ \A f \in queued : f.act \in Nat /\ f.stamp \in Nat
  BY CaptureAssumption DEF TypeInv, WorkerTyped, Files
<1>1. CASE Worker
  <2>1. usage' = usage
    BY <1>1, OthersKeepCalls DEF Others
  <2>2. SUFFICES ASSUME "connect" \notin usage, NEW f \in queued'
                 PROVE  f.act \notin due' /\ f.act <= seq' /\ f.stamp <= seq'
    BY <2>1 DEF FileInv
  <2>3. /\ seq' \in {seq, seq + 1}
        /\ \A a \in due' : a \in due \/ a = seq + 1
        /\ f \in queued \/ (f.act \in due /\ f.act \notin due' /\ f.stamp = seq)
    BY <1>1, WorkerFiles
  <2>4. CASE f \in queued
    <3>1. f.act \notin due /\ f.act <= seq /\ f.stamp <= seq /\ f.act \in Nat /\ f.stamp \in Nat
      BY <1>0, <2>2, <2>4 DEF FileInv
    <3>2. QED
      BY <1>0, <2>3, <3>1
  <2>5. CASE f.act \in due /\ f.act \notin due' /\ f.stamp = seq
    <3>1. f.act \in 1..seq /\ seq \in Nat
      BY <1>0, <2>5
    <3>2. f.act <= seq' /\ seq <= seq'
      BY ONLY <2>3, <3>1
    <3>3. QED
      BY <2>5, <3>2
  <2>6. QED
    BY <2>3, <2>4, <2>5
<1>2. CASE Connect
  BY <1>2 DEF Connect, FileInv
<1>3. ASSUME NEW h \in Hosts, Call(h) PROVE UNCHANGED <<usage, queued, due, seq>>
  BY <1>3, CallFrame DEF Body, files
<1>4. CASE Disarm \/ SelectBurst \/ Close \/ JoinGivesUp \/ ValidateSequence \/ ArmSequence
           \/ Reads \/ UNCHANGED vars
  BY <1>4 DEF Disarm, SelectBurst, Close, JoinGivesUp, ValidateSequence, ArmSequence, Reads, vars,
     Body, files, FileInv
<1>5. QED
  BY <1>1, <1>2, <1>3, <1>4 DEF Next, FileInv

\* The worker and hosts that clear the log keep a waiting call apart from the
\* files of before it.
LEMMA BacklogKept ==
  ASSUME TypeInv, Worker, NEW c \in CallsMade, Backlogged(c, seq, due, queued, log)
  PROVE  Backlogged(c, seq', due', queued', log')
<1>0. /\ seq \in Nat /\ due \subseteq 1..seq /\ c.min \in Nat
      /\ \A f \in queued : f.stamp \in Nat \ {0}
  BY CaptureAssumption DEF TypeInv, WorkerTyped, CallsMade, Files
<1>1. /\ c.backlog \subseteq 1..seq
      /\ c.backlog \cap due = {}
      /\ c.min <= seq + 1
      /\ \A f \in queued : f.act \in c.backlog => f.stamp < c.min
  BY DEF Backlogged
<1>2. /\ seq' \in {seq, seq + 1}
      /\ \A a \in due' : a \in due \/ a = seq + 1
      /\ \A f \in queued' : f \in queued \/ f.act \in due
  BY WorkerFiles
<1>3. /\ c.backlog \subseteq 1..seq' /\ c.backlog \cap due' = {} /\ c.min <= seq' + 1
  BY <1>0, <1>1, <1>2
<1>4. \A f \in queued' : f.act \in c.backlog => f.stamp < c.min
  BY <1>1, <1>2
<1>5. ASSUME NEW i \in DOMAIN log', log'[i].kind = "photo", log'[i].id > c.since,
             log'[i].act \in c.backlog
      PROVE  log'[i].stamp # 0 /\ log'[i].stamp < c.min
  <2>1. CASE \E j \in DOMAIN log : log'[i] = log[j]
    BY <1>5, <2>1 DEF Backlogged
  <2>2. CASE \E e \in NewReports : \E n : log'[i] = Entry(n, e)
    <3>1. PICK e \in NewReports : \E n : log'[i] = Entry(n, e)
      BY <2>2
    <3>2. e.kind = "photo" /\ e.act = log'[i].act /\ e.stamp = log'[i].stamp
      BY <1>5, <3>1 DEF Entry
    <3>3. \E f \in queued : f.act = e.act /\ f.stamp = e.stamp
      BY <3>2 DEF NewReports
    <3>4. QED
      BY <1>0, <1>1, <1>5, <3>2, <3>3
  <2>3. QED
    <3>1. LogsReports
      BY WorkerLog
    <3>2. CASE UNCHANGED logVars
      BY <2>1, <3>2 DEF logVars
    <3>3. CASE ~UNCHANGED logVars
      <4>1. PICK events \in Seq(Reports) :
              AppendEvents(events) /\ \A k \in DOMAIN events : events[k] \in NewReports
        BY <3>1, <3>3 DEF LogsReports
      <4>2. \/ \E j \in DOMAIN log : log'[i] = log[j]
            \/ \E k \in DOMAIN events : log'[i] = Entry(counter + k, events[k])
        BY <4>1, Appended DEF TypeInv
      <4>3. QED
        BY <2>1, <2>2, <4>1, <4>2
    <3>4. QED
      BY <3>2, <3>3
<1>6. QED
  BY <1>3, <1>4, <1>5 DEF Backlogged

\* A call that asks starts with a backlog of old stamps.
LEMMA BacklogMarked ==
  ASSUME TypeInv, FileInv, "connect" \notin usage, NEW c,
         c.since = Watermark, c.min = seq + 1, c.backlog = {f.act : f \in queued}
  PROVE  Backlogged(c, seq, due, queued, log)
<1>0. /\ seq \in Nat
      /\ \A f \in queued : f.act \in Nat \ {0} /\ f.stamp \in Nat
      /\ \A f \in queued : f.act \notin due /\ f.act <= seq /\ f.stamp <= seq
  BY CaptureAssumption DEF TypeInv, WorkerTyped, Files, FileInv
<1>1. c.backlog \subseteq 1..seq /\ c.backlog \cap due = {}
  BY <1>0
<1>2. c.min <= seq + 1 /\ \A f \in queued : f.stamp < c.min
  BY <1>0
<1>3. ASSUME NEW i \in DOMAIN log PROVE ~(log[i].id > c.since)
  <2>1. log[i].id <= Watermark /\ Watermark \in 0..MaxEvents
    BY WatermarkNewest DEF TypeInv
  <2>2. log[i].id \in Int
    <3>1. DOMAIN log = 1..Len(log) /\ log \in Seq(Events)
      BY LenProperties DEF TypeInv, LogTyped
    <3>2. log[i] \in Events
      BY <3>1, ElementOfSeq
    <3>3. QED
      BY <3>2 DEF Events
  <2>3. QED
    BY <2>1, <2>2
<1>4. QED
  BY <1>1, <1>2, <1>3 DEF Backlogged

\* The backlog of a call is settled when it marks its wait.
LEMMA BacklogSame ==
  ASSUME NEW h \in Hosts, Same(h), Backlogged(call[h], seq, due, queued, log)
  PROVE  Backlogged(call'[h], seq, due, queued, log)
BY DEF Backlogged, Same

LEMMA BacklogCall ==
  ASSUME ReconnectsApart, TypeInv, LockInv, FileInv, BacklogInv, NEW h \in Hosts, Call(h),
         Asking(call'[h]), call'[h].pc # "mark"
  PROVE  Backlogged(call'[h], seq, due, queued, log)
<1>0. CallsTyped
  BY DEF TypeInv
<1>1. (Asking(call[h]) /\ call[h].pc # "mark") => Backlogged(call[h], seq, due, queued, log)
  BY DEF BacklogInv
<1>2. ~Returns(h) /\ ~Return(h)
  <2>1. ~Returns(h)
    BY <1>0, ReturnPlaces DEF Idle, Asking
  <2>2. QED
    BY <2>1 DEF Return
<1>3. ~Leave(h)
  BY <1>0, <1>2, LeavePlaces DEF Asking
<1>4. CASE Mark(h)
  <2>1. /\ call[h].pc = "mark" /\ call'[h].since = Watermark /\ call'[h].min = seq + 1
        /\ call'[h].backlog = {f.act : f \in queued}
    BY <1>0, <1>4, MarkPlaces
  <2>2. call[h].name \in usage \cap {"photo", "video", "stop"}
    BY <2>1 DEF LockInv, Asking, Captures
  <2>3. "connect" \notin usage
    BY <2>2 DEF ReconnectsApart, TypeInv, HostTyped
  <2> HIDE DEF Watermark
  <2>4. QED
    BY <2>1, <2>3, BacklogMarked
<1>5. CASE Request(h)
  <2>1. call[h].pc = "request" /\ Same(h)
    BY <1>0, <1>2, <1>3, <1>5, RequestPlaces
  <2>2. QED
    BY <1>1, <2>1, BacklogSame DEF Asking
<1>6. CASE MovieReached(h)
  <2>1. call[h].pc = "movie" /\ Same(h)
    BY <1>0, <1>6, MoviePlaces
  <2>2. QED
    BY <1>1, <2>1, BacklogSame DEF Asking
<1>7. ~Begin(h) /\ ~Check(h) /\ ~SetMode(h) /\ ~EndHold(h)
  BY <1>0, <1>2, BeginPlaces, CheckPlaces, SetModePlaces, EndHoldPlaces DEF Asking
<1>8. ~FileAnswered(h) /\ ~FileGivenUp(h) /\ ~MovieGivenUp(h) /\ ~Restore(h) /\ ~Arm(h)
  BY <1>0, <1>2, <1>3, FilePlaces DEF Asking, MovieGivenUp, Restore, Arm
<1>9. QED
  BY <1>4, <1>5, <1>6, <1>7, <1>8 DEF Call

LEMMA BacklogStep ==
  ASSUME ReconnectsApart, TypeInv, LockInv, FileInv, BacklogInv, [Next]_vars
  PROVE  BacklogInv'
<1>0. call \in [Hosts -> CallsMade]
  BY DEF TypeInv, CallsTyped
<1>1. ASSUME NEW h \in Hosts, Call(h) PROVE BacklogInv'
  <2>1. UNCHANGED <<log, seq, due, queued>>
    BY <1>1, CallFrame DEF Body, logVars, files
  <2>2. ASSUME NEW g \in Hosts, Asking(call'[g]), call'[g].pc # "mark"
        PROVE  Backlogged(call'[g], seq, due, queued, log)
    <3>1. CASE g = h
      BY <1>1, <2>2, <3>1, BacklogCall
    <3>2. CASE g # h
      BY <1>1, <2>2, <3>2, CallsStep DEF BacklogInv
    <3>3. QED
      BY <3>1, <3>2
  <2>3. QED
    BY <2>1, <2>2 DEF BacklogInv
<1>2. CASE Disarm \/ SelectBurst \/ Close \/ JoinGivesUp \/ ValidateSequence
           \/ (Reads /\ ReaderStep) \/ UNCHANGED vars
  <2>1. UNCHANGED <<call, log, seq, due, queued>>
    BY <1>2, ReaderTypes DEF Disarm, SelectBurst, Close, JoinGivesUp, ValidateSequence, Reads, vars,
       Body, files, logVars
  <2>2. QED
    BY <2>1 DEF BacklogInv
<1>a. CASE ArmSequence
  <2> DEFINE armed == Event("trigger", 0, 0)
  <2>1. UNCHANGED <<call, seq, due, queued>> /\ AppendEvents(<<armed>>)
    BY <1>a DEF ArmSequence, files
  <2>2. armed \in Reports /\ armed.kind # "photo"
    BY DEF Event, Reports, Kinds
  <2> HIDE DEF armed
  <2>3. <<armed>> \in Seq(Reports) /\ \A k \in DOMAIN <<armed>> : <<armed>>[k].kind # "photo"
    BY <2>2
  <2>4. ASSUME NEW i \in DOMAIN log', log'[i].kind = "photo"
        PROVE  \E j \in DOMAIN log : log'[i] = log[j]
    <3>1. \/ \E j \in DOMAIN log : log'[i] = log[j]
          \/ \E k \in DOMAIN <<armed>> : log'[i] = Entry(counter + k, <<armed>>[k])
      BY <2>1, <2>3, Appended DEF TypeInv
    <3>2. QED
      BY <2>3, <2>4, <3>1 DEF Entry
  <2>5. \A c : Backlogged(c, seq, due, queued, log) => Backlogged(c, seq', due', queued', log')
    BY <2>1, <2>4 DEF Backlogged
  <2>6. QED
    BY <2>1, <2>5 DEF BacklogInv
<1>3. CASE Reads /\ ClearEvents
  <2>1. UNCHANGED <<call, seq, due, queued>> /\ log' = <<>>
    BY <1>3 DEF Reads, ClearEvents, files
  <2>2. DOMAIN log' = {}
    BY <2>1, EmptySeq
  <2>3. QED
    BY <2>1, <2>2 DEF BacklogInv, Backlogged
<1>4. CASE Connect
  <2>1. "connect" \in usage /\ usage \in Usages /\ call' = call
    BY <1>4 DEF Connect, TypeInv, HostTyped
  <2>2. usage \cap {"photo", "video", "stop"} = {}
    BY <2>1 DEF ReconnectsApart
  <2>3. \A h \in Hosts : ~Asking(call[h])
    <3>1. \A h \in Hosts : Asking(call[h]) => call[h].pc # "idle"
      BY DEF Asking
    <3>2. \A h \in Hosts : Asking(call[h]) => call[h].name \in usage \cap {"photo", "video", "stop"}
      BY <3>1 DEF LockInv, Captures
    <3>3. QED
      BY <2>2, <3>2
  <2>4. QED
    BY <2>1, <2>3 DEF BacklogInv
<1>5. CASE Worker
  <2>1. call' = call
    BY <1>5, OthersKeepCalls DEF Others
  <2>2. QED
    BY <1>0, <1>5, <2>1, BacklogKept DEF BacklogInv
<1>6. QED
  BY <1>1, <1>2, <1>a, <1>3, <1>4, <1>5 DEF Next, Reads

\* An event of the backlog is stale for the call: its stamp is a known one, and
\* below the act it asked for.
LEMMA MisledStep ==
  ASSUME BacklogInv, ~misled, [Next]_vars
  PROVE  ~misled'
<1>1. ASSUME NEW h \in Hosts, FileAnswered(h) PROVE ~misled'
  <2>1. PICK i \in Since(call[h].since) :
          /\ Decisive(h, log[i])
          /\ misled' = (misled \/ (log[i].kind = "photo" /\ log[i].act \in call[h].backlog))
    BY <1>1 DEF FileAnswered
  <2>2. i \in DOMAIN log /\ log[i].id > call[h].since
    BY <2>1 DEF Since
  <2>3. Backlogged(call[h], seq, due, queued, log)
    BY <1>1 DEF BacklogInv, FileAnswered, Asking
  <2>4. ~(log[i].kind = "photo" /\ log[i].act \in call[h].backlog)
    BY <2>1, <2>2, <2>3 DEF Backlogged, Decisive, Stale
  <2>5. QED
    BY <2>1, <2>4
<1>2. ASSUME NEW h \in Hosts, Call(h), ~FileAnswered(h) PROVE misled' = misled
  <2>1. CallOnly => misled' = misled
    BY DEF CallOnly, history
  <2>2. Leave(h) => misled' = misled
    BY <2>1 DEF Leave, Return
  <2>3. Check(h) => misled' = misled
    BY <2>1, Checks DEF Return
  <2>4. QED
    BY <1>2, <2>1, <2>2, <2>3 DEF Call, Begin, SetMode, Mark, Request, Refuses, MovieReached,
       MovieGivenUp, EndHold, FileGivenUp, Restore, Arm, Return
<1>3. CASE Disarm \/ SelectBurst \/ Close \/ JoinGivesUp \/ Connect \/ ValidateSequence
           \/ ArmSequence \/ Reads \/ UNCHANGED vars
  BY <1>3 DEF Disarm, SelectBurst, Close, JoinGivesUp, Connect, ValidateSequence, ArmSequence,
     Reads, vars, history
<1>4. CASE Worker
  BY <1>4, WorkerHosting DEF Hosting
<1>5. QED
  BY <1>1, <1>2, <1>3, <1>4 DEF Next

\* No capture answers with a file that was announced before it asked for one:
\* with any number of acts, of threads and of events retained, whoever fetches
\* the backlog during its wait.
THEOREM BacklogIsNoResult ==
  ASSUME ReconnectsApart
  PROVE  Spec => []ResultIsNotBacklog
<1>1. Init => FileInv /\ BacklogInv /\ ~misled
  BY DEF Init, FileInv, BacklogInv, Idle, Asking
<1>2. TypeInv /\ FileInv /\ [Next]_vars => FileInv'
  BY FileStep
<1>3. TypeInv /\ LockInv /\ FileInv /\ BacklogInv /\ [Next]_vars => BacklogInv'
  BY BacklogStep
<1>4. BacklogInv /\ ~misled /\ [Next]_vars => ~misled'
  BY MisledStep
<1>5. ~misled => ResultIsNotBacklog
  BY DEF ResultIsNotBacklog
<1>6. QED
  BY <1>1, <1>2, <1>3, <1>4, <1>5, Typed, Locks, PTL DEF Spec

=============================================================================
