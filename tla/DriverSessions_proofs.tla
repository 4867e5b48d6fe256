------------------------ MODULE DriverSessions_proofs ------------------------
(***************************************************************************)
(* The two sessions of the drivers, for any bound.                           *)
(*                                                                           *)
(* Webcam: for a stream and a queue of any length, a movie holds its frames  *)
(* in the order of the stream, and none that was offered to it is            *)
(* unaccounted for.                                                          *)
(*                                                                           *)
(* Telescope: for any values of the dial and any traffic, the value the      *)
(* session reports is the one in force on the device.                        *)
(***************************************************************************)
EXTENDS WebcamSession, DwarfSession, SequenceTheorems, TLAPS

Frames == 1..MaxFrames

InOrder(s)  == \A i, j \in DOMAIN s : i < j => s[i] < s[j]
Before(s, x) == \A i \in DOMAIN s : s[i] < x
After(s, x)  == \A i \in DOMAIN s : x < s[i]

\* The types, in two parts: the program counters and flags, and the data.
ControlType ==
  /\ pc \in {"ready", "offer", "full", "join", "close", "closed", "off"}
  /\ then \in {"preview", "settle", "still", "start", "stop", "exit"}
  /\ lost \in BOOLEAN /\ flash \in BOOLEAN /\ recorder \in BOOLEAN /\ tee \in BOOLEAN
  /\ stop \in BOOLEAN /\ open \in BOOLEAN
  /\ gaveUp \in BOOLEAN /\ broke \in BOOLEAN /\ cut \in BOOLEAN
  /\ encoder \in {"get", "encode", "done"}

FrameType ==
  /\ latest \in Frames
  /\ consumed \in 0..latest
  /\ hand \in 0..MaxFrames /\ frame \in 0..MaxFrames
  /\ queue \in Seq(Frames) /\ Len(queue) <= QueueSize
  /\ movie \in Seq(Frames)
  /\ dropped \in Nat /\ slipped \in Nat /\ offered \in Nat

\* A recorder is there from start_movie() to the end of stop_movie() or exit(); the
\* tee, the stop event and the encoder agree with it.
Finishing == pc \in {"join", "close", "closed"}

RecorderAgrees ==
  /\ tee /\ pc # "off" => recorder
  /\ pc \in {"offer", "full"} => recorder
  /\ Finishing => recorder
  /\ recorder => (stop <=> Finishing)
  /\ Finishing /\ then = "stop" => ~tee
  /\ recorder /\ pc \notin {"close", "closed"} => ~gaveUp
  /\ recorder /\ pc # "closed" => ~cut
  /\ broke => encoder = "done"
  /\ recorder /\ encoder = "done" /\ ~broke => stop /\ queue = <<>>
  /\ pc \in {"close", "closed"} /\ ~gaveUp => encoder = "done"
  /\ ~recorder /\ ~gaveUp => encoder = "done" /\ (~broke => queue = <<>>)

\* A frame that was offered is in the movie, in the encoder, in the queue, in the
\* hand of the worker, or was dropped or slipped through; an encoder that raised
\* has lost one more, and a file that was not completed more than that.
InEncoder == IF encoder = "encode" THEN 1 ELSE 0
InHand    == IF pc \in {"offer", "full"} THEN 1 ELSE 0
Raised    == IF broke THEN 1 ELSE 0
Found     == Len(movie) + Len(queue) + InEncoder + InHand + dropped + slipped + Raised

Accounted ==
  /\ Found <= offered
  /\ ~cut => Found = offered
  /\ offered <= consumed

\* From the movie to the hand of the worker, frames are in the order of the stream.
StreamOrder ==
  /\ InOrder(movie) /\ InOrder(queue)
  /\ Before(movie, consumed + 1) /\ Before(queue, consumed + 1)
  /\ \A i \in DOMAIN queue : Before(movie, queue[i])
  /\ encoder = "encode" =>
       frame \in 1..consumed /\ Before(movie, frame) /\ After(queue, frame)
  /\ pc \in {"offer", "full"} =>
       /\ hand \in 1..consumed /\ Before(movie, hand) /\ Before(queue, hand)
       /\ encoder = "encode" => frame < hand

MovieInv == ControlType /\ FrameType /\ RecorderAgrees /\ Accounted /\ StreamOrder

-----------------------------------------------------------------------------
\* What Append and Tail do to frames.
LEMMA Appended ==
  ASSUME NEW s \in Seq(Frames), NEW x \in Frames
  PROVE  /\ Append(s, x) \in Seq(Frames)
         /\ Len(Append(s, x)) = Len(s) + 1
         /\ DOMAIN Append(s, x) = 1 .. Len(s) + 1
         /\ \A i \in 1 .. Len(s) : Append(s, x)[i] = s[i]
         /\ Append(s, x)[Len(s) + 1] = x
         /\ DOMAIN s = 1 .. Len(s) /\ Len(s) \in Nat
BY AppendProperties, LenProperties

LEMMA Shortened ==
  ASSUME NEW S, NEW s \in Seq(S), s # <<>>
  PROVE  /\ Head(s) \in S /\ Head(s) = s[1]
         /\ Tail(s) \in Seq(S)
         /\ Len(s) \in Nat \ {0} /\ Len(Tail(s)) = Len(s) - 1
         /\ DOMAIN s = 1 .. Len(s) /\ DOMAIN Tail(s) = 1 .. Len(s) - 1
         /\ \A i \in 1 .. Len(s) - 1 : Tail(s)[i] = s[i + 1]
BY HeadTailProperties, LenProperties, EmptySeq

LEMMA Removed ==
  ASSUME NEW s \in Seq(Frames), s # <<>>
  PROVE  /\ Head(s) \in Frames /\ Head(s) = s[1]
         /\ Tail(s) \in Seq(Frames)
         /\ Len(s) \in Nat \ {0} /\ Len(Tail(s)) = Len(s) - 1
         /\ DOMAIN s = 1 .. Len(s) /\ DOMAIN Tail(s) = 1 .. Len(s) - 1
         /\ \A i \in 1 .. Len(s) - 1 : Tail(s)[i] = s[i + 1]
BY Shortened

LEMMA SeqOfFrames ==
  ASSUME NEW s \in Seq(Frames)
  PROVE  \A i \in DOMAIN s : s[i] \in Frames
BY ElementOfSeq, LenProperties

LEMMA FramesAreInts == Frames \subseteq Int
BY DEF Frames

\* A later frame at the end keeps the order, and what bounds both bounds all.
LEMMA AppendOrder ==
  ASSUME NEW s \in Seq(Frames), NEW x \in Frames, InOrder(s), Before(s, x)
  PROVE  /\ InOrder(Append(s, x))
         /\ \A y \in Int : Before(s, y) /\ x < y => Before(Append(s, x), y)
         /\ \A y \in Int : After(s, y) /\ y < x => After(Append(s, x), y)
<1>1. \A i \in DOMAIN s : s[i] \in Int
  BY SeqOfFrames, FramesAreInts
<1>2. x \in Int /\ Len(s) \in Nat /\ DOMAIN s = 1..Len(s) /\ DOMAIN Append(s, x) = 1..(Len(s) + 1)
  BY Appended, FramesAreInts
<1>3. \A i \in DOMAIN Append(s, x) : Append(s, x)[i] = IF i = Len(s) + 1 THEN x ELSE s[i]
  BY <1>2, Appended
<1>4. InOrder(Append(s, x))
  BY <1>1, <1>2, <1>3 DEF InOrder, Before
<1>5. \A y \in Int : Before(s, y) /\ x < y => Before(Append(s, x), y)
  BY <1>1, <1>2, <1>3 DEF Before
<1>6. \A y \in Int : After(s, y) /\ y < x => After(Append(s, x), y)
  BY <1>1, <1>2, <1>3 DEF After
<1>7. QED
  BY <1>4, <1>5, <1>6

\* Without its head a sequence keeps its order, and all of it is after the head.
LEMMA TailOrder ==
  ASSUME NEW s \in Seq(Frames), s # <<>>, InOrder(s)
  PROVE  /\ InOrder(Tail(s)) /\ After(Tail(s), Head(s))
         /\ \A i \in DOMAIN Tail(s) : \E j \in DOMAIN s : Tail(s)[i] = s[j]
         /\ Head(s) \in Frames
<1>1. \A i \in DOMAIN s : s[i] \in Int
  BY SeqOfFrames, FramesAreInts
<1>2. \A i \in DOMAIN Tail(s) : i + 1 \in DOMAIN s /\ Tail(s)[i] = s[i + 1]
  BY Removed
<1>3. QED
  BY <1>1, <1>2, Removed DEF InOrder, After

\* A frame less, or an end less, keeps the order and every bound.
Part(t, s) ==
  /\ t \in Seq(Frames)
  /\ InOrder(s) => InOrder(t)
  /\ \A y \in Int : Before(s, y) => Before(t, y)

LEMMA WithoutPart ==
  ASSUME NEW s \in Seq(Frames), NEW i \in 1 .. Len(s)
  PROVE  Part(Without(s, i), s) /\ Len(Without(s, i)) = Len(s) - 1
<1> DEFINE t == Without(s, i)
           at(j) == IF j < i THEN j ELSE j + 1
<1>1. Len(s) \in Nat /\ DOMAIN s = 1 .. Len(s) /\ i \in Int /\ 1 <= i /\ i <= Len(s)
  BY LenProperties
<1>2. t = [j \in 1 .. Len(s) - 1 |-> s[at(j)]]
  BY DEF Without
<1>3. \A j \in 1 .. Len(s) - 1 : at(j) \in DOMAIN s
  BY <1>1
<1>4. \A j, k \in 1 .. Len(s) - 1 : j < k => at(j) < at(k)
  BY <1>1
<1> HIDE DEF t, at
<1>5. \A j \in 1 .. Len(s) - 1 : t[j] = s[at(j)] /\ s[at(j)] \in Frames
  BY <1>2, <1>3, SeqOfFrames
<1>6. t \in Seq(Frames) /\ DOMAIN t = 1 .. Len(s) - 1 /\ Len(t) = Len(s) - 1
  <2>1. t \in [1 .. Len(s) - 1 -> Frames]
    BY <1>2, <1>5
  <2>2. Len(s) - 1 \in Nat
    BY <1>1
  <2>3. QED
    BY <2>1, <2>2, SeqDef, LenProperties
<1>7. InOrder(s) => InOrder(t)
  BY <1>3, <1>4, <1>5, <1>6 DEF InOrder
<1>8. \A y \in Int : Before(s, y) => Before(t, y)
  BY <1>3, <1>5, <1>6 DEF Before
<1>9. QED
  BY <1>6, <1>7, <1>8 DEF Part, t

LEMMA PrefixPart ==
  ASSUME NEW s \in Seq(Frames), NEW k \in 0 .. Len(s)
  PROVE  Part(SubSeq(s, 1, k), s) /\ Len(SubSeq(s, 1, k)) = k
<1>1. Len(s) \in Nat /\ DOMAIN s = 1 .. Len(s) /\ k \in Nat /\ k <= Len(s)
  BY LenProperties
<1>2. /\ SubSeq(s, 1, k) \in Seq(Frames) /\ Len(SubSeq(s, 1, k)) = k
      /\ DOMAIN SubSeq(s, 1, k) = 1 .. k
      /\ \A j \in 1 .. k : SubSeq(s, 1, k)[j] = s[j]
  BY <1>1, SubSeqProperties, LenProperties
<1>3. 1 .. k \subseteq DOMAIN s
  BY <1>1
<1>4. QED
  BY <1>2, <1>3 DEF Part, InOrder, Before

-----------------------------------------------------------------------------
LEMMA SizesPositive == MaxFrames \in Nat \ {0} /\ QueueSize \in Nat \ {0}
BY WebcamAssumption

\* A bound of a sequence of frames may be raised.
LEMMA BeforeLater ==
  ASSUME NEW s \in Seq(Frames), NEW x \in Int, NEW y \in Int, Before(s, x), x <= y
  PROVE  Before(s, y)
<1>1. \A i \in DOMAIN s : s[i] \in Int
  BY SeqOfFrames, FramesAreInts
<1>2. QED
  BY <1>1 DEF Before

\* An empty sequence is in any order.
LEMMA EmptyOrder ==
  /\ <<>> \in Seq(Frames) /\ Len(<<>>) = 0
  /\ InOrder(<<>>) /\ \A x : Before(<<>>, x) /\ After(<<>>, x)
BY EmptySeq, SMT DEF InOrder, Before, After

LEMMA MovieInvInit == Init => MovieInv
<1> SUFFICES ASSUME Init PROVE MovieInv
  OBVIOUS
<1>1. ControlType /\ RecorderAgrees
  BY DEF Init, ControlType, RecorderAgrees, Finishing
<1>2. FrameType
  BY EmptyOrder, SizesPositive DEF Init, FrameType, Frames, NoFrame
<1>3. Accounted
  BY EmptyOrder DEF Init, Accounted, Found, Raised, InEncoder, InHand
<1>4. StreamOrder
  BY EmptyOrder DEF Init, StreamOrder
<1>5. QED
  BY <1>1, <1>2, <1>3, <1>4 DEF MovieInv

\* A frame is read: the worker has it in hand, later than any before.
LEMMA ReadKeeps ==
  ASSUME MovieInv, NEW purpose \in {"preview", "settle", "still"}, Read(purpose)
  PROVE  MovieInv'
<1> USE DEF MovieInv
<1>1. /\ consumed' = latest /\ hand' = latest /\ latest' = latest /\ consumed < latest
      /\ pc = "ready" /\ pc' \in {"ready", "offer"} /\ (pc' = "offer" <=> tee)
      /\ offered' = IF tee THEN offered + 1 ELSE offered
      /\ then' = purpose
      /\ UNCHANGED <<lost, queueVars, encodeVars, recorder, tee, stop, open, gaveUp, cut, flash>>
  BY DEF Read, Use, Fresh, FrameType, Frames
<1>2. ControlType'
  BY <1>1 DEF ControlType, queueVars, encodeVars
<1>3. FrameType'
  BY <1>1, WebcamAssumption DEF FrameType, Frames, queueVars, encodeVars
<1>4. RecorderAgrees'
  BY <1>1 DEF RecorderAgrees, Finishing, queueVars, encodeVars
<1>5. Accounted'
  <2>1. Len(movie) \in Nat /\ Len(queue) \in Nat
    BY LenProperties DEF FrameType
  <2>2. Found' = (IF tee THEN Found + 1 ELSE Found)
    BY <1>1, <2>1 DEF Found, Raised, InEncoder, InHand, queueVars, encodeVars, FrameType
  <2>3. Found \in Nat
    BY <2>1 DEF Found, Raised, InEncoder, InHand, FrameType
  <2>4. QED
    BY <1>1, <2>2, <2>3 DEF Accounted, FrameType, Frames
<1>6. StreamOrder'
  <2>1. latest \in Int /\ consumed \in Int /\ consumed + 1 <= latest /\ latest >= 1
    BY <1>1 DEF FrameType, Frames
  <2>2. Before(movie, latest) /\ Before(queue, latest)
    BY <2>1, BeforeLater DEF FrameType, StreamOrder
  <2>3. Before(movie, latest + 1) /\ Before(queue, latest + 1)
    BY <2>1, <2>2, BeforeLater DEF FrameType
  <2>4. encoder = "encode" => frame \in 1..consumed /\ frame < latest
    BY <2>1 DEF StreamOrder, FrameType
  <2>5. QED
    BY <1>1, <2>1, <2>2, <2>3, <2>4 DEF StreamOrder, queueVars, encodeVars
<1>7. QED
  BY <1>2, <1>3, <1>4, <1>5, <1>6

\* The frame in hand joins the queue, at the place of the oldest if it is full.
LEMMA OfferKeeps ==
  ASSUME MovieInv, pc \in {"offer", "full"},
         NEW rest \in Seq(Frames), queue' = Append(rest, hand),
         \/ rest = queue /\ dropped' = dropped
         \/ queue # <<>> /\ rest = Tail(queue) /\ dropped' = dropped + 1,
         Len(rest) < QueueSize,
         pc' = "ready",
         UNCHANGED <<then, hand, sourceVars, slipped, encodeVars, movieVars, flash>>
  PROVE  MovieInv'
<1> USE DEF MovieInv
<1>1. hand \in Frames /\ hand \in Int
  BY DEF StreamOrder, FrameType, Frames
<1>2. /\ queue' \in Seq(Frames) /\ Len(queue') = Len(rest) + 1
      /\ DOMAIN queue' = 1..Len(rest) + 1 /\ DOMAIN rest = 1..Len(rest) /\ Len(rest) \in Nat
      /\ \A i \in DOMAIN queue' : queue'[i] = IF i = Len(rest) + 1 THEN hand ELSE rest[i]
  BY <1>1, Appended
<1>3. \A i \in DOMAIN rest : \E j \in DOMAIN queue : rest[i] = queue[j]
  <2>1. CASE rest = queue
    BY <2>1
  <2>2. CASE queue # <<>> /\ rest = Tail(queue)
    BY <2>2, TailOrder DEF FrameType, StreamOrder
  <2>3. QED
    BY <2>1, <2>2
<1>4. InOrder(rest) /\ Before(rest, hand) /\ Before(rest, consumed + 1)
  <2>1. InOrder(rest)
    BY TailOrder DEF StreamOrder, FrameType
  <2>2. QED
    BY <1>3, <2>1 DEF StreamOrder, Before
<1>5. Len(rest) + dropped' = Len(queue) + dropped /\ dropped' \in Nat
  <2>1. dropped \in Nat /\ Len(queue) \in Nat
    BY LenProperties DEF FrameType
  <2>2. CASE rest = queue /\ dropped' = dropped
    BY <2>1, <2>2
  <2>3. CASE queue # <<>> /\ rest = Tail(queue) /\ dropped' = dropped + 1
    <3>1. queue \in Seq(Frames)
      BY DEF FrameType
    <3>2. Len(rest) = Len(queue) - 1
      BY ONLY <2>3, <3>1, Removed
    <3>3. QED
      BY ONLY <2>1, <2>3, <3>2, SMT
  <2>4. QED
    BY <2>2, <2>3
<1>6. ControlType'
  BY DEF ControlType, sourceVars, encodeVars, movieVars
<1>7. FrameType'
  BY <1>1, <1>2, WebcamAssumption DEF FrameType, Frames, sourceVars, encodeVars, movieVars
<1>8. RecorderAgrees'
  BY DEF RecorderAgrees, Finishing, sourceVars, encodeVars, movieVars
<1>9. Accounted'
  <2>1. Len(movie) \in Nat /\ Len(queue) \in Nat
    BY LenProperties DEF FrameType
  <2>2. Len(queue') + dropped' = Len(queue) + dropped + 1 /\ dropped' \in Nat /\ Len(queue') \in Nat
    BY <1>2, <1>5, <2>1 DEF FrameType
  <2>3. /\ InEncoder' = InEncoder /\ InHand = 1 /\ InHand' = 0 /\ InEncoder \in Nat
        /\ Raised' = Raised /\ Raised \in Nat
    BY DEF InEncoder, InHand, Raised, encodeVars
  <2>4. Len(movie') = Len(movie) /\ slipped' = slipped /\ slipped \in Nat /\ dropped \in Nat
    BY DEF encodeVars, FrameType
  <2>5. Found' = Found
    <3> DEFINE other == Len(movie) + InEncoder + slipped + Raised
    <3>1. Found = other + (Len(queue) + dropped + InHand)
      BY ONLY <2>1, <2>3, <2>4 DEF Found
    <3>2. Found' = other + (Len(queue') + dropped' + 0)
      BY ONLY <2>1, <2>2, <2>3, <2>4 DEF Found
    <3>3. other \in Nat
      BY ONLY <2>1, <2>3, <2>4
    <3>4. QED
      BY ONLY <2>1, <2>2, <2>3, <2>4, <3>1, <3>2, <3>3
  <2>6. QED
    BY <2>5 DEF Accounted, sourceVars, movieVars
<1>10. StreamOrder'
  <2>1. InOrder(queue') /\ Before(queue', consumed + 1)
    BY <1>1, <1>4, AppendOrder DEF StreamOrder, FrameType, Frames
  <2>2. \A i \in DOMAIN queue' : Before(movie, queue'[i])
    BY <1>2, <1>3 DEF StreamOrder
  <2>3. encoder = "encode" => After(queue', frame)
    BY <1>2, <1>3 DEF StreamOrder, After
  <2>4. QED
    BY <2>1, <2>2, <2>3 DEF StreamOrder, sourceVars, encodeVars, movieVars
<1>11. QED
  BY <1>6, <1>7, <1>8, <1>9, <1>10

\* The encoder takes the oldest frame of the queue.
LEMMA TakeKeeps ==
  ASSUME MovieInv, EncoderTakes
  PROVE  MovieInv'
<1> USE DEF MovieInv
<1>1. /\ encoder = "get" /\ queue # <<>> /\ frame' = Head(queue) /\ queue' = Tail(queue)
      /\ encoder' = "encode"
      /\ UNCHANGED <<workerVars, sourceVars, dropped, slipped, movie, broke, movieVars, flash>>
  BY DEF EncoderTakes
<1>2. /\ Head(queue) \in Frames /\ Head(queue) = queue[1] /\ 1 \in DOMAIN queue
      /\ Tail(queue) \in Seq(Frames) /\ Len(Tail(queue)) = Len(queue) - 1 /\ Len(queue) \in Nat
      /\ \A i \in DOMAIN Tail(queue) : \E j \in DOMAIN queue : Tail(queue)[i] = queue[j]
  BY <1>1, Removed DEF FrameType
<1>3. ControlType'
  BY <1>1 DEF ControlType, workerVars, sourceVars, movieVars
<1>4. FrameType'
  BY <1>1, <1>2, WebcamAssumption DEF FrameType, Frames, workerVars, sourceVars, movieVars
<1>5. RecorderAgrees'
  BY <1>1 DEF RecorderAgrees, Finishing, workerVars, sourceVars, movieVars
<1>6. Accounted'
  <2>1. Len(movie) \in Nat
    BY LenProperties DEF FrameType
  <2>2. Found' = Found
    BY <1>1, <1>2, <2>1 DEF Found, Raised, InEncoder, InHand, workerVars, FrameType
  <2>3. QED
    BY <1>1, <2>2 DEF Accounted, sourceVars, movieVars
<1>7. StreamOrder'
  <2>1. InOrder(Tail(queue)) /\ After(Tail(queue), Head(queue))
    BY <1>1, TailOrder DEF StreamOrder, FrameType
  <2>2. Before(Tail(queue), consumed + 1) /\ (pc \in {"offer", "full"} => Before(Tail(queue), hand))
    BY <1>2 DEF StreamOrder, Before
  <2>3. \A i \in DOMAIN Tail(queue) : Before(movie, Tail(queue)[i])
    BY <1>2 DEF StreamOrder
  <2>4. Before(movie, Head(queue)) /\ Head(queue) \in 1..consumed
    BY <1>2 DEF StreamOrder, Before, Frames, FrameType
  <2>5. pc \in {"offer", "full"} => Head(queue) < hand
    BY <1>2 DEF StreamOrder, Before
  <2>6. QED
    BY <1>1, <2>1, <2>2, <2>3, <2>4, <2>5 DEF StreamOrder, workerVars, sourceVars
<1>8. QED
  BY <1>3, <1>4, <1>5, <1>6, <1>7

\* It writes the frame, or raises and loses one.
LEMMA WriteKeeps ==
  ASSUME MovieInv, EncoderWrites \/ EncoderBreaks
  PROVE  MovieInv'
<1> USE DEF MovieInv
<1>1. /\ encoder = "encode" /\ frame' = 0
      /\ UNCHANGED <<workerVars, sourceVars, queueVars, movieVars, flash>>
      /\ \/ encoder' = "get" /\ broke' = broke
         \/ encoder' = "done" /\ broke' = TRUE
  BY DEF EncoderWrites, EncoderBreaks, NoFrame
<1>2. frame \in Frames /\ frame \in Int /\ frame < consumed + 1 /\ ~broke
  BY <1>1 DEF StreamOrder, FrameType, Frames, RecorderAgrees
<1> DEFINE grown == Append(movie, frame)
<1>3. /\ grown \in Seq(Frames) /\ Len(grown) = Len(movie) + 1 /\ Len(movie) \in Nat
      /\ InOrder(grown)
      /\ \A y \in Int : Before(movie, y) /\ frame < y => Before(grown, y)
  BY <1>2, AppendOrder, Appended, LenProperties, <1>1 DEF StreamOrder, FrameType
<1>4. Part(movie', grown) /\ Len(movie') = Len(movie) + 1 - (IF broke' THEN 1 ELSE 0)
  <2>1. CASE EncoderWrites
    BY <1>2, <1>3, <2>1 DEF EncoderWrites, Part
  <2>2. CASE EncoderBreaks
    <3>1. PICK i \in 1 .. Len(grown) : movie' = Without(grown, i) /\ broke' = TRUE
      BY <1>3, <2>2 DEF EncoderBreaks
    <3>2. Part(movie', grown) /\ Len(movie') = Len(grown) - 1
      BY ONLY <1>3, <3>1, WithoutPart
    <3>3. QED
      BY ONLY <1>3, <3>1, <3>2
  <2>3. QED
    BY <2>1, <2>2
<1> HIDE DEF grown
<1>5. ControlType'
  <2>1. encoder' \in {"get", "encode", "done"} /\ broke' \in BOOLEAN
    BY <1>1, Zenon DEF ControlType
  <2>2. QED
    BY <1>1, <2>1 DEF ControlType, workerVars, sourceVars, queueVars, movieVars
<1>6. FrameType'
  BY <1>1, <1>4, WebcamAssumption DEF FrameType, Part, workerVars, sourceVars, queueVars, movieVars
<1>7. RecorderAgrees'
  BY <1>1, <1>2 DEF RecorderAgrees, Finishing, workerVars, sourceVars, queueVars, movieVars
<1>8. Accounted'
  <2>1. Len(queue) \in Nat
    BY LenProperties DEF FrameType
  <2>2. /\ InEncoder = 1 /\ InEncoder' = 0 /\ InHand' = InHand /\ InHand \in Nat
        /\ Raised = 0 /\ Raised' = IF broke' THEN 1 ELSE 0
    BY <1>1, <1>2 DEF InEncoder, InHand, Raised, workerVars
  <2>3. Found' = Found
    BY <1>1, <1>3, <1>4, <2>1, <2>2 DEF Found, queueVars, FrameType
  <2>4. QED
    BY <1>1, <2>3 DEF Accounted, sourceVars, movieVars
<1>9. StreamOrder'
  <2>1. InOrder(movie') /\ \A y \in Int : Before(movie, y) /\ frame < y => Before(movie', y)
    BY <1>3, <1>4 DEF Part
  <2>2. \A i \in DOMAIN queue : queue[i] \in Int /\ frame < queue[i]
    BY <1>1, SeqOfFrames, FramesAreInts DEF StreamOrder, After, FrameType
  <2>3. \A i \in DOMAIN queue : Before(movie', queue[i])
    BY <2>1, <2>2 DEF StreamOrder
  <2>4. pc \in {"offer", "full"} => Before(movie', hand)
    BY <1>1, <2>1 DEF StreamOrder
  <2>5. Before(movie', consumed + 1)
    BY <1>2, <2>1 DEF StreamOrder, FrameType
  <2>6. QED
    BY <1>1, <2>1, <2>3, <2>4, <2>5 DEF StreamOrder, workerVars, sourceVars, queueVars
<1>10. QED
  BY <1>5, <1>6, <1>7, <1>8, <1>9

\* A movie starts with nothing but the frame in hand.
LEMMA StartKeeps ==
  ASSUME MovieInv, StartMovie
  PROVE  MovieInv'
<1> USE DEF MovieInv
<1>1. latest \in Frames /\ latest \in Nat /\ 1 <= latest
  BY WebcamAssumption DEF FrameType, Frames
<1>2. ControlType' /\ RecorderAgrees'
  BY DEF StartMovie, ControlType, RecorderAgrees, Finishing
<1>3. FrameType'
  BY <1>1, EmptyOrder, SizesPositive DEF StartMovie, FrameType, NoFrame, Frames
<1>4. Accounted'
  BY <1>1, EmptyOrder DEF StartMovie, Accounted, Found, Raised, InEncoder, InHand
<1>5. StreamOrder'
  BY <1>1, EmptyOrder DEF StartMovie, StreamOrder
<1>6. QED
  BY <1>2, <1>3, <1>4, <1>5

\* Around finish() no frame moves.
LEMMA FinishKeeps ==
  ASSUME MovieInv, ControlType', RecorderAgrees', cut' = cut,
         pc \in {"ready", "join", "close", "closed"},
         pc' \in {"ready", "join", "close", "closed", "off"},
         UNCHANGED <<hand, latest, consumed, queueVars, encodeVars, offered>>
  PROVE  MovieInv'
<1>1. FrameType'
  BY DEF MovieInv, FrameType, queueVars, encodeVars
<1>2. Accounted'
  BY DEF MovieInv, Accounted, Found, Raised, InEncoder, InHand, queueVars, encodeVars
<1>3. StreamOrder'
  BY DEF MovieInv, StreamOrder, queueVars, encodeVars
<1>4. QED
  BY <1>1, <1>2, <1>3 DEF MovieInv

\* The file is completed, or loses its end.
LEMMA FinishFileKeeps ==
  ASSUME MovieInv, FinishFile
  PROVE  MovieInv'
<1> USE DEF MovieInv
<1>1. /\ pc = "close" /\ pc' = "closed" /\ open' \in BOOLEAN
      /\ UNCHANGED <<then, hand, sourceVars, queueVars, encoder, frame, broke>>
      /\ UNCHANGED <<recorder, tee, stop, offered, gaveUp, flash>>
  BY DEF FinishFile
<1>2. ControlType'
  BY <1>1 DEF FinishFile, ControlType, sourceVars, queueVars
<1>3. RecorderAgrees'
  BY <1>1 DEF RecorderAgrees, Finishing, queueVars
<1>4. CASE movie' = movie /\ cut' = cut
  BY <1>1, <1>2, <1>3, <1>4, FinishKeeps DEF encodeVars, sourceVars
<1>5. CASE cut' = TRUE /\ \E k \in 0 .. Len(movie) : movie' = SubSeq(movie, 1, k)
  <2>1. Part(movie', movie) /\ Len(movie') \in 0 .. Len(movie)
    BY <1>5, PrefixPart DEF FrameType
  <2>2. Len(movie) \in Nat /\ Len(queue) \in Nat
    BY LenProperties DEF FrameType
  <2>3. FrameType'
    BY <1>1, <2>1 DEF FrameType, Part, sourceVars, queueVars
  <2>4. Accounted'
    <3>1. InEncoder \in Nat /\ InHand = 0 /\ Raised \in Nat
          /\ InEncoder' = InEncoder /\ InHand' = 0 /\ Raised' = Raised
      BY <1>1 DEF InEncoder, InHand, Raised
    <3>2. Found' <= Found
      BY <1>1, <2>1, <2>2, <3>1 DEF Found, FrameType, queueVars
    <3>3. Found \in Nat /\ Found' \in Nat
      BY <1>1, <2>1, <2>2, <3>1 DEF Found, FrameType, queueVars
    <3>4. QED
      <4>1. /\ offered' = offered /\ consumed' = consumed /\ cut' = TRUE
            /\ Found <= offered /\ offered <= consumed /\ offered \in Nat
        BY <1>1, <1>5 DEF Accounted, FrameType, sourceVars
      <4>2. Found' <= offered' /\ offered' <= consumed'
        BY ONLY <3>2, <3>3, <4>1
      <4>3. QED
        BY <4>1, <4>2 DEF Accounted
  <2>5. StreamOrder'
    <3>1. InOrder(movie') /\ \A y \in Int : Before(movie, y) => Before(movie', y)
      BY <2>1 DEF Part, StreamOrder
    <3>2. consumed + 1 \in Int /\ \A i \in DOMAIN queue : queue[i] \in Int
      <4>1. latest \in Int /\ consumed \in Int
        BY SizesPositive DEF FrameType, Frames
      <4>2. \A i \in DOMAIN queue : queue[i] \in Int
        BY SeqOfFrames, FramesAreInts DEF FrameType
      <4>3. QED
        BY <4>1, <4>2
    <3>3. encoder = "encode" => frame \in Int
      BY DEF StreamOrder
    <3>4. QED
      BY <1>1, <3>1, <3>2, <3>3 DEF StreamOrder, sourceVars, queueVars
  <2>6. QED
    BY <1>2, <1>3, <2>3, <2>4, <2>5
<1>6. QED
  BY <1>4, <1>5 DEF FinishFile

LEMMA MovieInvStep == MovieInv /\ [Next]_vars => MovieInv'
<1> SUFFICES ASSUME MovieInv, [Next]_vars PROVE MovieInv'
  OBVIOUS
<1> USE DEF MovieInv
<1>1. CASE Preview \/ Settle \/ Trigger
  BY <1>1, ReadKeeps DEF Preview, Settle, Trigger
<1>2. CASE Offer
  <2>1. CASE Len(queue) < QueueSize
    BY <1>2, <2>1, OfferKeeps DEF Offer, Use, FrameType
  <2>2. CASE ~(Len(queue) < QueueSize)
    <3>1. /\ pc = "offer" /\ pc' = "full"
          /\ UNCHANGED <<then, hand, queue, sourceVars, dropped, slipped, encodeVars, movieVars, flash>>
      BY <1>2, <2>2 DEF Offer
    <3>2. ControlType' /\ FrameType' /\ RecorderAgrees'
      BY <3>1 DEF ControlType, FrameType, RecorderAgrees, Finishing, sourceVars, encodeVars, movieVars
    <3>3. Accounted' /\ StreamOrder'
      BY <3>1 DEF Accounted, Found, Raised, InEncoder, InHand, StreamOrder, sourceVars,
           encodeVars, movieVars
    <3>4. QED
      BY <3>2, <3>3
  <2>3. QED
    BY <2>1, <2>2
<1>3. CASE DropOldest
  <2>1. CASE queue # <<>>
    <3>1. Tail(queue) \in Seq(Frames) /\ Len(Tail(queue)) < QueueSize /\ Tail(queue) # queue
      BY <2>1, Removed, WebcamAssumption DEF FrameType
    <3>2. QED
      BY <1>3, <2>1, <3>1, OfferKeeps DEF DropOldest, Use
  <2>2. CASE queue = <<>>
    <3>1. /\ pc = "full" /\ pc' = "ready" /\ slipped' = slipped + 1
          /\ UNCHANGED <<then, hand, queue, sourceVars, dropped, encodeVars, movieVars, flash>>
      BY <1>3, <2>2 DEF DropOldest, Use
    <3>2. ControlType' /\ FrameType' /\ RecorderAgrees'
      BY <3>1 DEF ControlType, FrameType, RecorderAgrees, Finishing, sourceVars, encodeVars, movieVars
    <3>3. Len(movie) \in Nat /\ Len(queue) \in Nat
      BY LenProperties DEF FrameType
    <3>4. Accounted'
      BY <3>1, <3>3 DEF Accounted, Found, Raised, InEncoder, InHand, sourceVars, encodeVars,
           movieVars, FrameType
    <3>5. StreamOrder'
      BY <3>1 DEF StreamOrder, sourceVars, encodeVars, movieVars
    <3>6. QED
      BY <3>2, <3>4, <3>5
  <2>3. QED
    BY <2>1, <2>2
<1>4. CASE Encoder
  <2>1. CASE EncoderEnds
    <3>1. /\ encoder = "get" /\ stop /\ queue = <<>> /\ encoder' = "done"
          /\ UNCHANGED <<workerVars, sourceVars, queueVars, frame, movie, broke, movieVars, flash>>
      BY <2>1 DEF EncoderEnds, Finished
    <3>2. ControlType' /\ FrameType' /\ RecorderAgrees'
      BY <3>1 DEF ControlType, FrameType, RecorderAgrees, Finishing, workerVars, sourceVars,
           queueVars, movieVars
    <3>3. Accounted' /\ StreamOrder'
      BY <3>1 DEF Accounted, Found, Raised, InEncoder, InHand, StreamOrder, workerVars,
           sourceVars, queueVars, movieVars
    <3>4. QED
      BY <3>2, <3>3
  <2>2. QED
    BY <1>4, <2>1, TakeKeeps, WriteKeeps DEF Encoder
<1>5. CASE StartMovie
  BY <1>5, StartKeeps
<1>6. CASE (\E purpose \in {"stop", "exit"} : Finish(purpose)) \/ Join \/ FinishFile \/ Close \/ Exit
  <2>1. ASSUME NEW purpose \in {"stop", "exit"}, Finish(purpose) PROVE MovieInv'
    <3>1. ControlType' /\ RecorderAgrees'
      BY <2>1 DEF Finish, ControlType, RecorderAgrees, Finishing, sourceVars, queueVars, encodeVars
    <3>2. QED
      BY <2>1, <3>1, FinishKeeps DEF Finish, sourceVars
  <2>2. CASE Join
    <3>1. ControlType' /\ RecorderAgrees'
      BY <2>2 DEF Join, ControlType, RecorderAgrees, Finishing, sourceVars, queueVars, encodeVars
    <3>2. QED
      BY <2>2, <3>1, FinishKeeps DEF Join, sourceVars
  <2>3. CASE Close
    <3>1. ControlType' /\ RecorderAgrees'
      BY <2>3 DEF Close, ControlType, RecorderAgrees, Finishing, queueVars, encodeVars
    <3>2. QED
      BY <2>3, <3>1, FinishKeeps DEF Close
  <2>4. CASE Exit
    <3>1. ControlType' /\ RecorderAgrees'
      BY <2>4 DEF Exit, ControlType, RecorderAgrees, Finishing, queueVars, encodeVars, movieVars
    <3>2. QED
      BY <2>4, <3>1, FinishKeeps DEF Exit, movieVars
  <2>5. QED
    BY <1>6, <2>1, <2>2, <2>3, <2>4, FinishFileKeeps
<1>7. CASE Publish \/ Leave
  <2>1. /\ (latest' = latest + 1 /\ latest < MaxFrames) \/ latest' = latest
        /\ lost' \in BOOLEAN
        /\ UNCHANGED <<workerVars, consumed, queueVars, encodeVars, movieVars, flash>>
    BY <1>7 DEF Publish, Leave, ControlType
  <2>2. ControlType' /\ RecorderAgrees'
    BY <2>1 DEF ControlType, RecorderAgrees, Finishing, workerVars, queueVars, encodeVars, movieVars
  <2>3. FrameType'
    BY <2>1, SizesPositive DEF FrameType, Frames, workerVars, queueVars, encodeVars, movieVars
  <2>4. Accounted' /\ StreamOrder'
    BY <2>1 DEF Accounted, Found, Raised, InEncoder, InHand, StreamOrder, workerVars, queueVars,
         encodeVars, movieVars
  <2>5. QED
    BY <2>2, <2>3, <2>4
<1>8. CASE TriggerFlash \/ ArmFlash \/ Pump \/ (\E n \in 1..MaxNames : Fetch(n)) \/ UNCHANGED vars
  <2>1. /\ UNCHANGED <<workerVars, sourceVars, queueVars, encodeVars, movieVars>>
        /\ flash' \in BOOLEAN
    BY <1>8 DEF TriggerFlash, ArmFlash, Pump, Fetch, vars, ControlType
  <2>2. QED
    BY <2>1 DEF ControlType, FrameType, RecorderAgrees, Finishing, Accounted, Found, Raised, InEncoder,
         InHand, StreamOrder,
                workerVars, sourceVars, queueVars, encodeVars, movieVars
<1>9. QED
  BY <1>1, <1>2, <1>3, <1>4, <1>5, <1>6, <1>7, <1>8 DEF Next, Worker

\* A movie holds its frames in the order of the stream; when it is over and its file
\* could be completed, every frame that was offered is in it, was dropped and counted,
\* or slipped through, but for a queue and a frame where finish() did not wait or the
\* encoder raised (webcam_session.py, _MovieRecorder).
THEOREM MovieWhole == Spec => []MovieIsWhole
<1>1. MovieInv => MovieIsWhole
  <2> DEFINE counted == Len(movie) + dropped + slipped
  <2> SUFFICES ASSUME MovieInv
               PROVE  /\ InOrder(movie)
                      /\ ~recorder /\ ~cut =>
                           /\ ~gaveUp /\ ~broke => counted = offered
                           /\ counted \in offered - (QueueSize + 1) .. offered
    BY DEF MovieIsWhole, InOrder
  <2>1. InOrder(movie)
    BY DEF MovieInv, StreamOrder
  <2>2. ASSUME ~recorder, ~cut
        PROVE  /\ ~gaveUp /\ ~broke => counted = offered
               /\ counted \in offered - (QueueSize + 1) .. offered
    <3>1. /\ Len(queue) \in Nat /\ Len(queue) <= QueueSize /\ Len(movie) \in Nat
          /\ dropped \in Nat /\ slipped \in Nat /\ offered \in Nat /\ QueueSize \in Nat
      BY LenProperties, SizesPositive DEF MovieInv, FrameType
    <3>2. InHand = 0 /\ InEncoder + Raised \in 0 .. 1 /\ InEncoder \in Nat /\ Raised \in Nat
      BY <2>2 DEF MovieInv, RecorderAgrees, InHand, InEncoder, Raised
    <3>3. counted + Len(queue) + InEncoder + Raised = offered
      BY <2>2, <3>1, <3>2 DEF MovieInv, Accounted, Found
    <3>4. ~gaveUp /\ ~broke => Len(queue) = 0 /\ InEncoder = 0 /\ Raised = 0
      BY <2>2, EmptyOrder DEF MovieInv, RecorderAgrees, InEncoder, Raised
    <3>5. QED
      BY <3>1, <3>2, <3>3, <3>4
  <2>3. QED
    BY <2>1, <2>2
<1>2. QED
  BY <1>1, MovieInvInit, MovieInvStep, PTL DEF Spec

-----------------------------------------------------------------------------
\* What is announced, fetched and named; a call that is to name a file may.
FileInv ==
  /\ names \in 0..MaxNames
  /\ events \in Seq(1..MaxNames) /\ \A i \in DOMAIN events : events[i] <= names
  /\ objects \subseteq 1..names /\ owed \subseteq 1..names /\ movies \subseteq 1..names
  /\ pc \in {"offer", "full"} /\ then = "still" => names < MaxNames
  /\ Finishing /\ then = "stop" => names < MaxNames

LEMMA AnnounceKeeps ==
  ASSUME FileInv, NEW new, Announce(new), names < MaxNames,
         pc' \notin {"offer", "full", "join", "close", "closed"}
  PROVE  FileInv'
<1>1. names \in Nat /\ MaxNames \in Nat
  BY WebcamAssumption DEF FileInv
<1> DEFINE n == names + 1
<1>2. n \in 1..MaxNames /\ names' = n
  BY <1>1 DEF Announce, FileInv
<1>3. events' = Append(events, n) /\ objects' = objects \cup {n} /\ owed' = owed
      /\ movies' \subseteq movies \cup {n}
  BY DEF Announce
<1>4. names < n
  BY <1>1
<1> HIDE DEF n
<1>5. /\ events' \in Seq(1..MaxNames)
      /\ DOMAIN events' = 1..Len(events) + 1 /\ Len(events) \in Nat
      /\ \A i \in 1..Len(events) : events'[i] = events[i]
      /\ events'[Len(events) + 1] = n
      /\ DOMAIN events = 1..Len(events)
  BY <1>2, <1>3, AppendProperties, LenProperties DEF FileInv
<1>6. \A i \in DOMAIN events : events[i] \in Int
  <2>1. \A i \in DOMAIN events : events[i] \in 1..MaxNames
    BY ElementOfSeq, LenProperties DEF FileInv
  <2>2. QED
    BY <2>1
<1>7. \A i \in DOMAIN events' : events'[i] <= names'
  <2>1. n \in Int /\ \A i \in DOMAIN events : events[i] <= names
    BY <1>2 DEF FileInv
  <2>2. \A i \in DOMAIN events : events[i] <= n
    BY <1>1, <1>4, <1>6, <2>1
  <2>3. ASSUME NEW i \in DOMAIN events' PROVE events'[i] <= n
    <3>1. CASE i \in DOMAIN events
      BY <1>5, <2>2, <3>1
    <3>2. CASE i = Len(events) + 1
      BY <1>5, <2>1, <3>2
    <3>3. QED
      BY <1>5, <3>1, <3>2
  <2>4. QED
    BY <1>2, <2>3
<1>8. objects' \subseteq 1..n /\ owed' \subseteq 1..n /\ movies' \subseteq 1..n
  BY <1>1, <1>2, <1>3, <1>4 DEF FileInv
<1>9. QED
  BY <1>1, <1>2, <1>5, <1>7, <1>8 DEF FileInv, Finishing

LEMMA FileInvStep == MovieInv /\ FileInv /\ [Next]_vars => FileInv'
<1> SUFFICES ASSUME MovieInv, FileInv, [Next]_vars PROVE FileInv'
  OBVIOUS
<1>1. ASSUME NEW purpose \in {"preview", "settle", "still"}, Read(purpose) PROVE FileInv'
  <2>1. pc = "ready" /\ then' = purpose /\ (purpose = "still" => names < MaxNames)
    BY <1>1 DEF Read
  <2>2. CASE tee
    BY <1>1, <2>1, <2>2 DEF Read, FileInv, Finishing, fileVars
  <2>3. CASE ~tee /\ purpose = "still"
    BY <1>1, <2>1, <2>3, AnnounceKeeps DEF Read, Use
  <2>4. CASE ~tee /\ purpose # "still"
    BY <1>1, <2>1, <2>4 DEF Read, Use, FileInv, Finishing, fileVars
  <2>5. QED
    BY <2>2, <2>3, <2>4
<1>2. CASE Offer \/ DropOldest
  <2>1. pc \in {"offer", "full"}
    BY <1>2 DEF Offer, DropOldest
  <2>2. CASE Use(then) /\ then = "still"
    BY <2>1, <2>2, AnnounceKeeps DEF Use, FileInv
  <2>3. CASE Use(then) /\ then # "still"
    BY <2>3 DEF Use, FileInv, Finishing, fileVars
  <2>4. CASE ~Use(then)
    <3>1. pc' = "full" /\ pc = "offer" /\ UNCHANGED <<then, fileVars>>
      BY <1>2, <2>4 DEF Offer, DropOldest, fileVars
    <3>2. QED
      BY <3>1 DEF FileInv, Finishing, fileVars
  <2>5. QED
    BY <2>2, <2>3, <2>4
<1>3. CASE TriggerFlash
  <2>1. pc' = "ready" /\ names < MaxNames /\ Announce("still")
    BY <1>3 DEF TriggerFlash, workerVars
  <2>2. QED
    BY <2>1, AnnounceKeeps
<1>4. CASE Close
  <2>1. CASE then = "stop"
    BY <1>4, <2>1, AnnounceKeeps DEF Close, FileInv, Finishing
  <2>2. CASE then # "stop"
    BY <1>4, <2>2 DEF Close, FileInv, Finishing, fileVars
  <2>3. QED
    BY <2>1, <2>2
<1>5. CASE StartMovie \/ (\E purpose \in {"stop", "exit"} : Finish(purpose)) \/ Join \/ FinishFile \/ Exit
  <2>1. UNCHANGED fileVars
    BY <1>5 DEF StartMovie, Finish, Join, FinishFile, Exit, movieVars
  <2>2. pc' \in {"offer", "full"} => then' # "still"
    BY <1>5 DEF StartMovie, Finish, Join, FinishFile, Exit
  <2>3. Finishing' /\ then' = "stop" => names < MaxNames
    BY <1>5 DEF StartMovie, Finish, Join, FinishFile, Exit, FileInv, Finishing
  <2>4. QED
    BY <2>1, <2>2, <2>3 DEF FileInv, Finishing, fileVars
<1>6. CASE Pump
  <2>1. /\ events # <<>> /\ owed' = owed \cup {Head(events)} /\ events' = Tail(events)
        /\ UNCHANGED <<pc, then, objects, names, movies>>
    BY <1>6 DEF Pump, workerVars
  <2>2. events \in Seq(1..MaxNames) /\ \A i \in DOMAIN events : events[i] <= names
    BY DEF FileInv
  <2>3. /\ Tail(events) \in Seq(1..MaxNames)
        /\ Head(events) = events[1] /\ Head(events) \in 1..MaxNames
        /\ Len(events) \in Nat \ {0} /\ DOMAIN events = 1..Len(events)
        /\ DOMAIN Tail(events) = 1..Len(events) - 1
        /\ \A i \in 1..Len(events) - 1 : Tail(events)[i] = events[i + 1]
    BY <2>1, <2>2, Shortened
  <2>4. \A i \in DOMAIN events' : events'[i] <= names
    <3>1. \A i \in 1..Len(events) - 1 : i + 1 \in DOMAIN events
      BY <2>3
    <3>2. QED
      BY <2>1, <2>2, <2>3, <3>1
  <2>5. owed' \subseteq 1..names
    <3>1. Head(events) \in 1..names
      BY <2>2, <2>3, WebcamAssumption DEF FileInv
    <3>2. QED
      BY <2>1, <3>1 DEF FileInv
  <2>6. QED
    BY <2>1, <2>3, <2>4, <2>5 DEF FileInv, Finishing
<1>7. CASE \E n \in 1..MaxNames : Fetch(n)
  BY <1>7 DEF Fetch, FileInv, Finishing, workerVars
<1>8. CASE Publish \/ Leave \/ Encoder \/ ArmFlash \/ UNCHANGED vars
  BY <1>8 DEF Publish, Leave, Encoder, EncoderTakes, EncoderWrites, EncoderBreaks, EncoderEnds, ArmFlash, vars,
              FileInv, Finishing, workerVars, fileVars
<1>9. QED
  BY <1>1, <1>2, <1>3, <1>4, <1>5, <1>6, <1>7, <1>8 DEF Next, Worker, Preview, Settle, Trigger

\* Every reachable state is well typed: the queue of the recorder is never longer
\* than its limit, nothing is named beyond the names given, and no movie counts
\* more frames than the stream had.
THEOREM TypeCorrect == Spec => []TypeOK
<1>1. Init => FileInv
  BY WebcamAssumption, EmptySeq DEF Init, FileInv, Finishing
<1>2. MovieInv /\ FileInv => TypeOK
  <2> SUFFICES ASSUME MovieInv, FileInv PROVE TypeOK
    OBVIOUS
  <2>1. /\ latest \in 1..MaxFrames /\ consumed \in 0..latest
        /\ dropped \in Nat /\ slipped \in Nat /\ offered \in Nat
        /\ Len(movie) \in Nat /\ Len(queue) \in Nat
    BY LenProperties DEF MovieInv, FrameType, Frames
  <2>2. latest \in 0..MaxFrames /\ consumed \in 0..MaxFrames /\ consumed <= latest
    BY ONLY <2>1, SizesPositive
  <2>3. dropped <= offered /\ slipped <= offered /\ offered <= consumed
    <3>1. InEncoder \in Nat /\ InHand \in Nat /\ Raised \in Nat
      BY DEF InEncoder, InHand, Raised
    <3>2. Found <= offered /\ offered <= consumed
      BY DEF MovieInv, Accounted
    <3>3. QED
      BY ONLY <2>1, <3>1, <3>2 DEF Found
  <2>4. dropped \in 0..MaxFrames /\ slipped \in 0..MaxFrames /\ offered \in 0..MaxFrames
    BY ONLY <2>1, <2>2, <2>3, SizesPositive
  <2>5. queue \in Seq(1..MaxFrames) /\ movie \in Seq(1..MaxFrames)
    BY DEF MovieInv, FrameType, Frames
  <2>6. QED
    BY <2>2, <2>4, <2>5 DEF MovieInv, ControlType, FrameType, FileInv, TypeOK
<1>3. QED
  BY <1>1, <1>2, FileInvStep, MovieInvInit, MovieInvStep, PTL DEF Spec

-----------------------------------------------------------------------------
(***************************************************************************)
(* The telescope.  What DialTruthful needs: nobody else ever answers the     *)
(* write that waits (SetOnce), the device is in manual mode from the moment  *)
(* a write may leave (ManualKept), and the one lock request is over before,  *)
(* so that a lost lock stays lost (LockFirst).                               *)
(***************************************************************************)

\* What a sequence holds after one more element ...
LEMMA Lengthened ==
  ASSUME NEW S, NEW s \in Seq(S), NEW e \in S
  PROVE  /\ Append(s, e) \in Seq(S)
         /\ DOMAIN Append(s, e) = DOMAIN s \cup {Len(s) + 1}
         /\ Len(s) + 1 \notin DOMAIN s
         /\ \A i \in DOMAIN s : Append(s, e)[i] = s[i]
         /\ Append(s, e)[Len(s) + 1] = e
OBVIOUS

\* ... and without its first.
LEMMA Shifted ==
  ASSUME NEW S, NEW s \in Seq(S), s # <<>>
  PROVE  /\ Tail(s) \in Seq(S)
         /\ 1 \in DOMAIN s /\ Head(s) = s[1] /\ Head(s) \in S
         /\ \A i \in DOMAIN Tail(s) : i + 1 \in DOMAIN s /\ i + 1 # 1 /\ Tail(s)[i] = s[i + 1]
OBVIOUS

\* The types, but for the flags.
WireTyped ==
  /\ toDevice \in Seq(Call)
  /\ toHost \in Seq(Packet)
CallTyped ==
  /\ step \in Handshake \cup {"ready", "exit", "off"}
  /\ call \in Call \cup {NoCall}
  /\ table \subseteq Keys
  /\ reply \in {"none", "ok", "refused", "error"}
  /\ calls \in 0..MaxCalls
NotesTyped == notes \in Seq(Keys) /\ Len(notes) <= Backlog
DialTyped  == expo \in Values \cup {NoValue} /\ dial \in Values \cup {NoValue}
AlbumTyped ==
  /\ album \in 0..MaxFiles
  /\ seen \subseteq 1..MaxFiles
  /\ windows \in Nat
  /\ windows + (IF call.kind = "photo" THEN 1 ELSE 0) <= calls + 1
FlagsTyped ==
  /\ reader \in BOOLEAN /\ up \in BOOLEAN /\ manual \in BOOLEAN /\ master \in BOOLEAN
  /\ dials \in BOOLEAN /\ sentMode \in BOOLEAN /\ unsure \in BOOLEAN

DwarfTypeInv == WireTyped /\ CallTyped /\ NotesTyped /\ DialTyped /\ AlbumTyped /\ FlagsTyped

LEMMA DwarfTypeParts == DwarfTypeInv => DwarfTypeOK
<1> SUFFICES ASSUME DwarfTypeInv PROVE DwarfTypeOK
  OBVIOUS
<1>1. windows \in 0..(MaxCalls + 1)
  BY DwarfAssumption DEF DwarfTypeInv, AlbumTyped, CallTyped
<1>2. {reader, up, manual, master, dials, sentMode, unsure} \subseteq BOOLEAN
  BY DEF DwarfTypeInv, FlagsTyped
<1> QED
  BY <1>1, <1>2 DEF DwarfTypeInv, WireTyped, CallTyped, NotesTyped, DialTyped,
       AlbumTyped, DwarfTypeOK

LEMMA DwarfTypeInit == DwarfInit => DwarfTypeInv
<1> SUFFICES ASSUME DwarfInit PROVE DwarfTypeInv
  OBVIOUS
<1>1. WireTyped /\ CallTyped /\ NotesTyped
  BY DwarfAssumption DEF DwarfInit, WireTyped, CallTyped, NotesTyped, Handshake
<1>2. DialTyped /\ AlbumTyped
  BY DwarfAssumption DEF DwarfInit, DialTyped, AlbumTyped, NoCall
<1>3. FlagsTyped
  BY DEF DwarfInit, FlagsTyped
<1> QED
  BY <1>1, <1>2, <1>3 DEF DwarfTypeInv

\* What the calls do to the wire.
LEMMA SendRun ==
  ASSUME DwarfTypeInv, NEW k \in Kinds, NEW v \in Values \cup {NoValue}, Send(k, v)
  PROVE  /\ call = NoCall /\ call' = [kind |-> k, value |-> v] /\ call' \in Call
         /\ table' = AnsweredBy(k) /\ reply' = "none" /\ table' \subseteq Keys
         /\ toDevice' \in Seq(Call)
         /\ up => toDevice' = Append(toDevice, call')
         /\ ~up => toDevice' = toDevice
         /\ UNCHANGED <<toHost, reader, up, notes, deviceVars>>
<1>1. [kind |-> k, value |-> v] \in Call
  BY DEF Call
<1>2. AnsweredBy(k) \subseteq Keys
  BY DEF AnsweredBy, Keys
<1>3. toDevice \in Seq(Call)
  BY DEF DwarfTypeInv, WireTyped
<1> QED
  BY <1>1, <1>2, <1>3 DEF Send, Idle

LEMMA OutcomeRun ==
  ASSUME NEW r, Outcome(r)
  PROVE  /\ call # NoCall /\ call' = NoCall /\ table' = {} /\ reply' = "none"
         /\ (reply # "none" /\ r = reply) \/ (reply = "none" /\ r = "error")
         /\ r = "error" /\ call.kind = "set" => unsure'
         /\ ~unsure' => ~unsure
         /\ unsure' \in BOOLEAN
         /\ UNCHANGED deviceVars
BY DEF Outcome, Idle

-----------------------------------------------------------------------------
\* The session: what call may be under way, what may answer it, and that a dead
\* link carries nothing.
CallFits ==
  /\ step \in Handshake => call.kind \in {"none", step} /\ dial = NoValue /\ ~sentMode
  /\ step = "ready" => call.kind \in {"none", "photo", "steer", "expmode", "set"}
  /\ step = "exit" => call.kind = "close"
  /\ step = "off" => call.kind = "none"
  /\ call.kind = "set" => sentMode
  /\ dial # NoValue => sentMode
  /\ table # {} => table = AnsweredBy(call.kind)
  /\ call # NoCall /\ reply = "none" => table = AnsweredBy(call.kind)
  /\ table # {} => reply = "none"
  /\ ~up => toDevice = <<>> /\ toHost = <<>>

Waits(k)    == \E i \in DOMAIN toDevice : toDevice[i].kind = k
Comes(k)    == \E i \in DOMAIN toHost : toHost[i].key = k
Told(k, ok) == \E i \in DOMAIN toHost : toHost[i] = [key |-> k, ok |-> ok]
OneRequest(k) ==
  \A i, j \in DOMAIN toDevice : toDevice[i].kind = k /\ toDevice[j].kind = k => i = j
OneAnswer(k) ==
  \A i, j \in DOMAIN toHost : toHost[i].key = k /\ toHost[j].key = k => i = j

\* The one lock request is over when the handshake goes on, and before it is
\* served nobody speaks of a lock: once taken away, the lock does not come back.
LockFirst ==
  /\ Waits("lock") => step = "lock" /\ call.kind = "lock" /\ reply = "none"
  /\ OneRequest("lock")
  /\ step = "state" \/ (step = "lock" /\ call = NoCall) \/ Waits("lock")
       => ~master /\ ~Comes("lock") /\ ~Comes("mode")

\* Until one is given up, one write at most is on the wire, and it is the one the
\* worker waits for.
SetOnce ==
  ~unsure =>
    /\ \A i \in DOMAIN toDevice : toDevice[i].kind = "set" => toDevice[i] = call
    /\ Waits("set") \/ Comes("set") => call.kind = "set" /\ reply = "none"
    /\ OneRequest("set") /\ OneAnswer("set")
    /\ ~(Waits("set") /\ Comes("set"))

\* Manual mode is never left, and it is on when the device has said so.
ManualKept ==
  /\ sentMode => manual
  /\ Told("expmode", TRUE) => manual
  /\ call.kind = "expmode" /\ reply = "ok" => manual

\* The value in force is the one of the write the device has acknowledged; while
\* a write is refused, or has not been served, it is the one on the dial.
ExpoKept ==
  master /\ ~unsure =>
    /\ call.kind = "set" /\ (reply = "ok" \/ Told("set", TRUE)) => expo = call.value
    /\ dial # NoValue /\ (\/ call.kind # "set" \/ reply = "refused"
                          \/ Waits("set") \/ Told("set", FALSE))
         => dial = expo

DialInv == CallFits /\ LockFirst /\ SetOnce /\ ManualKept /\ ExpoKept

LEMMA DialInvInit == DwarfInit => DialInv
<1> SUFFICES ASSUME DwarfInit PROVE DialInv
  OBVIOUS
<1>1. toDevice = <<>> /\ toHost = <<>> /\ DOMAIN toDevice = {} /\ DOMAIN toHost = {}
  BY DEF DwarfInit
<1>2. CallFits
  BY <1>1 DEF DwarfInit, CallFits, NoCall
<1> QED
  BY <1>1, <1>2 DEF DwarfInit, DialInv, LockFirst, SetOnce, ManualKept, ExpoKept, Waits,
       Comes, Told,
                    OneRequest, OneAnswer, NoCall

LEMMA DialInvTruthful == DwarfTypeInv /\ DialInv => DialTruthful
BY DEF DialInv, ManualKept, ExpoKept, CallFits, DialTruthful, Idle, NoCall

\* The device takes the first request off the wire and answers it under its key,
\* or, of the lock, under "mode".
LEMMA ServeRun ==
  ASSUME DwarfTypeInv, DeviceServes
  PROVE  \E c \in Call, ok \in BOOLEAN, key \in Keys :
           LET p == [key |-> key, ok |-> ok] IN
           /\ 1 \in DOMAIN toDevice /\ toDevice[1] = c
           /\ \A i \in DOMAIN toDevice' :
                i + 1 \in DOMAIN toDevice /\ i + 1 # 1 /\ toDevice'[i] = toDevice[i + 1]
           /\ toDevice' \in Seq(Call) /\ toHost' \in Seq(Packet)
           /\ key = c.kind \/ (key = "mode" /\ c.kind = "lock")
           /\ DOMAIN toHost' = DOMAIN toHost \cup {Len(toHost) + 1}
           /\ \A i \in DOMAIN toHost : toHost'[i] = toHost[i]
           /\ toHost'[Len(toHost) + 1] = p
           /\ ok => master \/ c.kind \in {"state", "lock"}
           /\ expo' = IF ok /\ c.kind = "set" THEN c.value ELSE expo
           /\ manual' = (manual \/ (ok /\ c.kind = "expmode"))
           /\ master' = (master \/ (ok /\ c.kind = "lock"))
<1>1. toDevice \in Seq(Call) /\ toHost \in Seq(Packet) /\ toDevice # <<>>
  BY DEF DwarfTypeInv, WireTyped, DeviceServes
<1> DEFINE c == Head(toDevice)
<1>2. PICK ok \in BOOLEAN, key \in {c.kind} \cup (IF c.kind = "lock" THEN {"mode"} ELSE {}) :
        /\ toDevice' = Tail(toDevice)
        /\ ok => master \/ c.kind \in {"state", "lock"}
        /\ expo' = IF ok /\ c.kind = "set" THEN c.value ELSE expo
        /\ manual' = (manual \/ (ok /\ c.kind = "expmode"))
        /\ master' = (master \/ (ok /\ c.kind = "lock"))
        /\ toHost' = Append(toHost, [key |-> key, ok |-> ok])
  BY DEF DeviceServes
<1>3. /\ Tail(toDevice) \in Seq(Call)
      /\ 1 \in DOMAIN toDevice /\ c = toDevice[1] /\ c \in Call
      /\ \A i \in DOMAIN Tail(toDevice) :
           i + 1 \in DOMAIN toDevice /\ i + 1 # 1 /\ Tail(toDevice)[i] = toDevice[i + 1]
  BY <1>1, Shifted
<1> HIDE DEF c
<1>4. key \in Keys /\ (key = c.kind \/ (key = "mode" /\ c.kind = "lock"))
  BY <1>3 DEF Call, Keys
<1>5. [key |-> key, ok |-> ok] \in Packet
  BY <1>4 DEF Packet
<1>6. /\ toHost' \in Seq(Packet)
      /\ DOMAIN toHost' = DOMAIN toHost \cup {Len(toHost) + 1}
      /\ \A i \in DOMAIN toHost : toHost'[i] = toHost[i]
      /\ toHost'[Len(toHost) + 1] = [key |-> key, ok |-> ok]
  BY <1>1, <1>2, <1>5, Lengthened
<1> QED
  BY <1>2, <1>3, <1>4, <1>6

\* What is unchanged when the device serves a request.
LEMMA ServeFrame ==
  ASSUME DeviceServes
  PROVE  UNCHANGED <<step, call, table, reply, reader, up, notes, album, dials, sentMode, dial,
                     seen, windows, calls, unsure>>
BY DEF DeviceServes, waitVars, dialVars, albumVars

LEMMA ServesKeeps ==
  ASSUME DwarfTypeInv, DialInv, DeviceServes
  PROVE  DialInv'
<1>1. PICK c \in Call, ok \in BOOLEAN, key \in Keys :
           LET p == [key |-> key, ok |-> ok] IN
           /\ 1 \in DOMAIN toDevice /\ toDevice[1] = c
           /\ \A i \in DOMAIN toDevice' :
                i + 1 \in DOMAIN toDevice /\ i + 1 # 1 /\ toDevice'[i] = toDevice[i + 1]
           /\ toDevice' \in Seq(Call) /\ toHost' \in Seq(Packet)
           /\ key = c.kind \/ (key = "mode" /\ c.kind = "lock")
           /\ DOMAIN toHost' = DOMAIN toHost \cup {Len(toHost) + 1}
           /\ \A i \in DOMAIN toHost : toHost'[i] = toHost[i]
           /\ toHost'[Len(toHost) + 1] = p
           /\ ok => master \/ c.kind \in {"state", "lock"}
           /\ expo' = IF ok /\ c.kind = "set" THEN c.value ELSE expo
           /\ manual' = (manual \/ (ok /\ c.kind = "expmode"))
           /\ master' = (master \/ (ok /\ c.kind = "lock"))
  BY ServeRun
<1>2. UNCHANGED <<step, call, table, reply, reader, up, notes, album, dials, sentMode, dial,
                  seen, windows, calls, unsure>>
  BY ServeFrame
<1>3. Waits(c.kind) /\ \A k : Waits(k)' => Waits(k)
  BY <1>1 DEF Waits
<1>4. \A k : OneRequest(k) => OneRequest(k)' /\ (k = c.kind => ~Waits(k)')
  <2>1. \A i, j \in DOMAIN toDevice' : i + 1 = j + 1 => i = j
    BY <1>1
  <2> QED
    BY <1>1, <2>1 DEF OneRequest, Waits
<1>5. /\ \A k : Comes(k)' => Comes(k) \/ k = key
      /\ \A k : OneAnswer(k) /\ (k = key => ~Comes(k)) => OneAnswer(k)'
      /\ \A k, o : Told(k, o)' => Told(k, o) \/ (k = key /\ o = ok)
  BY <1>1 DEF Comes, OneAnswer, Told
<1>6. \A k, o : Told(k, o) => Comes(k)
  BY DEF Told, Comes
<1>7. CallFits'
  BY <1>1, <1>2 DEF DialInv, CallFits
<1>8. LockFirst'
  <2>1. Waits("lock")' => Waits("lock") /\ c.kind # "lock"
    BY <1>3, <1>4 DEF DialInv, LockFirst
  <2>2. Waits("lock")' => (step = "lock" /\ call.kind = "lock" /\ reply = "none")'
    BY <1>2, <2>1 DEF DialInv, LockFirst
  <2>3. OneRequest("lock")'
    BY <1>4 DEF DialInv, LockFirst
  <2>4. ASSUME (step = "state" \/ (step = "lock" /\ call = NoCall) \/ Waits("lock"))'
        PROVE  ~master' /\ ~Comes("lock")' /\ ~Comes("mode")'
    <3>1. step = "state" \/ (step = "lock" /\ call = NoCall) \/ Waits("lock")
      BY <1>2, <2>1, <2>4
    <3>2. c.kind # "lock"
      BY <1>2, <1>3, <2>1, <2>4 DEF DialInv, LockFirst, NoCall
    <3>3. c.kind # "mode" /\ key = c.kind
      BY <1>1, <3>2 DEF Call, Kinds
    <3>4. ~Comes("lock")' /\ ~Comes("mode")'
      BY <1>5, <3>1, <3>2, <3>3 DEF DialInv, LockFirst
    <3>5. ~master'
      BY <1>1, <3>1, <3>2 DEF DialInv, LockFirst
    <3> QED
      BY <3>4, <3>5
  <2> QED
    BY <2>2, <2>3, <2>4 DEF LockFirst
<1>9. SetOnce'
  BY <1>1, <1>2, <1>3, <1>4, <1>5 DEF DialInv, SetOnce
<1>10. ManualKept'
  <2>1. manual => manual'
    BY <1>1
  <2>2. Told("expmode", TRUE)' => manual'
    <3>1. CASE key = "expmode" /\ ok
      BY <1>1, <3>1
    <3>2. CASE key # "expmode"
      <4>1. Told("expmode", TRUE)' => Told("expmode", TRUE)
        BY <1>5, <3>2
      <4> QED
        BY <2>1, <4>1 DEF DialInv, ManualKept
    <3>3. CASE ~ok
      <4>1. ok # TRUE
        BY <3>3
      <4>2. Told("expmode", TRUE)' => Told("expmode", TRUE)
        BY <1>5, <4>1
      <4> QED
        BY <2>1, <4>2 DEF DialInv, ManualKept
    <3> QED
      BY <3>1, <3>2, <3>3
  <2>3. (sentMode => manual') /\ (call.kind = "expmode" /\ reply = "ok" => manual')
    BY <2>1 DEF DialInv, ManualKept
  <2>4. sentMode' = sentMode /\ call' = call /\ reply' = reply
    BY <1>2
  <2> QED
    BY <2>2, <2>3, <2>4 DEF ManualKept
<1>11. ExpoKept'
  <2> SUFFICES ASSUME master', ~unsure'
               PROVE  /\ call.kind = "set" /\ (reply = "ok" \/ Told("set", TRUE)') => expo' = call.value
                      /\ dial # NoValue /\ (\/ call.kind # "set" \/ reply = "refused"
                                            \/ Waits("set")' \/ Told("set", FALSE)')
                           => dial = expo'
    BY <1>2 DEF ExpoKept
  <2>1. ~unsure
    BY <1>2
  <2>2. CASE c.kind = "lock"
    <3>1. call.kind = "lock" /\ dial = NoValue
      BY <1>3, <2>2 DEF DialInv, LockFirst, CallFits, Handshake
    <3> QED
      BY <3>1
  <2>3. CASE c.kind = "set"
    <3>1. /\ call = c /\ reply = "none" /\ ~Comes("set") /\ ~Waits("set")' /\ key = "set"
      BY <1>1, <1>3, <1>4, <2>1, <2>3 DEF DialInv, SetOnce
    <3>2. master
      BY <1>1, <2>3
    <3>3. ~Told("set", TRUE) /\ ~Told("set", FALSE)
      BY <1>6, <3>1
    <3>4. CASE ok
      <4>1. ~Told("set", FALSE)' /\ expo' = call.value
        BY <1>1, <1>5, <2>3, <3>1, <3>3, <3>4
      <4> QED
        BY <3>1, <4>1, <2>3
    <3>5. CASE ~ok
      <4>1. ~Told("set", TRUE)' /\ expo' = expo
        BY <1>1, <1>5, <3>3, <3>5
      <4>2. Waits("set")
        BY <1>3, <2>3
      <4> QED
        BY <2>1, <3>1, <3>2, <4>1, <4>2 DEF DialInv, ExpoKept
    <3> QED
      BY <3>4, <3>5
  <2>4. CASE c.kind \notin {"lock", "set"}
    <3>1. expo' = expo /\ master /\ key # "set"
      BY <1>1, <2>4
    <3>2. /\ Told("set", TRUE)' => Told("set", TRUE)
          /\ Told("set", FALSE)' => Told("set", FALSE)
          /\ Waits("set")' => Waits("set")
      BY <1>3, <1>5, <3>1
    <3> QED
      BY <2>1, <3>1, <3>2 DEF DialInv, ExpoKept
  <2> QED
    BY <2>2, <2>3, <2>4
<1> QED
  BY <1>7, <1>8, <1>9, <1>10, <1>11 DEF DialInv

\* A packet more on the wire to the host.
LEMMA HostHears ==
  ASSUME DwarfTypeInv, NEW k0 \in Keys, NEW o0 \in BOOLEAN,
         toHost' = Append(toHost, [key |-> k0, ok |-> o0])
  PROVE  /\ toHost' \in Seq(Packet)
         /\ \A k : Comes(k)' => Comes(k) \/ k = k0
         /\ \A k, o : Told(k, o)' => Told(k, o) \/ k = k0
         /\ \A k : k # k0 /\ OneAnswer(k) => OneAnswer(k)'
<1>1. toHost \in Seq(Packet) /\ [key |-> k0, ok |-> o0] \in Packet
  BY DEF DwarfTypeInv, WireTyped, Packet
<1>2. /\ toHost' \in Seq(Packet)
      /\ DOMAIN toHost' = DOMAIN toHost \cup {Len(toHost) + 1}
      /\ \A i \in DOMAIN toHost : toHost'[i] = toHost[i]
      /\ toHost'[Len(toHost) + 1] = [key |-> k0, ok |-> o0]
  BY <1>1, Lengthened
<1> QED
  BY <1>2 DEF Comes, Told, OneAnswer

\* The device speaks unasked, of its lock or of its album.
LEMMA SpeaksKeeps ==
  ASSUME DwarfTypeInv, DialInv, DeviceDemotes \/ AlbumGains
  PROVE  DialInv'
<1>1. UNCHANGED <<step, call, table, reply, toDevice, up, manual, sentMode, dial, unsure>>
  BY DEF DeviceDemotes, AlbumGains, waitVars, dialVars
<1>2. \/ master' = FALSE /\ master /\ up
         /\ toHost' = Append(toHost, [key |-> "mode", ok |-> FALSE])
      \/ UNCHANGED <<master, expo>> /\ up /\ toHost' = Append(toHost, [key |-> "album", ok |-> TRUE])
      \/ UNCHANGED <<master, expo>> /\ toHost' = toHost
  BY DEF DeviceDemotes, AlbumGains
<1>3. CASE toHost' = toHost /\ UNCHANGED <<master, expo>>
  BY <1>1, <1>3 DEF DialInv, CallFits, LockFirst, SetOnce, ManualKept, ExpoKept, Waits, Comes, Told,
                    OneRequest, OneAnswer
<1>4. ASSUME NEW k0 \in {"mode", "album"}, NEW o0 \in BOOLEAN,
             toHost' = Append(toHost, [key |-> k0, ok |-> o0]), up,
             \/ master /\ ~master'
             \/ k0 = "album" /\ UNCHANGED <<master, expo>>
      PROVE  DialInv'
  <2>1. /\ \A k : Comes(k)' => Comes(k) \/ k = k0
        /\ \A k, o : Told(k, o)' => Told(k, o) \/ k = k0
        /\ \A k : k # k0 /\ OneAnswer(k) => OneAnswer(k)'
    BY <1>4, HostHears DEF Keys
  <2>2. \A k : (Waits(k)' <=> Waits(k)) /\ (OneRequest(k)' <=> OneRequest(k))
    BY <1>1 DEF Waits, OneRequest
  <2>3. CallFits'
    BY <1>1, <1>4 DEF DialInv, CallFits
  <2>4. LockFirst'
    BY <1>1, <1>4, <2>1, <2>2 DEF DialInv, LockFirst
  <2>5. SetOnce'
    BY <1>1, <2>1, <2>2 DEF DialInv, SetOnce
  <2>6. ManualKept'
    BY <1>1, <2>1 DEF DialInv, ManualKept
  <2>7. ExpoKept'
    <3>1. Told("set", TRUE)' => Told("set", TRUE)
      BY <2>1
    <3>2. Told("set", FALSE)' => Told("set", FALSE)
      BY <2>1
    <3>3. master' => master /\ expo' = expo
      BY <1>4
    <3> QED
      BY <1>1, <2>2, <3>1, <3>2, <3>3 DEF DialInv, ExpoKept
  <2> QED
    BY <2>3, <2>4, <2>5, <2>6, <2>7 DEF DialInv
<1>5. CASE toHost' = Append(toHost, [key |-> "mode", ok |-> FALSE]) /\ master' = FALSE /\ master /\ up
  BY <1>4, <1>5
<1>6. CASE toHost' = Append(toHost, [key |-> "album", ok |-> TRUE]) /\ UNCHANGED <<master, expo>> /\ up
  BY <1>4, <1>6
<1> QED
  BY <1>2, <1>3, <1>5, <1>6

\* The wires are cut: nothing is asked or answered on them any more.
LEMMA CutKeeps ==
  ASSUME DialInv, toDevice' = <<>>, toHost' = <<>>,
         UNCHANGED <<step, call, table, reply, manual, master, expo, sentMode, dial, unsure>>
  PROVE  DialInv'
<1>1. DOMAIN toDevice' = {} /\ DOMAIN toHost' = {}
  OBVIOUS
<1>2. \A k : ~Waits(k)' /\ ~Comes(k)' /\ OneRequest(k)' /\ OneAnswer(k)'
  BY <1>1 DEF Waits, Comes, OneRequest, OneAnswer
<1>3. \A k, o : ~Told(k, o)'
  BY <1>1 DEF Told
<1>4. CallFits'
  BY DEF DialInv, CallFits
<1>5. LockFirst'
  BY <1>2 DEF DialInv, LockFirst
<1>6. SetOnce'
  BY <1>1, <1>2 DEF SetOnce
<1>7. ManualKept'
  BY <1>3 DEF DialInv, ManualKept
<1>8. ExpoKept'
  BY <1>2, <1>3 DEF DialInv, ExpoKept
<1> QED
  BY <1>4, <1>5, <1>6, <1>7, <1>8 DEF DialInv

\* The reader takes a packet off the wire and hands it to the request that waits
\* under its key, or to nobody: a write is answered by an answer to a write.
LEMMA DispatchKeeps ==
  ASSUME DwarfTypeInv, DialInv, ReaderDispatches
  PROVE  DialInv'
<1> DEFINE p == Head(toHost)
<1>1. toHost \in Seq(Packet) /\ toHost # <<>>
  BY DEF DwarfTypeInv, WireTyped, ReaderDispatches
<1>2. /\ 1 \in DOMAIN toHost /\ p = toHost[1] /\ p \in Packet
      /\ \A i \in DOMAIN Tail(toHost) :
           i + 1 \in DOMAIN toHost /\ i + 1 # 1 /\ Tail(toHost)[i] = toHost[i + 1]
  BY <1>1, Shifted
<1>3. /\ toHost' = Tail(toHost)
      /\ table' = IF p.key \in table THEN {} ELSE table
      /\ reply' = IF p.key \in table THEN (IF p.ok THEN "ok" ELSE "refused") ELSE reply
      /\ UNCHANGED <<step, call, toDevice, up, expo, manual, master, sentMode, dial, unsure>>
      /\ up
  BY DEF ReaderDispatches, Awaited, deviceVars, dialVars
<1> HIDE DEF p
<1>4. p = [key |-> p.key, ok |-> p.ok] /\ p.key \in Keys /\ p.ok \in BOOLEAN
  BY <1>2 DEF Packet
<1>5. Comes(p.key) /\ Told(p.key, p.ok)
  BY <1>2, <1>4 DEF Comes, Told
<1>6. \A i, j \in DOMAIN toHost' : i + 1 = j + 1 => i = j
  BY <1>1, <1>3
<1>7. /\ \A k : Comes(k)' => Comes(k)
      /\ \A k, o : Told(k, o)' => Told(k, o)
      /\ \A k : OneAnswer(k) => OneAnswer(k)' /\ (k = p.key => ~Comes(k)')
  BY <1>2, <1>3, <1>6 DEF Comes, Told, OneAnswer
<1>8. \A k : (Waits(k)' <=> Waits(k)) /\ (OneRequest(k)' <=> OneRequest(k))
  BY <1>3 DEF Waits, OneRequest
<1>9. p.key \in table => /\ reply = "none" /\ p.key \in AnsweredBy(call.kind)
                         /\ p.key = call.kind \/ (p.key \in {"lock", "mode"} /\ call.kind = "lock")
  BY DEF DialInv, CallFits, AnsweredBy
<1>10. CallFits'
  BY <1>3 DEF DialInv, CallFits
<1>11. LockFirst'
  <2>1. Waits("lock") => p.key \notin {"lock", "mode"}
    BY <1>5 DEF DialInv, LockFirst
  <2>2. Waits("lock") => reply' = reply
    BY <1>3, <1>9, <2>1 DEF DialInv, LockFirst
  <2> QED
    BY <1>3, <1>7, <1>8, <2>2 DEF DialInv, LockFirst
<1>12. SetOnce'
  <2> SUFFICES ASSUME ~unsure PROVE SetOnce'
    BY <1>3 DEF SetOnce
  <2>1. p.key = "set" => ~Comes("set")' /\ ~Waits("set")
    BY <1>5, <1>7 DEF DialInv, SetOnce
  <2>2. (Waits("set") \/ Comes("set")) /\ p.key # "set" => reply' = reply
    BY <1>3, <1>9 DEF DialInv, SetOnce
  <2> QED
    BY <1>3, <1>7, <1>8, <2>1, <2>2 DEF DialInv, SetOnce
<1>13. ManualKept'
  <2>1. call.kind = "expmode" /\ reply' = "ok" => reply = "ok" \/ Told("expmode", TRUE)
    <3>1. p.ok => p.ok = TRUE
      BY <1>4
    <3> QED
      BY <1>3, <1>5, <1>9, <3>1
  <2> QED
    BY <1>3, <1>7, <2>1 DEF DialInv, ManualKept
<1>14. ExpoKept'
  <2> SUFFICES ASSUME master, ~unsure PROVE ExpoKept'
    BY <1>3 DEF ExpoKept
  <2>1. call.kind = "set" /\ reply' = "ok" => reply = "ok" \/ Told("set", TRUE)
    <3>1. p.ok => p.ok = TRUE
      BY <1>4
    <3> QED
      BY <1>3, <1>5, <1>9, <3>1
  <2>2. call.kind = "set" /\ reply' = "refused" => reply = "refused" \/ Told("set", FALSE)
    <3>1. ~p.ok => p.ok = FALSE
      BY <1>4
    <3> QED
      BY <1>3, <1>5, <1>9, <3>1
  <2> QED
    BY <1>3, <1>7, <1>8, <2>1, <2>2 DEF DialInv, ExpoKept
<1> QED
  BY <1>10, <1>11, <1>12, <1>13, <1>14 DEF DialInv

\* The reader ends: the link is down, so no write is on the wire that could be
\* acknowledged.
LEMMA ReaderDiesKeeps ==
  ASSUME DwarfTypeInv, DialInv, ReaderDies
  PROVE  DialInv'
<1>1. /\ toDevice = <<>> /\ toHost = <<>> /\ table' = {}
      /\ reply' = IF table # {} THEN "error" ELSE reply
      /\ UNCHANGED <<step, call, toDevice, toHost, up, expo, manual, master, sentMode, dial, unsure>>
  BY DEF ReaderDies, DialInv, CallFits, deviceVars, dialVars
<1>2. DOMAIN toDevice = {} /\ DOMAIN toHost = {}
  BY <1>1
<1>3. \A k : (~Waits(k) /\ ~Comes(k) /\ OneRequest(k) /\ OneAnswer(k))'
  BY <1>1, <1>2 DEF Waits, Comes, OneRequest, OneAnswer
<1>4. \A k, o : ~Told(k, o)'
  BY <1>1, <1>2 DEF Told
<1>5. table = {} /\ call # NoCall => reply # "none"
  BY DEF DialInv, CallFits, AnsweredBy
<1>6. CallFits'
  BY <1>1, <1>5 DEF DialInv, CallFits
<1>7. LockFirst'
  BY <1>1, <1>3 DEF DialInv, LockFirst, Waits
<1>8. SetOnce'
  BY <1>1, <1>2, <1>3 DEF SetOnce
<1>9. ManualKept' /\ ExpoKept'
  BY <1>1, <1>3, <1>4 DEF DialInv, ManualKept, ExpoKept
<1> QED
  BY <1>6, <1>7, <1>8, <1>9 DEF DialInv

\* A call with no outcome yet, or with one: no write and no lock is on the wire
\* when the worker is about to ask for something else.
LEMMA NothingWaits ==
  ASSUME DialInv, call = NoCall \/ reply # "none"
  PROVE  ~Waits("lock") /\ (~unsure => ~Waits("set") /\ ~Comes("set"))
BY DEF DialInv, LockFirst, SetOnce, NoCall

\* A request goes out: a step of the handshake, a call of the session, the write
\* that follows the change to manual mode, or the last one.
LEMMA AskKeeps ==
  ASSUME DwarfTypeInv, DialInv, NEW c \in Call,
         call = NoCall \/ (call.kind = "expmode" /\ reply = "ok"),
         call' = c, table' = AnsweredBy(c.kind), reply' = "none",
         toDevice' = IF up THEN Append(toDevice, c) ELSE toDevice,
         UNCHANGED <<toHost, up, expo, manual, master, dial, unsure>>,
         sentMode' \in BOOLEAN, sentMode => sentMode', c.kind = "set" => sentMode',
         sentMode' => sentMode \/ (call.kind = "expmode" /\ reply = "ok"),
         \/ step \in {"state", "lock", "open"} /\ c.kind = step /\ step' = step /\ sentMode' = sentMode
            /\ call = NoCall
         \/ step = "ready" /\ c.kind \in {"photo", "steer", "expmode", "set"} /\ step' = step
         \/ step = "ready" /\ c.kind = "close" /\ step' = "exit"
  PROVE  DialInv'
<1>1. toDevice \in Seq(Call)
  BY DEF DwarfTypeInv, WireTyped
<1>2. \A i \in DOMAIN toDevice' : \/ i \in DOMAIN toDevice /\ toDevice'[i] = toDevice[i]
                                  \/ up /\ i = Len(toDevice) + 1 /\ toDevice'[i] = c
  BY <1>1, Lengthened
<1>3. \A k : Waits(k)' => Waits(k) \/ k = c.kind
  BY <1>2 DEF Waits
<1>4. \A k : OneRequest(k) /\ (k = c.kind => ~Waits(k)) => OneRequest(k)'
  BY <1>2 DEF OneRequest, Waits
<1>5. \A k : (Comes(k)' <=> Comes(k)) /\ (OneAnswer(k)' <=> OneAnswer(k))
  BY DEF Comes, OneAnswer
<1>6. \A k, o : Told(k, o)' <=> Told(k, o)
  BY DEF Told
<1>7. c.kind \in Kinds /\ c # NoCall
  BY DEF Call, NoCall, Kinds
<1>8. ~Waits("lock") /\ (~unsure => ~Waits("set") /\ ~Comes("set"))
  BY NothingWaits
<1>9. CallFits'
  BY <1>7 DEF DialInv, CallFits, Handshake, Kinds
<1>10. LockFirst'
  <2>1. Waits("lock")' => (step = "lock" /\ call.kind = "lock" /\ reply = "none")'
    BY <1>3, <1>7, <1>8
  <2>2. OneRequest("lock")'
    BY <1>4, <1>8 DEF DialInv, LockFirst
  <2>3. (step = "state" \/ (step = "lock" /\ call = NoCall) \/ Waits("lock"))'
          => ~master' /\ ~Comes("lock")' /\ ~Comes("mode")'
    BY <1>5, <1>7, <2>1 DEF DialInv, LockFirst
  <2> QED
    BY <2>1, <2>2, <2>3 DEF LockFirst
<1>11. SetOnce'
  BY <1>2, <1>3, <1>4, <1>5, <1>8 DEF DialInv, SetOnce, Waits
<1>12. ManualKept'
  BY <1>6 DEF DialInv, ManualKept
<1>13. ExpoKept'
  <2>1. CASE unsure \/ ~master
    BY <2>1 DEF ExpoKept
  <2>2. CASE ~unsure /\ master
    <3>1. ~Told("set", TRUE)' /\ ~Told("set", FALSE)'
      BY <1>6, <1>8, <2>2 DEF Told, Comes
    <3>2. call.kind # "set"
      BY DEF NoCall
    <3>3. dial # NoValue => dial = expo
      BY <2>2, <3>2 DEF DialInv, ExpoKept
    <3> QED
      BY <3>1, <3>3 DEF ExpoKept
  <2> QED
    BY <2>1, <2>2
<1> QED
  BY <1>9, <1>10, <1>11, <1>12, <1>13 DEF DialInv

\* A call ends: only a write that was given up can still be on the wire then, and
\* only one that was acknowledged is remembered.
LEMMA EndKeeps ==
  ASSUME DwarfTypeInv, DialInv, NEW r, Outcome(r), sentMode' = sentMode,
         UNCHANGED <<toDevice, toHost, up>> \/ (toDevice' = <<>> /\ toHost' = <<>>),
         dial' = IF call.kind = "set" /\ r = "ok" THEN call.value ELSE dial,
         \/ step = "state" /\ step' = "lock"
         \/ step = "lock" /\ r = "ok" /\ step' = "tables"
         \/ step = "open" /\ step' = "live"
         \/ step = "ready" /\ step' = "ready"
         \/ step' = "off" /\ toDevice' = <<>>
  PROVE  DialInv'
<1>1. /\ call # NoCall /\ call' = NoCall /\ table' = {} /\ reply' = "none"
      /\ (reply # "none" /\ r = reply) \/ (reply = "none" /\ r = "error")
      /\ UNCHANGED <<expo, manual, master>>
  BY OutcomeRun DEF deviceVars
<1>a. ~unsure' => ~unsure /\ (call.kind = "set" => r # "error")
  BY OutcomeRun
<1>2. /\ \A i \in DOMAIN toDevice' : i \in DOMAIN toDevice /\ toDevice'[i] = toDevice[i]
      /\ \A i \in DOMAIN toHost' : i \in DOMAIN toHost /\ toHost'[i] = toHost[i]
  OBVIOUS
<1>3. /\ \A k : Waits(k)' => Waits(k) /\ toDevice' # <<>>
      /\ \A k : Comes(k)' => Comes(k)
      /\ \A k : (OneRequest(k) => OneRequest(k)') /\ (OneAnswer(k) => OneAnswer(k)')
      /\ \A k, o : Told(k, o)' => Told(k, o)
  BY <1>2 DEF Waits, Comes, OneRequest, OneAnswer, Told
<1>4. call.kind = "set" => step = "ready"
  BY DEF DialInv, CallFits, Handshake, DwarfTypeInv, CallTyped
<1>5. CallFits'
  <2>1. step' \in Handshake => step \in Handshake /\ dial' = NoValue /\ ~sentMode'
    BY <1>4 DEF DialInv, CallFits, Handshake
  <2>2. dial' # NoValue => sentMode'
    BY DEF DialInv, CallFits
  <2>3. ~up' => toDevice' = <<>> /\ toHost' = <<>>
    BY DEF DialInv, CallFits
  <2> QED
    BY <1>1, <2>1, <2>2, <2>3 DEF CallFits, NoCall, Handshake
<1>6. LockFirst'
  <2>1. ~Waits("lock")'
    BY <1>1, <1>3 DEF DialInv, LockFirst
  <2>2. step' = "state" \/ step' = "lock" => step = "state"
    OBVIOUS
  <2> QED
    BY <1>1, <1>3, <2>1, <2>2 DEF DialInv, LockFirst
<1>7. SetOnce'
  <2>1. CASE unsure'
    BY <2>1 DEF SetOnce
  <2>2. CASE ~unsure'
    <3>1. ~unsure /\ (call.kind = "set" => reply # "none")
      BY <1>1, <1>a, <2>2
    <3>2. ~Waits("set") /\ ~Comes("set") /\ OneRequest("set") /\ OneAnswer("set")
      BY <3>1 DEF DialInv, SetOnce
    <3>3. ~Waits("set")' /\ ~Comes("set")' /\ OneRequest("set")' /\ OneAnswer("set")'
      BY <1>3, <3>2
    <3> QED
      BY <3>3 DEF SetOnce, Waits
  <2> QED
    BY <2>1, <2>2
<1>8. ManualKept'
  BY <1>1, <1>3 DEF DialInv, ManualKept, NoCall
<1>9. ExpoKept'
  <2> SUFFICES ASSUME master', ~unsure', dial' # NoValue PROVE dial' = expo'
    BY <1>1 DEF ExpoKept, NoCall
  <2>1. CASE call.kind # "set"
    <3>1. master /\ ~unsure /\ dial' = dial
      BY <1>1, <1>a, <2>1
    <3> QED
      BY <1>1, <2>1, <3>1 DEF DialInv, ExpoKept
  <2>2. CASE call.kind = "set"
    <3>1. r # "error" /\ master /\ ~unsure
      BY <1>1, <1>a, <2>2
    <3>2. r = reply /\ reply \in {"ok", "refused"}
      BY <1>1, <3>1 DEF DwarfTypeInv, CallTyped
    <3>3. /\ reply = "ok" => expo = call.value
          /\ reply = "refused" => dial = expo \/ dial = NoValue
      BY <2>2, <3>1 DEF DialInv, ExpoKept
    <3> QED
      BY <1>1, <2>2, <3>2, <3>3
  <2> QED
    BY <2>1, <2>2
<1> QED
  BY <1>5, <1>6, <1>7, <1>8, <1>9 DEF DialInv

\* The worker does something that is no command: its session goes on, or is over.
LEMMA GoOnKeeps ==
  ASSUME DwarfTypeInv, DialInv,
         UNCHANGED <<call, table, reply, expo, manual, master, sentMode, dial, unsure>>,
         UNCHANGED <<toDevice, toHost, up>> \/ (toDevice' = <<>> /\ toHost' = <<>>),
         \/ step = "tables" /\ step' = "open"
         \/ step = "live" /\ step' \in {"seed", "off"}
         \/ step = "seed" /\ step' = "ready"
         \/ step = "ready" /\ step' = "ready"
  PROVE  DialInv'
<1>1. /\ \A i \in DOMAIN toDevice' : i \in DOMAIN toDevice /\ toDevice'[i] = toDevice[i]
      /\ \A i \in DOMAIN toHost' : i \in DOMAIN toHost /\ toHost'[i] = toHost[i]
  OBVIOUS
<1>2. /\ \A k : Waits(k)' => Waits(k)
      /\ \A k : Comes(k)' => Comes(k)
      /\ \A k : (OneRequest(k) => OneRequest(k)') /\ (OneAnswer(k) => OneAnswer(k)')
      /\ \A k, o : Told(k, o)' => Told(k, o)
  BY <1>1 DEF Waits, Comes, OneRequest, OneAnswer, Told
<1>3. step # "ready" => call = NoCall /\ call.kind = "none"
  BY DEF DialInv, CallFits, Handshake, DwarfTypeInv, CallTyped, Call,
       Kinds, NoCall
<1>4. CallFits'
  BY <1>3 DEF DialInv, CallFits, Handshake
<1>5. LockFirst'
  BY <1>2 DEF DialInv, LockFirst
<1>6. SetOnce'
  BY <1>1, <1>2 DEF DialInv, SetOnce
<1>7. ManualKept'
  BY <1>2 DEF DialInv, ManualKept
<1>8. ExpoKept'
  BY <1>2 DEF DialInv, ExpoKept
<1> QED
  BY <1>4, <1>5, <1>6, <1>7, <1>8 DEF DialInv

-----------------------------------------------------------------------------
(***************************************************************************)
(* The actions, by the lemmas above.                                        *)
(***************************************************************************)

\* The backlog stays a sequence of keys within its bound.
LEMMA NotedTyped ==
  ASSUME NotesTyped, NEW k \in Keys
  PROVE  Noted(k) \in Seq(Keys) /\ Len(Noted(k)) <= Backlog
<1> DEFINE q == Append(notes, k)
<1>1. q \in Seq(Keys) /\ Len(q) = Len(notes) + 1 /\ Len(notes) \in Nat /\ Len(notes) <= Backlog
  BY DEF NotesTyped
<1>2. Backlog \in Nat \ {0}
  BY DwarfAssumption
<1>3. CASE Len(q) > Backlog
  <2>1. Keep(q) \in Seq(Keys) /\ Len(Keep(q)) = Backlog
    <3> HIDE DEF q
    <3> QED
      BY <1>1, <1>2, <1>3 DEF Keep
  <2> QED
    BY <1>2, <1>3, <2>1 DEF Noted
<1>4. CASE ~(Len(q) > Backlog)
  BY <1>1, <1>2, <1>4 DEF Noted
<1> QED
  BY <1>3, <1>4

\* The device keeps the types.
LEMMA DeviceTyped ==
  ASSUME DwarfTypeInv, Device
  PROVE  DwarfTypeInv'
<1>1. UNCHANGED <<step, call, table, reply, calls, notes, dial, seen, windows>>
      /\ UNCHANGED <<reader, dials, sentMode, unsure>>
  BY DEF Device, DeviceServes, DeviceDemotes, AlbumGains,
       LinkBreaks, waitVars, dialVars, albumVars
<1>2. CallTyped' /\ NotesTyped'
  BY <1>1 DEF DwarfTypeInv, CallTyped, NotesTyped
<1>3. AlbumTyped'
  <2>1. album' \in 0..MaxFiles
    BY DwarfAssumption
       DEF DwarfTypeInv, AlbumTyped, Device, DeviceServes,
            DeviceDemotes, AlbumGains, LinkBreaks, deviceVars
  <2> QED
    BY <1>1, <2>1 DEF DwarfTypeInv, AlbumTyped
<1>4. CASE DeviceServes
  <2>1. WireTyped' /\ expo' \in Values \cup {NoValue}
    BY <1>4, ServeRun DEF DwarfTypeInv, DialTyped, WireTyped, Call
  <2>2. manual' \in BOOLEAN /\ master' \in BOOLEAN
    BY <1>4, ServeRun
  <2>3. up' = up
    BY <1>4 DEF DeviceServes
  <2> QED
    BY <1>1, <1>2, <1>3, <2>1, <2>2, <2>3 DEF DwarfTypeInv, DialTyped, FlagsTyped
<1>5. CASE DeviceDemotes
  <2>1. WireTyped'
    BY <1>5, HostHears DEF DeviceDemotes, Keys, DwarfTypeInv, WireTyped
  <2>2. expo' \in Values \cup {NoValue} /\ master' \in BOOLEAN /\ UNCHANGED <<manual, up>>
    BY <1>5 DEF DeviceDemotes, DwarfTypeInv, DialTyped
  <2> QED
    BY <1>1, <1>2, <1>3, <2>1, <2>2 DEF DwarfTypeInv, DialTyped, FlagsTyped
<1>6. CASE AlbumGains
  <2>1. WireTyped'
    BY <1>6, HostHears DEF AlbumGains, Keys, DwarfTypeInv, WireTyped
  <2>2. UNCHANGED <<expo, manual, master, up>>
    BY <1>6 DEF AlbumGains
  <2> QED
    BY <1>1, <1>2, <1>3, <2>1, <2>2 DEF DwarfTypeInv, DialTyped, FlagsTyped
<1>7. CASE LinkBreaks
  <2>1. WireTyped' /\ UNCHANGED <<expo, manual, master>>
    BY <1>7 DEF LinkBreaks, WireTyped, deviceVars
  <2>2. up' \in BOOLEAN
    BY <1>7 DEF LinkBreaks
  <2> QED
    BY <1>1, <1>2, <1>3, <2>1, <2>2 DEF DwarfTypeInv, DialTyped, FlagsTyped
<1> QED
  BY <1>4, <1>5, <1>6, <1>7 DEF Device

\* So does the reader.
LEMMA ReaderTyped ==
  ASSUME DwarfTypeInv, Reader
  PROVE  DwarfTypeInv'
<1>1. /\ UNCHANGED <<step, call, calls, toDevice, up>>
      /\ UNCHANGED <<deviceVars, dialVars, albumVars, unsure>>
  BY DEF Reader, ReaderDispatches, ReaderDies
<1>2. DialTyped' /\ AlbumTyped'
  BY <1>1 DEF DwarfTypeInv, DialTyped, AlbumTyped, deviceVars, dialVars, albumVars
<1>3. reader' \in BOOLEAN
  BY DEF Reader, ReaderDispatches, ReaderDies, DwarfTypeInv, FlagsTyped
<1>4. FlagsTyped'
  BY <1>1, <1>3 DEF DwarfTypeInv, FlagsTyped, deviceVars, dialVars
<1>5. CallTyped'
  BY <1>1 DEF DwarfTypeInv, CallTyped, Reader, ReaderDispatches, ReaderDies
<1>6. CASE ReaderDies
  BY <1>1, <1>2, <1>4, <1>5, <1>6 DEF DwarfTypeInv, ReaderDies, WireTyped, NotesTyped
<1>7. CASE ReaderDispatches
  <2> DEFINE p == Head(toHost)
  <2>1. /\ toHost' = Tail(toHost) /\ toHost # <<>> /\ toHost \in Seq(Packet)
        /\ notes' = IF p.key \in Kinds THEN notes ELSE Noted(p.key)
    BY <1>7 DEF ReaderDispatches, DwarfTypeInv, WireTyped
  <2>2. toHost' \in Seq(Packet) /\ p \in Packet
    BY <2>1, Shifted
  <2>3. p.key \in Keys
    BY <2>2 DEF Packet
  <2> HIDE DEF p
  <2>4. NotesTyped'
    BY <2>1, <2>3, NotedTyped DEF DwarfTypeInv, NotesTyped
  <2> QED
    BY <1>1, <1>2, <1>4, <1>5, <2>2, <2>4 DEF DwarfTypeInv, WireTyped
<1> QED
  BY <1>6, <1>7 DEF Reader

\* So does a request that goes out.
LEMMA AskTyped ==
  ASSUME DwarfTypeInv, NEW k \in Kinds,
         NEW v \in Values \cup {NoValue}, Send(k, v),
         step' \in {step, "exit"}, calls' \in {calls} \/ (calls < MaxCalls /\ calls' = calls + 1),
         k = "photo" => calls' = calls + 1,
         UNCHANGED <<dialVars, albumVars, unsure>>
  PROVE  DwarfTypeInv'
<1>1. /\ call' = [kind |-> k, value |-> v] /\ call' \in Call
      /\ reply' = "none" /\ table' \subseteq Keys /\ toDevice' \in Seq(Call)
      /\ UNCHANGED <<toHost, reader, up, notes, deviceVars>>
  BY SendRun
<1>2. WireTyped' /\ NotesTyped' /\ DialTyped'
  BY <1>1 DEF DwarfTypeInv, WireTyped, NotesTyped, DialTyped, deviceVars, dialVars
<1>3. CallTyped'
  BY <1>1, DwarfAssumption DEF DwarfTypeInv, CallTyped
<1>4. AlbumTyped'
  BY <1>1 DEF DwarfTypeInv, AlbumTyped, CallTyped, deviceVars, albumVars
<1>5. FlagsTyped'
  BY <1>1 DEF DwarfTypeInv, FlagsTyped, deviceVars, dialVars
<1> QED
  BY <1>2, <1>3, <1>4, <1>5 DEF DwarfTypeInv

\* And a call that ends: a window is opened by a shot that counted.
LEMMA EndTyped ==
  ASSUME DwarfTypeInv, NEW r, Outcome(r),
         UNCHANGED <<dials, sentMode, calls, seen>>,
         step' \in Handshake \cup {"ready", "off"},
         UNCHANGED wireVars \/ HangUp,
         dial' \in {dial, call.value},
         windows' = windows \/ (call.kind = "photo" /\ windows' = windows + 1)
  PROVE  DwarfTypeInv'
<1>1. /\ call # NoCall /\ call' = NoCall /\ table' = {} /\ reply' = "none"
      /\ unsure' \in BOOLEAN /\ UNCHANGED deviceVars
  BY OutcomeRun
<1>2. WireTyped' /\ NotesTyped'
  <2>1. CASE UNCHANGED wireVars
    BY <2>1 DEF DwarfTypeInv, WireTyped, NotesTyped, wireVars
  <2>2. CASE HangUp
    BY <2>2 DEF DwarfTypeInv, WireTyped, NotesTyped, HangUp
  <2> QED
    BY <2>1, <2>2
<1>a. reader' \in BOOLEAN /\ up' \in BOOLEAN
  <2>1. CASE UNCHANGED wireVars
    BY <2>1 DEF DwarfTypeInv, FlagsTyped, wireVars
  <2>2. CASE HangUp
    BY <2>2 DEF HangUp
  <2> QED
    BY <2>1, <2>2
<1>3. CallTyped'
  BY <1>1 DEF DwarfTypeInv, CallTyped
<1>4. DialTyped'
  BY <1>1 DEF DwarfTypeInv, CallTyped, DialTyped, Call, NoCall, deviceVars
<1>5. AlbumTyped'
  BY <1>1 DEF DwarfTypeInv, CallTyped, AlbumTyped, NoCall, deviceVars
<1>6. FlagsTyped'
  BY <1>1, <1>a DEF DwarfTypeInv, FlagsTyped, deviceVars
<1> QED
  BY <1>2, <1>3, <1>4, <1>5, <1>6 DEF DwarfTypeInv

DwarfInv == DwarfTypeInv /\ DialInv

\* A call of the worker starts.
LEMMA AsksKeep ==
  ASSUME DwarfInv,
         HandshakeAsks \/ Shoot \/ Steer \/ (\E v \in Values : Write(v)) \/ DwarfExit
  PROVE  DwarfInv'
<1>1. PICK k \in Kinds, v \in Values \cup {NoValue} :
        /\ Send(k, v) /\ UNCHANGED <<dialVars, albumVars, unsure>>
        /\ calls' \in {calls} \/ (calls < MaxCalls /\ calls' = calls + 1)
        /\ k = "photo" => calls' = calls + 1
        /\ k = "set" => sentMode
        /\ \/ step \in {"state", "lock", "open"} /\ k = step /\ step' = step
           \/ step = "ready" /\ k \in {"photo", "steer", "expmode", "set"} /\ step' = step
           \/ step = "ready" /\ k = "close" /\ step' = "exit"
  <2>1. CASE HandshakeAsks
    BY <2>1 DEF HandshakeAsks, Kinds
  <2>2. CASE Shoot
    BY <2>2 DEF Shoot, Ask, Kinds
  <2>3. CASE Steer
    BY <2>3 DEF Steer, Ask, Kinds
  <2>4. ASSUME NEW v \in Values, Write(v)
        PROVE  \E k \in Kinds :
                 /\ Send(k, v) /\ UNCHANGED <<dialVars, albumVars, unsure>>
                 /\ calls < MaxCalls /\ calls' = calls + 1
                 /\ k \in {"expmode", "set"} /\ (k = "set" => sentMode)
                 /\ step = "ready" /\ step' = step
    <3>1. CASE sentMode
      BY <2>4, <3>1 DEF Write, Ask, Kinds
    <3>2. CASE ~sentMode
      BY <2>4, <3>2 DEF Write, Ask, Kinds
    <3> QED
      BY <3>1, <3>2
  <2>5. CASE DwarfExit
    BY <2>5 DEF DwarfExit, Kinds
  <2> QED
    BY <2>1, <2>2, <2>3, <2>4, <2>5
<1>2. DwarfTypeInv'
  BY <1>1, AskTyped DEF DwarfInv
<1>3. /\ call = NoCall /\ call' \in Call
      /\ call' = [kind |-> k, value |-> v] /\ call'.kind = k
      /\ table' = AnsweredBy(k) /\ reply' = "none"
      /\ toDevice' = IF up THEN Append(toDevice, call') ELSE toDevice
      /\ UNCHANGED <<toHost, up, expo, manual, master>>
  BY <1>1, SendRun DEF DwarfInv, deviceVars
<1>4. UNCHANGED <<dial, unsure, sentMode>> /\ sentMode \in BOOLEAN
  BY <1>1 DEF dialVars, DwarfInv, DwarfTypeInv, FlagsTyped
<1>5. DialInv'
  BY <1>1, <1>3, <1>4, AskKeeps DEF DwarfInv
<1> QED
  BY <1>2, <1>5 DEF DwarfInv

\* Manual mode is confirmed, and the write itself goes out.
LEMMA ModeDoneKeeps ==
  ASSUME DwarfInv, ModeDone
  PROVE  DwarfInv'
<1> DEFINE c == [call EXCEPT !.kind = "set"]
<1>1. /\ call \in Call /\ call.kind = "expmode" /\ reply = "ok" /\ step = "ready" /\ step' = step
      /\ call' = c /\ table' = {"set"} /\ reply' = "none"
      /\ toDevice' = IF up THEN Append(toDevice, call') ELSE toDevice
      /\ UNCHANGED <<toHost, reader, up, notes, deviceVars, dials, dial, albumVars,
                     calls, unsure>>
  BY DEF ModeDone, Idle, DwarfInv, DwarfTypeInv, CallTyped, DialInv,
       CallFits, Handshake
<1>2. sentMode' = TRUE
  BY DEF ModeDone
<1>3. c \in Call /\ c.kind = "set"
  BY <1>1 DEF Call, Kinds
<1> HIDE DEF c
<1>4. AnsweredBy("set") = {"set"} /\ {"set"} \subseteq Keys
  BY DEF AnsweredBy, Keys, Kinds
<1>5. DialInv'
  BY <1>1, <1>2, <1>3, <1>4, AskKeeps DEF DwarfInv, deviceVars
<1>6. WireTyped'
  <2>1. toDevice \in Seq(Call) /\ toHost \in Seq(Packet)
    BY DEF DwarfInv, DwarfTypeInv, WireTyped
  <2>2. toDevice' \in Seq(Call)
    BY <1>1, <1>3, <2>1
  <2> QED
    BY <1>1, <2>1, <2>2 DEF WireTyped
<1>7. CallTyped' /\ NotesTyped' /\ DialTyped'
  BY <1>1, <1>3, <1>4 DEF DwarfInv, DwarfTypeInv, CallTyped, NotesTyped, DialTyped, deviceVars
<1>8. AlbumTyped'
  BY <1>1, <1>3 DEF DwarfInv, DwarfTypeInv, AlbumTyped, deviceVars, albumVars
<1>9. FlagsTyped'
  BY <1>1, <1>2 DEF DwarfInv, DwarfTypeInv, FlagsTyped, deviceVars
<1> QED
  BY <1>5, <1>6, <1>7, <1>8, <1>9 DEF DwarfInv, DwarfTypeInv

\* A call of the worker ends.
LEMMA EndsKeep ==
  ASSUME DwarfInv, CallEnds
  PROVE  DwarfInv'
<1>1. CASE ModeDone
  BY <1>1, ModeDoneKeeps
<1>2. CASE CallEnds /\ ~ModeDone
  <2>1. PICK r \in {"ok", "refused", "error"} :
          /\ Outcome(r)
          /\ UNCHANGED <<dials, sentMode, calls, seen>>
          /\ UNCHANGED wireVars \/ HangUp
          /\ dial' = IF call.kind = "set" /\ r = "ok" THEN call.value ELSE dial
          /\ windows' = windows \/ (call.kind = "photo" /\ windows' = windows + 1)
          /\ \/ step = "state" /\ step' = "lock"
             \/ step = "lock" /\ r = "ok" /\ step' = "tables"
             \/ step = "open" /\ step' = "live"
             \/ step = "ready" /\ step' = "ready"
             \/ step' = "off" /\ HangUp
    <3>1. CASE HandshakeGoesOn
      <4>1. call.kind # "set"
        BY <3>1 DEF HandshakeGoesOn, DwarfInv, DialInv, CallFits, Handshake
      <4> QED
        BY <3>1, <4>1 DEF HandshakeGoesOn, dialVars, albumVars
    <3>2. CASE HandshakeFails
      <4>1. call.kind # "set"
        BY <3>2 DEF HandshakeFails, DwarfInv, DialInv, CallFits, Handshake
      <4> QED
        BY <3>2, <4>1 DEF HandshakeFails, dialVars, albumVars
    <3>3. CASE DwarfClose
      <4>1. call.kind # "set"
        BY <3>3 DEF DwarfClose, DwarfInv, DialInv, CallFits
      <4> QED
        BY <3>3, <4>1 DEF DwarfClose, dialVars, albumVars
    <3>4. call.kind \in {"photo", "steer", "expmode", "set"} => step = "ready"
      BY DEF DwarfInv, DialInv, CallFits, DwarfTypeInv, CallTyped, Handshake
    <3>5. CASE ShotDone
      BY <3>4, <3>5 DEF ShotDone, dialVars
    <3>6. CASE SteerDone \/ ModeFails
      BY <3>4, <3>6 DEF SteerDone, ModeFails, dialVars, albumVars
    <3>7. CASE WriteDone
      BY <3>4, <3>7 DEF WriteDone, albumVars
    <3> QED
      BY <1>2, <3>1, <3>2, <3>3, <3>5, <3>6, <3>7 DEF CallEnds
  <2>2. DwarfTypeInv'
    <3>1. step' \in Handshake \cup {"ready", "off"}
      BY <2>1 DEF Handshake
    <3> QED
      BY <2>1, <3>1, EndTyped DEF DwarfInv
  <2>3. UNCHANGED <<toDevice, toHost, up>> \/ (toDevice' = <<>> /\ toHost' = <<>>)
    BY <2>1 DEF HangUp, wireVars
  <2>4. HangUp => toDevice' = <<>>
    BY DEF HangUp
  <2>5. DialInv'
    BY <2>1, <2>3, <2>4, EndKeeps DEF DwarfInv
  <2> QED
    BY <2>2, <2>5 DEF DwarfInv
<1> QED
  BY <1>1, <1>2

\* The worker does something that is no command.
LEMMA GoesOnKeep ==
  ASSUME DwarfInv, LoadTables \/ OpenLive \/ Seed \/ DwarfPump
  PROVE  DwarfInv'
<1>1. /\ UNCHANGED <<call, table, reply>> /\ UNCHANGED deviceVars
      /\ UNCHANGED <<sentMode, dial, unsure, calls>>
      /\ UNCHANGED wireVars \/ HangUp
         \/ (notes' = <<>> /\ UNCHANGED <<toDevice, toHost, reader, up>>)
      /\ \/ step = "tables" /\ step' = "open"
         \/ step = "live" /\ step' \in {"seed", "off"}
         \/ step = "seed" /\ step' = "ready"
         \/ step = "ready" /\ step' = "ready"
  BY DEF LoadTables, OpenLive, Seed, DwarfPump, PumpQuietly,
       PumpAlbum, Pumping, waitVars, dialVars
<1>2. UNCHANGED <<toDevice, toHost, up>> \/ (toDevice' = <<>> /\ toHost' = <<>>)
  BY <1>1 DEF HangUp, wireVars
<1>3. DialInv'
  BY <1>1, <1>2, GoOnKeeps DEF DwarfInv, deviceVars
<1>4. WireTyped' /\ NotesTyped'
  <2>1. WireTyped'
    <3>1. CASE UNCHANGED <<toDevice, toHost, up>>
      BY <3>1 DEF DwarfInv, DwarfTypeInv, WireTyped
    <3>2. CASE toDevice' = <<>> /\ toHost' = <<>>
      BY <3>2 DEF WireTyped
    <3> QED
      BY <1>2, <3>1, <3>2
  <2>2. NotesTyped'
    <3>1. CASE notes' = notes
      BY <3>1 DEF DwarfInv, DwarfTypeInv, NotesTyped
    <3>2. CASE notes' = <<>>
      BY <3>2, DwarfAssumption DEF NotesTyped
    <3> QED
      BY <1>1, <3>1, <3>2 DEF HangUp, wireVars
  <2> QED
    BY <2>1, <2>2
<1>5. CallTyped' /\ DialTyped'
  BY <1>1 DEF DwarfInv, DwarfTypeInv, CallTyped, DialTyped, Handshake, deviceVars
<1>6. reader' \in BOOLEAN /\ up' \in BOOLEAN
  <2>1. CASE HangUp
    BY <2>1 DEF HangUp
  <2>2. CASE UNCHANGED <<reader, up>>
    BY <2>2 DEF DwarfInv, DwarfTypeInv, FlagsTyped
  <2> QED
    BY <1>1, <2>1, <2>2 DEF wireVars
<1>7. dials' \in BOOLEAN
  BY DEF LoadTables, OpenLive, Seed, DwarfPump, PumpQuietly,
       PumpAlbum, Pumping, dialVars,
         DwarfInv, DwarfTypeInv, FlagsTyped
<1>8. FlagsTyped'
  BY <1>1, <1>6, <1>7 DEF DwarfInv, DwarfTypeInv, FlagsTyped, deviceVars
<1>9. AlbumTyped'
  <2>1. /\ album \in 0..MaxFiles /\ seen \subseteq 1..MaxFiles /\ windows \in Nat
        /\ calls \in Nat
    BY DwarfAssumption DEF DwarfInv, DwarfTypeInv, AlbumTyped, CallTyped
  <2>2. \A n : Newest(n) \subseteq 1..MaxFiles
    BY <2>1, DwarfAssumption DEF Newest
  <2>3. seen' \subseteq 1..MaxFiles
    BY <2>1, <2>2 DEF LoadTables, OpenLive, Seed, DwarfPump,
         PumpQuietly, PumpAlbum, Pumping, albumVars
  <2>4. Watched \in Nat /\ (Watched = windows \/ Watched = 1)
    BY <2>1 DEF Watched
  <2>5. windows' = windows \/ (call = NoCall /\ windows' \in 0..Watched)
    BY <2>4 DEF LoadTables, OpenLive, Seed, DwarfPump,
         PumpQuietly, PumpAlbum, Pumping, Idle, albumVars
  <2>6. album' = album /\ call' = call /\ calls' = calls
    BY <1>1 DEF deviceVars
  <2> QED
    BY <2>1, <2>3, <2>4, <2>5, <2>6 DEF DwarfInv, DwarfTypeInv, AlbumTyped, NoCall
<1> QED
  BY <1>3, <1>4, <1>5, <1>8, <1>9 DEF DwarfInv, DwarfTypeInv

\* DwarfInv is inductive.
LEMMA DwarfInvStep ==
  DwarfInv /\ [DwarfNext]_dwarfVars => DwarfInv'
<1> SUFFICES ASSUME DwarfInv, [DwarfNext]_dwarfVars PROVE DwarfInv'
  OBVIOUS
<1>1. CASE Device
  <2>1. CASE LinkBreaks
    BY <1>1, <2>1, CutKeeps, DeviceTyped DEF DwarfInv, LinkBreaks, waitVars,
         deviceVars, dialVars
  <2> QED
    BY <1>1, <2>1, ServesKeeps, SpeaksKeeps, DeviceTyped DEF DwarfInv, Device
<1>2. CASE Reader
  BY <1>2, DispatchKeeps, ReaderDiesKeeps, ReaderTyped DEF DwarfInv, Reader
<1>3. CASE DwarfWorker
  BY <1>3, AsksKeep, EndsKeep, GoesOnKeep DEF DwarfWorker, Starts
<1>4. CASE UNCHANGED dwarfVars
  <2> USE <1>4 DEF dwarfVars, waitVars, wireVars, deviceVars,
       dialVars, albumVars
  <2>1. WireTyped' /\ CallTyped' /\ NotesTyped' /\ DialTyped' /\ AlbumTyped'
    BY DEF DwarfInv, DwarfTypeInv, WireTyped, CallTyped, NotesTyped, DialTyped, AlbumTyped
  <2>2. FlagsTyped'
    BY DEF DwarfInv, DwarfTypeInv, FlagsTyped
  <2>3. CallFits'
    BY DEF DwarfInv, DialInv, CallFits
  <2>4. LockFirst' /\ SetOnce'
    BY DEF DwarfInv, DialInv, LockFirst, SetOnce, Waits, Comes, OneRequest, OneAnswer
  <2>5. ManualKept' /\ ExpoKept'
    BY DEF DwarfInv, DialInv, ManualKept, ExpoKept, Waits, Told
  <2> QED
    BY <2>1, <2>2, <2>3, <2>4, <2>5 DEF DwarfInv, DwarfTypeInv, DialInv
<1> QED
  BY <1>1, <1>2, <1>3, <1>4 DEF DwarfNext

\* ... and so holds always.
LEMMA DwarfInvariant == DwarfSpec => []DwarfInv
<1>1. DwarfInit => DwarfInv
  BY DwarfTypeInit, DialInvInit DEF DwarfInv
<1>2. DwarfInv /\ [DwarfNext]_dwarfVars => DwarfInv'
  BY DwarfInvStep
<1> QED
  BY <1>1, <1>2, PTL DEF DwarfSpec

\* Every reachable state of the telescope's session is well typed: a waiter waits
\* for keys of the table of drivers/dwarf_wire.py, the notifications stay within
\* their backlog, and the shots whose files are awaited outnumber those asked for by
\* one at most.
THEOREM TelescopeTyped == DwarfSpec => []DwarfTypeOK
<1>1. DwarfInv => DwarfTypeOK
  BY DwarfTypeParts DEF DwarfInv
<1> QED
  BY <1>1, DwarfInvariant, PTL

\* An acknowledged write is settlement (adapters/dwarf.py:168-169): as long as the
\* session holds the lock and gave up no write, the value it reports is in force on
\* the device, in manual mode, although answers are matched by kind alone
\* (drivers/dwarf_transport.py:143), come late and share the wire with what the
\* device says unasked.
THEOREM DialIsTrue == DwarfSpec => []DialTruthful
<1>1. DwarfInv => DialTruthful
  BY DialInvTruthful DEF DwarfInv
<1> QED
  BY <1>1, DwarfInvariant, PTL

=============================================================================
