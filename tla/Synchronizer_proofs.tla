-------------------------- MODULE Synchronizer_proofs --------------------------
(***************************************************************************)
(* Proofs about Synchronizer for every frame time, number of frames that   *)
(* may be skipped, size of the buffers, answer of the throttling and       *)
(* behaviour of the inputs: frames leave in order, the video is never      *)
(* longer than the recording and no sound is missing.                       *)
(***************************************************************************)
EXTENDS Synchronizer, TLAPS

LEMMA Before == ASSUME NEW a \in Int, NEW b \in Nat, a + 1 = b PROVE a < b
  OBVIOUS

USE AudioAssumption, SizeAssumption, InputAssumption

-----------------------------------------------------------------------------
(* Frame numbers.                                                           *)

LEMMA Quotient ==
  ASSUME NEW a \in Nat
  PROVE  /\ a \div FrameTime \in Nat
         /\ FrameTime * (a \div FrameTime) <= a
         /\ a < FrameTime * (a \div FrameTime) + FrameTime
  BY SMTT(20)

LEMMA Multiples ==
  ASSUME NEW q \in Nat, NEW r \in Nat, r + 1 <= q
  PROVE  FrameTime * r + FrameTime <= FrameTime * q
  BY SMTT(20)

LEMMA QuotientMonotone ==
  ASSUME NEW a \in Nat, NEW b \in Nat, a <= b
  PROVE  a \div FrameTime <= b \div FrameTime
<1>1. a \div FrameTime \in Nat /\ b \div FrameTime \in Nat
  BY Quotient
<1>2. SUFFICES ASSUME b \div FrameTime + 1 <= a \div FrameTime PROVE FALSE
  BY <1>1
<1> DEFINE x == FrameTime * (b \div FrameTime)
           y == FrameTime * (a \div FrameTime)
<1>3. x \in Nat /\ y \in Nat
  BY <1>1
<1>4. y <= a /\ b < x + FrameTime
  BY Quotient
<1>5. x + FrameTime <= y
  BY <1>1, <1>2, Multiples
<1> HIDE DEF x, y
<1>6. QED
  BY <1>3, <1>4, <1>5

LEMMA PtsType == ASSUME NEW t \in Int PROVE Pts(t) \in Int
<1>1. CASE t >= 0
  BY <1>1, Quotient DEF Pts
<1>2. CASE ~(t >= 0)
  <2>1. -t \in Nat
    BY <1>2
  <2>2. (-t) \div FrameTime \in Nat
    BY <2>1, Quotient
  <2>3. QED
    BY <1>2, <2>2 DEF Pts
<1>3. QED
  BY <1>1, <1>2

(* A later time has no smaller frame number, on both sides of zero.         *)
LEMMA PtsMonotone ==
  ASSUME NEW s \in Int, NEW t \in Int, s <= t
  PROVE  Pts(s) <= Pts(t)
<1>1. CASE s >= 0
  <2>1. s \in Nat /\ t \in Nat /\ t >= 0
    BY <1>1
  <2>2. QED
    BY <1>1, <2>1, QuotientMonotone DEF Pts
<1>2. CASE ~(s >= 0) /\ t >= 0
  <2>1. -s \in Nat /\ t \in Nat
    BY <1>2
  <2>2. (-s) \div FrameTime \in Nat /\ t \div FrameTime \in Nat
    BY <2>1, Quotient
  <2>3. QED
    BY <1>2, <2>2 DEF Pts
<1>3. CASE ~(t >= 0)
  <2>1. -s \in Nat /\ -t \in Nat /\ -t <= -s /\ ~(s >= 0)
    BY <1>3
  <2>2. (-t) \div FrameTime <= (-s) \div FrameTime
    BY <2>1, QuotientMonotone
  <2>3. (-s) \div FrameTime \in Nat /\ (-t) \div FrameTime \in Nat
    BY <2>1, Quotient
  <2> DEFINE p == (-t) \div FrameTime
             q == (-s) \div FrameTime
  <2>4. Pts(s) = -q /\ Pts(t) = -p /\ p <= q /\ p \in Nat /\ q \in Nat
    BY <1>3, <2>1, <2>2, <2>3 DEF Pts
  <2> HIDE DEF p, q
  <2>5. QED
    BY <2>4
<1>4. QED
  BY <1>1, <1>2, <1>3

LEMMA QuotientNext ==
  ASSUME NEW a \in Nat
  PROVE  (a + FrameTime) \div FrameTime <= a \div FrameTime + 1
<1> DEFINE q == a \div FrameTime
           r == (a + FrameTime) \div FrameTime
<1>1. q \in Nat /\ r \in Nat
  BY Quotient
<1>2. FrameTime * r <= a + FrameTime /\ a < FrameTime * q + FrameTime
  BY Quotient
<1>3. FrameTime * q \in Nat /\ FrameTime * r \in Nat
  BY <1>1
<1> HIDE DEF q, r
<1>4. SUFFICES ASSUME (q + 1) + 1 <= r PROVE FALSE
  BY <1>1 DEF q, r
<1>5. FrameTime * (q + 1) + FrameTime <= FrameTime * r
  BY <1>1, <1>4, Multiples
<1>6. FrameTime * (q + 1) = FrameTime * q + FrameTime
  BY <1>1, SMTT(20)
<1> DEFINE x == FrameTime * q
           y == FrameTime * r
<1>7. x \in Nat /\ y \in Nat /\ y <= a + FrameTime /\ a < x + FrameTime
      /\ x + FrameTime + FrameTime <= y
  BY <1>2, <1>3, <1>5, <1>6
<1> HIDE DEF x, y
<1>8. QED
  BY <1>7

LEMMA QuotientFirst ==
  ASSUME NEW a \in Nat
  PROVE  a < FrameTime <=> a \div FrameTime <= 0
<1>1. a \div FrameTime \in Nat
  BY Quotient
<1>2. ASSUME a < FrameTime PROVE a \div FrameTime <= 0
  <2>1. 0 \div FrameTime = 0 /\ (FrameTime * (a \div FrameTime) <= a)
    BY Quotient
  <2>2. SUFFICES ASSUME 0 + 1 <= a \div FrameTime PROVE FALSE
    BY <1>1
  <2>3. FrameTime * 0 + FrameTime <= FrameTime * (a \div FrameTime)
    BY <1>1, <2>2, Multiples
  <2> DEFINE y == FrameTime * (a \div FrameTime)
  <2>4. y \in Nat /\ y <= a /\ FrameTime <= y
    BY <1>1, <2>1, <2>3
  <2> HIDE DEF y
  <2>5. QED
    BY <1>2, <2>4
<1>3. ASSUME a \div FrameTime <= 0 PROVE a < FrameTime
  <2>1. a \div FrameTime = 0
    BY <1>1, <1>3
  <2>2. a < FrameTime * 0 + FrameTime
    BY <2>1, Quotient
  <2>3. QED
    BY <2>2
<1>4. QED
  BY <1>2, <1>3

(* One frame time later the frame number is at most one greater, across     *)
(* zero too, where the division truncates upwards.                          *)
LEMMA PtsNext ==
  ASSUME NEW t \in Int
  PROVE  Pts(t + FrameTime) <= Pts(t) + 1
<1>1. CASE t >= 0
  <2>1. t \in Nat /\ t + FrameTime >= 0
    BY <1>1
  <2>2. QED
    BY <1>1, <2>1, QuotientNext DEF Pts
<1>2. CASE t < 0 /\ t + FrameTime >= 0
  <2>1. -t \in Nat /\ t + FrameTime \in Nat /\ t + FrameTime < FrameTime
        /\ ~(t >= 0)
    BY <1>2
  <2>2. (t + FrameTime) \div FrameTime <= 0
        /\ (t + FrameTime) \div FrameTime \in Nat
    BY <2>1, QuotientFirst, Quotient
  <2>3. (-t) \div FrameTime <= FrameTime \div FrameTime
    BY <1>2, <2>1, QuotientMonotone
  <2>4. FrameTime \div FrameTime <= 1
    <3>1. (0 + FrameTime) \div FrameTime <= 0 \div FrameTime + 1
      BY QuotientNext
    <3>2. 0 \div FrameTime = 0
      OBVIOUS
    <3>3. QED
      BY <3>1, <3>2
  <2>5. (-t) \div FrameTime \in Nat /\ FrameTime \div FrameTime \in Nat
    BY <2>1, Quotient
  <2> DEFINE p == (-t) \div FrameTime
             q == (t + FrameTime) \div FrameTime
             r == FrameTime \div FrameTime
  <2>6. p \in Nat /\ q \in Nat /\ r \in Nat /\ q <= 0 /\ p <= r /\ r <= 1
    BY <2>2, <2>3, <2>4, <2>5
  <2>7. Pts(t) = -p /\ Pts(t + FrameTime) = q
    BY <1>2, <2>1 DEF Pts
  <2> HIDE DEF p, q, r
  <2>8. QED
    BY <2>6, <2>7
<1>3. CASE t < 0 /\ t + FrameTime < 0
  <2> DEFINE s == -(t + FrameTime)
             p == s \div FrameTime
             q == (s + FrameTime) \div FrameTime
  <2>1. s \in Nat /\ -t = s + FrameTime /\ ~(t >= 0) /\ ~(t + FrameTime >= 0)
    BY <1>3
  <2>2. q <= p + 1 /\ p \in Nat /\ q \in Nat
    BY <2>1, QuotientNext, Quotient
  <2>3. Pts(t) = -q /\ Pts(t + FrameTime) = -p
    BY <2>1 DEF Pts
  <2> HIDE DEF s, p, q
  <2>4. QED
    BY <2>2, <2>3
<1>4. QED
  BY <1>1, <1>2, <1>3

(* Frame number zero lasts until the first frame time is over.              *)
LEMMA PtsFirst ==
  ASSUME NEW t \in Int
  PROVE  t < FrameTime <=> Pts(t) <= 0
<1>1. CASE t >= 0
  BY <1>1, QuotientFirst DEF Pts
<1>2. CASE ~(t >= 0)
  <2>1. -t \in Nat
    BY <1>2
  <2>2. (-t) \div FrameTime \in Nat
    BY <2>1, Quotient
  <2>3. Pts(t) = -((-t) \div FrameTime)
    BY <1>2 DEF Pts
  <2>4. QED
    BY <1>2, <2>2, <2>3
<1>3. QED
  BY <1>1, <1>2

-----------------------------------------------------------------------------
(* The inductive invariant.                                                 *)

(* A flush goes on only while both inputs have started, and samples are    *)
(* only read then.                                                          *)
FlushInv ==
  /\ pc \in {"frame", "delay", "dup", "audio"} => BothStarted
  /\ ~HasAudio => started["audio"]
  /\ ~BothStarted => samplesRead = 0
  /\ audioBuffer > 0 => started["audio"]

(* The stop times are those of the last frame and the last sample.          *)
SegmentInv ==
  /\ started["video"] => stop["video"] <= lastTime + FrameTime
  /\ HasAudio /\ started["audio"] =>
       stop["audio"] = start["audio"] + samplesRead + audioBuffer

(* The audio stream is never behind the first sample still in the buffer.   *)
AudioInv ==
  HasAudio =>
    /\ audioSamples >= timeOffset
    /\ BothStarted =>
         timeOffset + start["audio"] - SegmentStart + samplesRead
           <= audioSamples
    /\ pc = "reset" => audioSamples >= TotalTime

VideoInv == lastPts < videoPts /\ VideoNeverAhead

IInv == TypeOK /\ FlushInv /\ SegmentInv /\ AudioInv /\ VideoInv

LEMMA InitInv == Init => IInv
<1> SUFFICES ASSUME Init PROVE IInv
  OBVIOUS
<1> USE DEF Init, Unstarted, NoTimes, NoBlock, Media, Enabled, ASAP, None
<1>1. TypeOK
  <2>1. started \in [Media -> BOOLEAN]
    BY Zenon
  <2>2. start \in [Media -> Nat] /\ stop \in [Media -> Nat]
    OBVIOUS
  <2>3. block \in [samples : Nat, time : Nat]
    OBVIOUS
  <2>4. videoBuffer \in Seq(0..MaxTime)
    OBVIOUS
  <2>5. /\ lastTime \in -1..MaxTime /\ nextTime \in Nat \cup {ASAP}
        /\ nextPts \in Int /\ lastPts \in Nat \cup {None}
    OBVIOUS
  <2>6. /\ audioBuffer \in Nat /\ videoPts \in Nat /\ audioSamples \in Nat
        /\ timeOffset \in Nat /\ samplesRead \in Nat /\ delay \in Nat
        /\ canDrop \in BOOLEAN /\ haveLast \in BOOLEAN
        /\ pc = "free" /\ after = "free"
    OBVIOUS
  <2> HIDE DEF Init, Unstarted, NoTimes, NoBlock, Media, ASAP, None
  <2>7. QED
    BY <2>1, <2>2, <2>3, <2>4, <2>5, <2>6 DEF TypeOK
<1>2. FlushInv /\ SegmentInv
  <2>1. ~started["video"] /\ (started["audio"] <=> ~HasAudio)
    BY Zenon
  <2>2. pc = "free" /\ samplesRead = 0 /\ ~(audioBuffer > 0)
    OBVIOUS
  <2>3. QED
    BY <2>1, <2>2 DEF FlushInv, SegmentInv
<1>3. TotalTime \in Nat /\ TotalTime = 0
  BY DEF TotalTime, BothStarted, Larger, SegmentStart, SegmentStop, Smaller
<1>4. AudioInv
  BY <1>3 DEF AudioInv, BothStarted, SegmentStart, Larger
<1>5. VideoInv
  BY <1>3, Quotient DEF VideoInv, VideoNeverAhead, Pts
<1>6. QED
  BY <1>1, <1>2, <1>4, <1>5 DEF IInv

LEMMA Length ==
  ASSUME NEW o \in Nat, NEW a \in Nat, NEW b \in Nat
  PROVE  o + Larger(0, b - a) \in Nat /\ o + Larger(0, b - a) >= o
  BY DEF Larger

LEMMA LongerSegment ==
  ASSUME NEW o \in Nat, NEW a \in Nat, NEW b \in Nat, NEW c \in Nat, b <= c
  PROVE  o + Larger(0, c - a) >= o + Larger(0, b - a)
  BY DEF Larger

(* The times of a segment.                                                  *)
LEMMA Times ==
  ASSUME TypeOK
  PROVE  /\ SegmentStart \in Nat /\ SegmentStop \in Nat
         /\ TotalTime \in Nat /\ TotalTime >= timeOffset
         /\ BothStarted => TotalTime >= timeOffset + (SegmentStop - SegmentStart)
         /\ StopPts \in Int
         /\ BothStarted => StopPts <= Pts(TotalTime)
<1> USE DEF TypeOK, Media
<1>1. SegmentStart \in Nat /\ SegmentStop \in Nat
  BY DEF SegmentStart, SegmentStop, Larger, Smaller
<1>2. /\ TotalTime \in Nat /\ TotalTime >= timeOffset
      /\ BothStarted => TotalTime >= timeOffset + (SegmentStop - SegmentStart)
  BY <1>1 DEF TotalTime, Larger
<1>3. timeOffset + (SegmentStop - SegmentStart) \in Int
  BY <1>1
<1>4. StopPts \in Int
  BY <1>3, PtsType DEF StopPts
<1>5. BothStarted => StopPts <= Pts(TotalTime)
  BY <1>2, <1>3, PtsMonotone DEF StopPts
<1>6. QED
  BY <1>1, <1>2, <1>4, <1>5

-----------------------------------------------------------------------------
(* The inputs.                                                              *)

(* Of the times after a step as much is known.                              *)
LEMMA LaterTimes ==
  ASSUME TypeOK'
  PROVE  /\ TotalTime' \in Nat /\ TotalTime' >= timeOffset'
         /\ SegmentStart' \in Nat /\ SegmentStop' \in Nat
<1>1. SegmentStart' \in Nat /\ SegmentStop' \in Nat /\ timeOffset' \in Nat
  BY DEF TypeOK, Media, SegmentStart, SegmentStop, Larger, Smaller
<1>2. CASE BothStarted'
  <2>1. TotalTime' = timeOffset' + Larger(0, SegmentStop' - SegmentStart')
    BY <1>2 DEF TotalTime
  <2>2. QED
    BY <1>1, <2>1, Length
<1>3. CASE ~BothStarted'
  <2>1. TotalTime' = timeOffset' + 0
    BY <1>3 DEF TotalTime
  <2>2. ASSUME NEW o \in Nat PROVE o + 0 \in Nat /\ o + 0 >= o
    OBVIOUS
  <2>3. QED
    BY <1>1, <2>1, <2>2
<1>4. QED
  BY <1>2, <1>3

(* A step that leaves the video stream alone keeps it in bounds when the    *)
(* recording does not get shorter.                                          *)
LEMMA InputsGrow ==
  ASSUME TypeOK, TypeOK', VideoInv, TotalTime' >= TotalTime,
         videoPts' = videoPts, lastPts' = lastPts
  PROVE  VideoInv'
<1>1. TotalTime \in Nat
  BY Times
<1>2. TotalTime' \in Nat
  BY LaterTimes
<1>3. Pts(TotalTime) <= Pts(TotalTime')
  BY <1>1, <1>2, PtsMonotone
<1>4. Pts(TotalTime) \in Int /\ Pts(TotalTime') \in Int
  BY <1>1, <1>2, PtsType
<1>5. Pts(TotalTime)' = Pts(TotalTime')
  BY DEF Pts
<1>6. videoPts \in Nat /\ videoPts <= Pts(TotalTime) /\ lastPts < videoPts
  BY DEF TypeOK, VideoInv, VideoNeverAhead
<1>7. QED
  BY <1>3, <1>4, <1>5, <1>6 DEF VideoInv, VideoNeverAhead

LEMMA ReadVideoStep ==
  ASSUME IInv, NEW captured \in 0..MaxTime, ReadVideoFrame(captured)
  PROVE  IInv' /\ TotalTime' >= TotalTime
<1> DEFINE t == Larger(captured, lastTime)
           full == Len(videoBuffer) >= VideoMax
           kept == IF full THEN Tail(videoBuffer) ELSE videoBuffer
           first == IF full THEN Head(kept)
                    ELSE IF started["video"] THEN start["video"] ELSE t
           lost == full /\ started["audio"]
<1>1. TypeOK /\ FlushInv /\ SegmentInv /\ AudioInv /\ VideoInv
  BY DEF IInv
<1>2. t \in 0..MaxTime /\ lastTime <= t
  BY <1>1 DEF TypeOK, Larger
<1>3. kept \in Seq(0..MaxTime) /\ first \in Nat
  <2>1. CASE full
    <3>1. videoBuffer \in Seq(0..MaxTime) /\ Len(videoBuffer) >= 2
      BY <1>1, <2>1 DEF TypeOK
    <3>2. Tail(videoBuffer) \in Seq(0..MaxTime)
          /\ Len(Tail(videoBuffer)) >= 1
      BY <3>1
    <3>3. Head(Tail(videoBuffer)) \in 0..MaxTime
      BY <3>2
    <3>4. QED
      BY <2>1, <3>2, <3>3
  <2>2. CASE ~full
    BY <1>1, <1>2, <2>2 DEF TypeOK, Media
  <2>3. QED
    BY <2>1, <2>2
<1>4. /\ pc = "free" /\ lastTime' = t
      /\ nextTime' = IF nextTime = ASAP THEN t
                                        ELSE Larger(nextTime + FrameTime, t)
      /\ StoreFrame(t)
      /\ UNCHANGED <<audioBuffer, streams, canDrop, samplesRead, timeOffset,
                     delay, haveLast, control>>
  BY DEF ReadVideoFrame
<1>5. CASE lost
  <2>1. UNCHANGED <<videoBuffer, started, start, stop>>
    BY <1>4, <1>5 DEF StoreFrame
  <2>2. TotalTime' = TotalTime /\ SegmentStart' = SegmentStart
        /\ BothStarted' = BothStarted
    BY <1>4, <2>1 DEF TotalTime, BothStarted, SegmentStart, SegmentStop
  <2>3. TypeOK'
    BY <1>1, <1>2, <1>4, <2>1
       DEF TypeOK, streams, control, Larger, ASAP
  <2>4. FlushInv' /\ SegmentInv' /\ AudioInv'
    BY <1>1, <1>2, <1>4, <2>1, <2>2
       DEF FlushInv, SegmentInv, AudioInv, streams, control, TypeOK, Media
  <2>5. TotalTime \in Nat
    BY <1>1, Times
  <2>6. VideoInv'
    BY <1>1, <1>4, <2>2, <2>3, <2>5, InputsGrow DEF streams
  <2>7. QED
    BY <2>2, <2>3, <2>4, <2>5, <2>6 DEF IInv
<1>6. CASE ~lost
  <2>1. /\ videoBuffer' = Append(kept, t)
        /\ started' = [started EXCEPT !["video"] = TRUE]
        /\ start' = [start EXCEPT !["video"] = first]
        /\ stop' = [stop EXCEPT !["video"] = t + FrameTime]
    BY <1>4, <1>6 DEF StoreFrame
  <2> HIDE DEF t, kept, first
  <2>2. TypeOK'
    <3>1. videoBuffer' \in Seq(0..MaxTime)
      BY <1>2, <1>3, <2>1
    <3>2. /\ started' \in [Media -> BOOLEAN]
          /\ start' \in [Media -> Nat] /\ stop' \in [Media -> Nat]
      BY <1>1, <1>2, <1>3, <2>1 DEF TypeOK, Media
    <3>3. nextTime' \in Nat \cup {ASAP} /\ lastTime' \in -1..MaxTime
      BY <1>1, <1>2, <1>4 DEF TypeOK, Larger, ASAP
    <3>4. QED
      BY <1>1, <1>4, <3>1, <3>2, <3>3 DEF TypeOK, streams, control
  <2>3. /\ started'["video"] /\ started'["audio"] = started["audio"]
        /\ start'["video"] = first /\ start'["audio"] = start["audio"]
        /\ stop'["video"] = t + FrameTime /\ stop'["audio"] = stop["audio"]
    BY <1>1, <2>1 DEF TypeOK, Media
  <2>4. BothStarted => BothStarted' /\ start' = start
    <3> SUFFICES ASSUME BothStarted PROVE BothStarted' /\ start' = start
      OBVIOUS
    <3>1. started["video"] /\ started["audio"]
      BY DEF BothStarted, Media
    <3>2. first = start["video"]
      BY <1>6, <3>1 DEF first
    <3>3. QED
      BY <1>1, <2>1, <2>3, <3>1, <3>2 DEF BothStarted, Media, TypeOK
  <2>5. FlushInv' /\ SegmentInv'
    BY <1>1, <1>2, <1>4, <2>2, <2>3, <2>4
       DEF FlushInv, SegmentInv, streams, control, TypeOK, Media
  <2>6. AudioInv'
    <3>1. CASE BothStarted
      BY <1>1, <1>4, <2>4, <3>1 DEF AudioInv, SegmentStart, streams, control
    <3>2. CASE ~BothStarted
      <4>1. samplesRead' = 0 /\ pc' = "free"
        BY <1>1, <1>4, <3>2 DEF FlushInv, control
      <4>2. HasAudio => start'["audio"] - SegmentStart' <= 0
        <5>1. start'["audio"] \in Nat /\ start'["video"] \in Nat
          BY <2>2 DEF TypeOK, Media
        <5>2. HasAudio => SegmentStart' = Larger(start'["video"], start'["audio"])
          BY DEF SegmentStart
        <5>3. QED
          BY <5>1, <5>2 DEF Larger
      <4>3. /\ audioSamples' = audioSamples /\ timeOffset' = timeOffset
            /\ HasAudio => audioSamples >= timeOffset
            /\ audioSamples \in Nat /\ timeOffset \in Nat
            /\ start'["audio"] \in Nat /\ SegmentStart' \in Nat
        BY <1>1, <1>4, <2>2
           DEF AudioInv, streams, TypeOK, Media, SegmentStart, Larger
      <4>4. QED
        BY <4>1, <4>2, <4>3 DEF AudioInv
    <3>3. QED
      BY <3>1, <3>2
  <2>7. TotalTime' >= TotalTime
    <3>1. CASE BothStarted
      <4>1. started["video"]
        BY <3>1 DEF BothStarted, Media
      <4>2. stop["video"] <= stop'["video"]
        BY <1>1, <1>2, <2>3, <4>1 DEF SegmentInv, TypeOK, Media
      <4>3. SegmentStart' = SegmentStart /\ timeOffset' = timeOffset
        BY <1>4, <2>4, <3>1 DEF SegmentStart
      <4>4. SegmentStop <= SegmentStop'
        <5>1. /\ stop["video"] \in Nat /\ stop["audio"] \in Nat
              /\ stop'["video"] \in Nat /\ stop'["audio"] = stop["audio"]
          BY <1>1, <2>2, <2>3 DEF TypeOK, Media
        <5>2. SegmentStop' = IF HasAudio THEN Smaller(stop'["video"], stop'["audio"])
                                         ELSE stop'["video"]
          BY DEF SegmentStop
        <5>3. QED
          BY <4>2, <5>1, <5>2 DEF SegmentStop, Smaller
      <4>5. SegmentStart \in Nat /\ SegmentStop \in Nat /\ SegmentStop' \in Nat
        BY <1>1, <2>2, Times DEF SegmentStop, Smaller, TypeOK, Media
      <4>6. QED
        <5>1. TotalTime = timeOffset + Larger(0, SegmentStop - SegmentStart)
          BY <3>1 DEF TotalTime
        <5>2. TotalTime' = timeOffset + Larger(0, SegmentStop' - SegmentStart)
          BY <2>4, <3>1, <4>3 DEF TotalTime
        <5>3. timeOffset \in Nat
          BY <1>1 DEF TypeOK
        <5>4. QED
          BY <4>4, <4>5, <5>1, <5>2, <5>3, LongerSegment
    <3>2. CASE ~BothStarted
      <4>1. TotalTime = timeOffset + 0 /\ timeOffset \in Nat
        BY <1>1, <3>2 DEF TotalTime, TypeOK
      <4>2. QED
        BY <1>4, <2>2, <4>1, LaterTimes
    <3>3. QED
      BY <3>1, <3>2
  <2>8. VideoInv'
    BY <1>1, <1>4, <2>2, <2>7, InputsGrow DEF streams
  <2>9. QED
    BY <2>2, <2>5, <2>6, <2>7, <2>8 DEF IInv
<1>7. QED
  BY <1>5, <1>6

(* A step that leaves the segment, the buffers and the streams alone.       *)
LEMMA IdleStep ==
  ASSUME IInv, TypeOK', UNCHANGED <<lastTime, audioBuffer, streams, segment>>,
         pc' \in {"frame", "delay", "dup", "audio"} => BothStarted,
         HasAudio /\ pc' = "reset" => audioSamples >= TotalTime
  PROVE  IInv' /\ TotalTime' = TotalTime
<1>1. /\ TotalTime' = TotalTime /\ BothStarted' = BothStarted
      /\ SegmentStart' = SegmentStart
  BY DEF segment, TotalTime, BothStarted, SegmentStart, SegmentStop
<1>2. FlushInv'
  BY <1>1 DEF IInv, FlushInv, segment
<1>3. SegmentInv'
  BY DEF IInv, SegmentInv, segment
<1>4. AudioInv'
  BY <1>1 DEF IInv, AudioInv, segment, streams
<1>5. VideoInv'
  BY <1>1, Times, InputsGrow DEF IInv, streams
<1>6. QED
  BY <1>1, <1>2, <1>3, <1>4, <1>5 DEF IInv

LEMMA ReadAudioStep ==
  ASSUME IInv, NEW n \in Blocks, NEW t \in 0..MaxTime, ReadAudioSamples(n, t)
  PROVE  IInv' /\ TotalTime' >= TotalTime
<1>1. TypeOK /\ FlushInv /\ SegmentInv /\ AudioInv /\ VideoInv
  BY DEF IInv
<1>2. block' \in [samples : Nat, time : Nat]
  BY DEF ReadAudioSamples
<1>3. TotalTime \in Nat
  BY <1>1, Times
<1>4. CASE audioBuffer >= AudioMax /\ ~started["video"]
  <2>1. /\ pc' = "push" /\ audioBuffer' = AudioKeep
        /\ start' = [start EXCEPT !["audio"] = @ + audioBuffer - AudioKeep]
        /\ UNCHANGED <<videoInput, videoBuffer, streams, started, stop, canDrop,
                       samplesRead, timeOffset, delay, haveLast, nextPts, after>>
    BY <1>4 DEF ReadAudioSamples, MakeRoom, TypeOK, IInv
  <2>2. /\ start["audio"] \in Nat /\ audioBuffer \in Nat /\ AudioKeep \in Nat
        /\ AudioKeep <= audioBuffer
    BY <1>1, <1>4 DEF TypeOK, Media
  <2>3. start["audio"] + audioBuffer - AudioKeep \in Nat
    BY <2>2
  <2>4. start' \in [Media -> Nat]
        /\ start'["audio"] = start["audio"] + audioBuffer - AudioKeep
    BY <1>1, <2>1, <2>3 DEF TypeOK, Media
  <2>5. TypeOK'
    BY <1>1, <1>2, <2>1, <2>2, <2>4 DEF TypeOK, videoInput, streams
  <2>6. ~BothStarted /\ ~BothStarted'
    BY <1>4, <2>1 DEF BothStarted, Media
  <2>7. FlushInv'
    <3>1. audioBuffer > 0
      BY <1>1, <1>4 DEF TypeOK
    <3>2. QED
      BY <1>1, <2>1, <2>6, <3>1 DEF FlushInv
  <2>8. SegmentInv'
    <3>1. stop["audio"] \in Nat /\ samplesRead \in Nat
      BY <1>1 DEF TypeOK, Media
    <3>2. HasAudio /\ started["audio"] =>
            stop'["audio"] = start'["audio"] + samplesRead' + audioBuffer'
      BY <1>1, <2>1, <2>2, <2>4, <3>1 DEF SegmentInv
    <3>3. QED
      BY <1>4, <2>1, <3>2 DEF SegmentInv
  <2>9. AudioInv'
    BY <1>1, <2>1, <2>6 DEF AudioInv, streams
  <2>10. TotalTime' = timeOffset + 0 /\ TotalTime = timeOffset + 0
    BY <2>1, <2>6 DEF TotalTime
  <2>11. VideoInv'
    BY <1>1, <1>3, <2>1, <2>5, <2>10, InputsGrow DEF streams
  <2>12. QED
    BY <1>3, <2>5, <2>7, <2>8, <2>9, <2>10, <2>11 DEF IInv
<1>5. CASE ~(audioBuffer >= AudioMax /\ ~started["video"])
  <2>1. /\ pc' \in {"frame", "push"} /\ after' \in {"free", "reset"}
        /\ pc' = "frame" => audioBuffer >= AudioMax /\ started["video"]
        /\ HasAudio
        /\ UNCHANGED <<videoInput, videoBuffer, audioBuffer, streams, started,
                       start, stop, canDrop, samplesRead, timeOffset, delay,
                       haveLast, nextPts>>
    BY <1>1, <1>5 DEF ReadAudioSamples, TypeOK
  <2>2. TypeOK'
    BY <1>1, <1>2, <2>1 DEF TypeOK, videoInput, streams
  <2>3. pc' = "frame" => BothStarted
    BY <1>1, <2>1 DEF FlushInv, BothStarted, Media, TypeOK
  <2>4. QED
    BY <1>3, <2>1, <2>2, <2>3, IdleStep DEF videoInput, segment
<1>6. QED
  BY <1>4, <1>5

LEMMA PushStep ==
  ASSUME IInv, PushSamples
  PROVE  IInv' /\ TotalTime' >= TotalTime
<1> DEFINE begin == IF started["audio"] THEN start["audio"] ELSE block.time
           end == begin + samplesRead + (audioBuffer + block.samples)
<1>1. TypeOK /\ FlushInv /\ SegmentInv /\ AudioInv /\ VideoInv
  BY DEF IInv
<1>2. /\ begin \in Nat /\ samplesRead \in Nat /\ audioBuffer \in Nat
      /\ block.samples \in Nat /\ timeOffset \in Nat /\ audioSamples \in Nat
  BY <1>1 DEF TypeOK, Media
<1>3. /\ pc' = "free" /\ block' = NoBlock
      /\ audioBuffer' = audioBuffer + block.samples
      /\ started' = [started EXCEPT !["audio"] = TRUE]
      /\ start' = [start EXCEPT !["audio"] = begin]
      /\ stop' = [stop EXCEPT !["audio"] =
                    start'["audio"] + samplesRead + audioBuffer']
      /\ UNCHANGED <<videoInput, videoBuffer, streams, canDrop, samplesRead,
                     timeOffset, delay, haveLast, after, nextPts>>
  BY DEF PushSamples
<1>4. end \in Nat
  BY <1>2
<1> HIDE DEF begin
<1>5. start' \in [Media -> Nat] /\ start'["audio"] = begin
      /\ start'["video"] = start["video"]
  BY <1>1, <1>2, <1>3 DEF TypeOK, Media
<1>6. stop' = [stop EXCEPT !["audio"] = end]
  BY <1>3, <1>5
<1> HIDE DEF end
<1>7. stop' \in [Media -> Nat] /\ stop'["audio"] = end
      /\ stop'["video"] = stop["video"]
  BY <1>1, <1>4, <1>6 DEF TypeOK, Media
<1>8. started' \in [Media -> BOOLEAN] /\ started'["audio"]
      /\ started'["video"] = started["video"]
  BY <1>1, <1>3 DEF TypeOK, Media
<1>9. TypeOK'
  <2>1. /\ start' \in [Media -> Nat]
        /\ stop' \in [Media -> Nat]
        /\ started' \in [Media -> BOOLEAN]
    BY <1>5, <1>7, <1>8
  <2>2. QED
    BY <1>1, <1>2, <1>3, <2>1, SMTT(30)
       DEF TypeOK, NoBlock, videoInput, streams
<1>10. BothStarted => BothStarted' /\ start' = start
  <2>1. BothStarted => started["audio"] /\ BothStarted'
    BY <1>8 DEF BothStarted, Media
  <2>2. started["audio"] => begin = start["audio"]
    BY DEF begin
  <2>3. QED
    BY <1>1, <1>3, <2>1, <2>2 DEF TypeOK, Media
<1>11. FlushInv'
  BY <1>1, <1>3, <1>8, <1>10 DEF FlushInv
<1>12. SegmentInv'
  <2>1. stop'["audio"] = start'["audio"] + samplesRead' + audioBuffer'
    BY <1>2, <1>3, <1>5, <1>7 DEF end
  <2>2. QED
    BY <1>1, <1>3, <1>7, <1>8, <2>1 DEF SegmentInv, videoInput
<1>13. AudioInv'
  <2>1. CASE BothStarted
    BY <1>1, <1>3, <1>10, <2>1 DEF AudioInv, SegmentStart, streams
  <2>2. CASE ~BothStarted
    <3>1. samplesRead' = 0 /\ pc' = "free"
      BY <1>1, <1>3, <2>2 DEF FlushInv
    <3>2. HasAudio => start'["audio"] - SegmentStart' <= 0
      <4>1. start'["audio"] \in Nat /\ start'["video"] \in Nat
        BY <1>5 DEF Media
      <4>2. HasAudio => SegmentStart' = Larger(start'["video"], start'["audio"])
        BY DEF SegmentStart
      <4>3. QED
        BY <4>1, <4>2 DEF Larger
    <3>3. /\ audioSamples' = audioSamples /\ timeOffset' = timeOffset
          /\ HasAudio => audioSamples >= timeOffset
          /\ start'["audio"] \in Nat /\ SegmentStart' \in Nat
      BY <1>1, <1>3, <1>5, <1>9, LaterTimes DEF AudioInv, streams, Media
    <3>4. QED
      BY <1>2, <3>1, <3>2, <3>3 DEF AudioInv
  <2>3. QED
    BY <2>1, <2>2
<1>14. TotalTime' >= TotalTime
  <2>1. CASE BothStarted
    <3>1. HasAudio => stop["audio"] <= end
      <4>1. HasAudio => stop["audio"] = start["audio"] + samplesRead + audioBuffer
        BY <1>1, <2>1 DEF SegmentInv, BothStarted, Media
      <4>2. begin = start["audio"]
        BY <2>1 DEF begin, BothStarted, Media
      <4>3. QED
        BY <1>2, <4>1, <4>2 DEF end
    <3>2. stop["video"] \in Nat /\ stop["audio"] \in Nat
      BY <1>1 DEF TypeOK, Media
    <3>3. SegmentStop' = IF HasAudio THEN Smaller(stop["video"], end)
                                     ELSE stop["video"]
      BY <1>7 DEF SegmentStop
    <3>4. SegmentStop <= SegmentStop'
      BY <1>4, <3>1, <3>2, <3>3 DEF SegmentStop, Smaller
    <3>5. SegmentStart' = SegmentStart /\ timeOffset' = timeOffset
      BY <1>3, <1>10, <2>1 DEF SegmentStart
    <3>6. TotalTime = timeOffset + Larger(0, SegmentStop - SegmentStart)
      BY <2>1 DEF TotalTime
    <3>7. TotalTime' = timeOffset + Larger(0, SegmentStop' - SegmentStart)
      BY <1>10, <2>1, <3>5 DEF TotalTime
    <3>8. SegmentStart \in Nat /\ SegmentStop \in Nat /\ SegmentStop' \in Nat
      BY <1>1, <1>9, Times, LaterTimes
    <3>9. QED
      BY <1>2, <3>4, <3>6, <3>7, <3>8, LongerSegment
  <2>2. CASE ~BothStarted
    <3>1. TotalTime = timeOffset + 0
      BY <2>2 DEF TotalTime
    <3>2. QED
      BY <1>2, <1>3, <1>9, <3>1, LaterTimes
  <2>3. QED
    BY <2>1, <2>2
<1>15. VideoInv'
  BY <1>1, <1>3, <1>9, <1>14, InputsGrow DEF streams
<1>16. QED
  BY <1>9, <1>11, <1>12, <1>13, <1>14, <1>15 DEF IInv

-----------------------------------------------------------------------------
(* The flush and the end of a segment.                                      *)

(* What the flush of the video keeps.                                       *)
LEMMA VideoFlushStep ==
  ASSUME IInv, TypeOK', BothStarted,
         UNCHANGED <<lastTime, audioBuffer, audioSamples, segment>>,
         pc' \in {"frame", "delay", "dup", "audio"},
         videoPts < videoPts', videoPts' <= StopPts,
         lastPts' = lastPts \/ lastPts' + 1 = videoPts'
  PROVE  IInv' /\ TotalTime' = TotalTime
<1>1. /\ TotalTime' = TotalTime /\ BothStarted' = BothStarted
      /\ SegmentStart' = SegmentStart
  BY DEF segment, TotalTime, BothStarted, SegmentStart, SegmentStop
<1>2. FlushInv' /\ SegmentInv'
  BY <1>1 DEF IInv, FlushInv, SegmentInv, segment
<1>3. AudioInv'
  BY <1>1 DEF IInv, AudioInv, segment
<1>4. VideoInv'
  <2>1. videoPts' <= Pts(TotalTime)
    <3>1. StopPts \in Int /\ StopPts <= Pts(TotalTime) /\ TotalTime \in Nat
      BY Times DEF IInv
    <3>2. Pts(TotalTime) \in Int /\ videoPts' \in Nat
      BY <3>1, PtsType DEF TypeOK
    <3>3. QED
      BY <3>1, <3>2
  <2>2. Pts(TotalTime)' = Pts(TotalTime)
    BY <1>1 DEF Pts
  <2>3. lastPts' < videoPts'
    <3>1. lastPts \in Int /\ lastPts' \in Int /\ videoPts \in Nat /\ videoPts' \in Nat
      BY DEF IInv, TypeOK, None
    <3>2. lastPts < videoPts
      BY DEF IInv, VideoInv
    <3>3. CASE lastPts' = lastPts
      BY <3>1, <3>2, <3>3
    <3>4. CASE lastPts' + 1 = videoPts'
      BY <3>1, <3>4, Before
    <3>5. QED
      BY <3>3, <3>4
  <2>4. QED
    BY <2>1, <2>2, <2>3 DEF VideoInv, VideoNeverAhead
<1>5. QED
  BY <1>1, <1>2, <1>3, <1>4 DEF IInv

(* A frame gets a number not below the position reached.                    *)
LEMMA EncodeType ==
  ASSUME TypeOK, NEW pts \in Nat, pts >= videoPts, EncodeVideo(pts)
  PROVE  /\ videoPts' = pts + 1 /\ lastPts' = pts
         /\ videoPts' \in Nat /\ lastPts' \in Nat /\ delay' \in Nat
<1>1. videoPts' = pts + 1 /\ lastPts' = pts
  BY DEF EncodeVideo
<1>2. PICK d \in Delays :
        delay' = Larger(0, delay - (pts - videoPts) * FrameTime) + d
  BY DEF EncodeVideo
<1>3. (pts - videoPts) * FrameTime \in Int
  BY DEF TypeOK
<1> DEFINE used == (pts - videoPts) * FrameTime
<1>4. used \in Int
  BY <1>3
<1> HIDE DEF used
<1>5. delay' = Larger(0, delay - used) + d
  BY <1>2 DEF used
<1>6. delay' \in Nat
  BY <1>4, <1>5 DEF TypeOK, Larger
<1>7. QED
  BY <1>1, <1>6

LEMMA VideoStep ==
  ASSUME IInv,
         PredictFrame \/ InsertDelay \/ EndDelays \/ InsertDuplicate
           \/ TakeFrame \/ VideoFlushed
  PROVE  IInv' /\ TotalTime' = TotalTime
<1>1. TypeOK /\ FlushInv /\ VideoInv
  BY DEF IInv
<1>2. SegmentStart \in Nat /\ StopPts \in Int /\ TotalTime \in Nat
  BY <1>1, Times
<1>3. CASE PredictFrame
  <2> DEFINE time == IF videoBuffer = <<>> THEN stop["video"] - FrameTime
                                           ELSE Head(videoBuffer)
             pts == Pts(timeOffset + (time - SegmentStart))
  <2>1. time \in Int
    BY <1>1 DEF TypeOK, Media
  <2>2. pts \in Int
    <3> HIDE DEF time
    <3>1. timeOffset + (time - SegmentStart) \in Int
      BY <1>1, <1>2, <2>1 DEF TypeOK
    <3>2. QED
      BY <3>1, PtsType
  <2>3. nextPts' = IF pts > videoPts THEN pts - 1 ELSE pts
    BY <1>3 DEF PredictFrame
  <2> HIDE DEF pts
  <2>4. nextPts' \in Int
    BY <2>2, <2>3
  <2>5. TypeOK'
    BY <1>1, <1>3, <2>4
       DEF PredictFrame, TypeOK, videoInput, streams, segment
  <2>6. QED
    BY <1>1, <1>3, <2>5, IdleStep DEF PredictFrame, FlushInv, videoInput
<1>4. CASE InsertDelay
  <2>1. videoPts < StopPts /\ videoPts' = videoPts + 1 /\ videoPts \in Nat
        /\ delay' \in Nat
    BY <1>1, <1>4 DEF InsertDelay, DelayDue, TypeOK
  <2>2. TypeOK'
    BY <1>1, <1>4, <2>1
       DEF InsertDelay, TypeOK, videoInput, segment, control
  <2>3. videoPts < videoPts' /\ videoPts' <= StopPts
    BY <1>2, <2>1
  <2>4. QED
    BY <1>1, <1>4, <2>2, <2>3, VideoFlushStep
       DEF InsertDelay, FlushInv, videoInput, control
<1>5. CASE EndDelays
  <2>1. TypeOK'
    BY <1>1, <1>5 DEF EndDelays, TypeOK, videoInput, streams, segment
  <2>2. QED
    BY <1>1, <1>5, <2>1, IdleStep DEF EndDelays, FlushInv, videoInput
<1>6. CASE InsertDuplicate
  <2>1. videoPts + Skip < StopPts
    BY <1>1, <1>2, <1>6
       DEF InsertDuplicate, DuplicateDue, Smaller, TypeOK
  <2>2. videoPts + Skip \in Nat /\ videoPts + Skip >= videoPts
        /\ videoPts \in Nat
    BY <1>1 DEF TypeOK
  <2>3. /\ videoPts' = videoPts + Skip + 1 /\ lastPts' = videoPts + Skip
        /\ videoPts' \in Nat /\ lastPts' \in Nat /\ delay' \in Nat
    BY <1>1, <1>6, <2>2, EncodeType DEF InsertDuplicate
  <2>4. TypeOK'
    BY <1>1, <1>6, <2>3
       DEF InsertDuplicate, TypeOK, videoInput, segment, control
  <2>5. videoPts < videoPts' /\ videoPts' <= StopPts
        /\ lastPts' + 1 = videoPts'
    BY <1>2, <2>1, <2>2, <2>3
  <2>6. QED
    BY <1>1, <1>6, <2>4, <2>5, VideoFlushStep
       DEF InsertDuplicate, FlushInv, videoInput, control
<1>7. CASE TakeFrame
  <2>1. videoBuffer \in Seq(0..MaxTime) /\ videoBuffer # <<>>
    BY <1>1, <1>7 DEF TakeFrame, TypeOK
  <2>2. videoBuffer' \in Seq(0..MaxTime)
    BY <1>7, <2>1 DEF TakeFrame
  <2>3. pc' = "frame" /\ BothStarted /\ haveLast' = TRUE
    BY <1>1, <1>7 DEF TakeFrame, FlushInv
  <2>4. CASE nextPts < videoPts /\ UNCHANGED <<videoPts, lastPts, delay>>
    <3>1. TypeOK'
      BY <1>1, <1>7, <2>2, <2>3, <2>4
         DEF TakeFrame, TypeOK, videoInput, segment
    <3>2. QED
      BY <1>7, <2>3, <2>4, <3>1, IdleStep
         DEF TakeFrame, videoInput, streams
  <2>5. CASE nextPts >= videoPts
               /\ EncodeVideo(IF videoPts = 0 THEN 0 ELSE nextPts)
    <3> DEFINE p == IF videoPts = 0 THEN 0 ELSE nextPts
    <3>1. videoPts \in Nat /\ nextPts \in Int /\ nextPts < StopPts
      BY <1>1, <1>7 DEF TakeFrame, TypeOK
    <3>2. p \in Nat /\ p >= videoPts /\ p < StopPts
      BY <1>2, <2>5, <3>1
    <3>3. EncodeVideo(p)
      BY <2>5
    <3> HIDE DEF p
    <3>4. /\ videoPts' = p + 1 /\ lastPts' = p
          /\ videoPts' \in Nat /\ lastPts' \in Nat /\ delay' \in Nat
      BY <1>1, <3>2, <3>3, EncodeType
    <3>5. TypeOK'
      BY <1>1, <1>7, <2>2, <2>3, <3>4
         DEF TakeFrame, TypeOK, videoInput, segment
    <3>6. videoPts < videoPts' /\ videoPts' <= StopPts
          /\ lastPts' + 1 = videoPts'
      BY <1>2, <3>1, <3>2, <3>4
    <3>7. QED
      BY <1>7, <2>3, <3>5, <3>6, VideoFlushStep
         DEF TakeFrame, videoInput
  <2>6. QED
    BY <1>7, <2>4, <2>5 DEF TakeFrame
<1>8. CASE VideoFlushed
  <2>1. TypeOK'
    BY <1>1, <1>8 DEF VideoFlushed, TypeOK, videoInput, streams, segment
  <2>2. QED
    BY <1>1, <1>8, <2>1, IdleStep DEF VideoFlushed, FlushInv, videoInput
<1>9. QED
  BY <1>3, <1>4, <1>5, <1>6, <1>7, <1>8

(* After the flush the audio stream is as long as the recording: what is   *)
(* dropped was sent before, and what is sent reaches the end of the segment *)
(* or the end of the buffer, which is not before it.                        *)
LEMMA FlushAudioStep ==
  ASSUME IInv, FlushAudio
  PROVE  /\ IInv' /\ TotalTime' = TotalTime
         /\ audioSamples' >= TotalTime
<1> DEFINE room == SegmentStop - start["audio"] - samplesRead
           pos == timeOffset + (start["audio"] - SegmentStart) + samplesRead
           early == IF canDrop THEN Larger(0, audioSamples - pos) ELSE 0
           dropped == Smaller(early, audioBuffer)
           sent == Larger(0, Smaller(room, audioBuffer - dropped))
<1>1. TypeOK /\ FlushInv /\ SegmentInv /\ AudioInv /\ VideoInv
  BY DEF IInv
<1>2. BothStarted /\ HasAudio /\ started["audio"]
  BY <1>1 DEF FlushAudio, FlushInv, BothStarted, Media
<1>3. /\ audioBuffer' = audioBuffer - dropped - sent
      /\ samplesRead' = samplesRead + dropped + sent
      /\ audioSamples' = audioSamples + sent
      /\ canDrop' = (canDrop /\ sent = 0)
      /\ pc' = after
      /\ UNCHANGED <<videoInput, videoBuffer, videoPts, lastPts, started, start,
                     stop, timeOffset, delay, haveLast, after, block, nextPts>>
  BY DEF FlushAudio
<1>4. /\ audioBuffer \in Nat /\ samplesRead \in Nat /\ audioSamples \in Nat
      /\ timeOffset \in Nat /\ start["audio"] \in Nat /\ stop["audio"] \in Nat
      /\ SegmentStart \in Nat /\ SegmentStop \in Nat /\ TotalTime \in Nat
  BY <1>1, Times DEF TypeOK, Media
<1>5. pos \in Int /\ room \in Int /\ pos <= audioSamples
  BY <1>1, <1>2, <1>4 DEF AudioInv
<1>6. /\ dropped \in 0..audioBuffer
      /\ dropped = audioBuffer \/ dropped = early
      /\ dropped > 0 => pos + dropped <= audioSamples
      /\ pos + dropped <= audioSamples
      /\ early \in Nat
  BY <1>4, <1>5 DEF Larger, Smaller
<1>7. sent \in 0..(audioBuffer - dropped)
      /\ (sent = audioBuffer - dropped \/ sent = Larger(0, room))
  <2> HIDE DEF dropped, room
  <2>1. QED
    BY <1>4, <1>5, <1>6 DEF Larger, Smaller
<1>8. /\ audioSamples >= timeOffset
      /\ SegmentStop <= stop["audio"]
      /\ stop["audio"] = start["audio"] + samplesRead + audioBuffer
  <2>1. SegmentStop <= stop["audio"]
    BY <1>1, <1>2 DEF SegmentStop, Smaller, TypeOK, Media
  <2>2. QED
    BY <1>1, <1>2, <2>1 DEF AudioInv, SegmentInv
<1>9. audioSamples + sent >= timeOffset + (SegmentStop - SegmentStart)
  <2>1. CASE sent = audioBuffer - dropped
    <3>1. pos + dropped + sent = timeOffset + (stop["audio"] - SegmentStart)
      <4> HIDE DEF dropped, sent
      <4>1. QED
        BY <1>4, <1>6, <1>8, <2>1
    <3> HIDE DEF dropped, sent, pos
    <3>2. QED
      BY <1>4, <1>5, <1>6, <1>7, <1>8, <3>1
  <2>2. CASE sent = Larger(0, room)
    <3>1. pos + room = timeOffset + (SegmentStop - SegmentStart)
      BY <1>4
    <3>2. sent >= room /\ sent \in Nat
      <4> HIDE DEF room, sent
      <4>1. QED
        BY <1>5, <2>2 DEF Larger
    <3> HIDE DEF room, sent, pos
    <3>3. QED
      BY <1>4, <1>5, <3>1, <3>2
  <2>3. QED
    BY <1>7, <2>1, <2>2
<1>10. pos + dropped + sent <= audioSamples + sent
  <2> HIDE DEF pos, dropped, sent
  <2>1. QED
    BY <1>4, <1>5, <1>6, <1>7
<1>11. timeOffset + (start["audio"] - SegmentStart) + (samplesRead + dropped + sent)
         <= audioSamples + sent
  <2> HIDE DEF dropped, sent
  <2>1. QED
    BY <1>4, <1>6, <1>7, <1>10
<1>12. start["audio"] + (samplesRead + dropped + sent)
         + (audioBuffer - dropped - sent) = stop["audio"]
  <2> HIDE DEF dropped, sent
  <2>1. QED
    BY <1>4, <1>6, <1>7, <1>8
<1> HIDE DEF room, pos, early, dropped, sent
<1>13. /\ audioBuffer' \in Nat /\ samplesRead' \in Nat /\ audioSamples' \in Nat
       /\ audioSamples' >= timeOffset /\ audioBuffer' <= audioBuffer
  BY <1>3, <1>4, <1>6, <1>7, <1>8
<1>14. TypeOK'
  <2>1. canDrop' \in BOOLEAN
    BY <1>3
  <2>2. pc' \in {"free", "reset"}
    BY <1>1, <1>3 DEF TypeOK
  <2>3. QED
    BY <1>1, <1>3, <1>13, <2>1, <2>2 DEF TypeOK, videoInput
<1>15. /\ TotalTime' = TotalTime /\ BothStarted' = BothStarted
       /\ SegmentStart' = SegmentStart
  BY <1>3 DEF TotalTime, BothStarted, SegmentStart, SegmentStop
<1>16. audioSamples' >= TotalTime
  <2>1. TotalTime = timeOffset + Larger(0, SegmentStop - SegmentStart)
    BY <1>2 DEF TotalTime
  <2>2. QED
    BY <1>3, <1>4, <1>7, <1>9, <1>13, <2>1 DEF Larger
<1>17. FlushInv'
  BY <1>1, <1>2, <1>3, <1>15 DEF FlushInv, TypeOK
<1>18. SegmentInv'
  BY <1>1, <1>3, <1>12 DEF SegmentInv, videoInput
<1>19. AudioInv'
  BY <1>1, <1>3, <1>11, <1>13, <1>15, <1>16 DEF AudioInv
<1>20. VideoInv'
  BY <1>1, <1>3, <1>4, <1>14, <1>15, InputsGrow
<1>21. QED
  BY <1>14, <1>15, <1>16, <1>17, <1>18, <1>19, <1>20 DEF IInv

LEMMA ResetStep ==
  ASSUME IInv, ResetSegment
  PROVE  IInv' /\ TotalTime' = TotalTime
<1>1. TypeOK /\ FlushInv /\ SegmentInv /\ AudioInv /\ VideoInv
  BY DEF IInv
<1>2. TotalTime \in Nat
  BY <1>1, Times
<1>3. /\ pc = "reset" /\ timeOffset' = TotalTime
      /\ videoBuffer' = <<>> /\ audioBuffer' = 0 /\ samplesRead' = 0
      /\ canDrop' = TRUE /\ delay' = 0 /\ pc' \in {"free", "push"}
      /\ after' = "free"
      /\ started' = Unstarted /\ start' = NoTimes /\ stop' = NoTimes
      /\ UNCHANGED <<videoInput, streams, haveLast, block, nextPts>>
  BY DEF ResetSegment
<1>4. started' \in [Media -> BOOLEAN] /\ ~started'["video"]
      /\ (started'["audio"] <=> ~HasAudio)
  <2>1. Unstarted \in [Media -> BOOLEAN] /\ ~Unstarted["video"]
        /\ (Unstarted["audio"] <=> ~HasAudio)
    BY Zenon DEF Unstarted, Enabled, Media
  <2>2. QED
    BY <1>3, <2>1
<1>5. start' \in [Media -> Nat] /\ stop' \in [Media -> Nat]
  BY <1>3 DEF NoTimes
<1>6. TypeOK'
  <2>1. videoBuffer' \in Seq(0..MaxTime)
    BY <1>3
  <2>2. QED
    BY <1>1, <1>2, <1>3, <1>4, <1>5, <2>1 DEF TypeOK, videoInput, streams
<1>7. ~BothStarted'
  BY <1>4 DEF BothStarted, Media
<1>8. TotalTime' = TotalTime
  <2>1. TotalTime' = timeOffset' + 0
    BY <1>7 DEF TotalTime
  <2>2. QED
    BY <1>2, <1>3, <2>1
<1>9. FlushInv' /\ SegmentInv'
  BY <1>3, <1>4, <1>7 DEF FlushInv, SegmentInv
<1>10. AudioInv'
  BY <1>1, <1>3, <1>7 DEF AudioInv, streams
<1>11. VideoInv'
  BY <1>1, <1>2, <1>3, <1>6, <1>8, InputsGrow DEF streams
<1>12. QED
  BY <1>6, <1>8, <1>9, <1>10, <1>11 DEF IInv

(* The steps that only say where the holder of the lock goes next.          *)
LEMMA ControlStep ==
  ASSUME IInv, SynchronizerThread \/ NewSegment \/ VideoOnly
  PROVE  IInv' /\ TotalTime' = TotalTime
<1>1. TypeOK /\ AudioInv /\ TotalTime \in Nat
  BY Times DEF IInv
<1>2. /\ pc' \in {"free", "frame", "reset"} /\ after' \in {"free", "reset"}
      /\ pc' = "frame" => BothStarted
      /\ HasAudio /\ pc' = "reset" => ~BothStarted
      /\ UNCHANGED <<videoInput, videoBuffer, audioBuffer, streams, segment,
                     delay, haveLast, block, nextPts>>
  BY <1>1 DEF SynchronizerThread, NewSegment, VideoOnly, TypeOK
<1>3. TypeOK'
  BY <1>1, <1>2 DEF TypeOK, videoInput, streams, segment
<1>4. HasAudio /\ pc' = "reset" => audioSamples >= TotalTime
  <2>1. ~BothStarted => TotalTime = timeOffset + 0
    BY DEF TotalTime
  <2>2. QED
    BY <1>1, <1>2, <2>1 DEF AudioInv, TypeOK
<1>5. QED
  BY <1>2, <1>3, <1>4, IdleStep DEF videoInput

LEMMA StutterStep ==
  ASSUME IInv, UNCHANGED vars
  PROVE  IInv' /\ TotalTime' = TotalTime
<1> USE DEF vars, videoInput, streams, segment, control
<1>1. TotalTime' = TotalTime /\ BothStarted' = BothStarted
      /\ SegmentStart' = SegmentStart /\ Pts(TotalTime)' = Pts(TotalTime)
  BY DEF TotalTime, BothStarted, SegmentStart, SegmentStop, Pts
<1>2. QED
  BY <1>1 DEF IInv, TypeOK, FlushInv, SegmentInv, AudioInv, VideoInv,
              VideoNeverAhead

LEMMA NextInv ==
  ASSUME IInv, [Next]_vars
  PROVE  IInv' /\ TotalTime' >= TotalTime
<1>1. TotalTime \in Nat
  BY Times DEF IInv
<1>2. CASE \E t \in 0..MaxTime : ReadVideoFrame(t)
  BY <1>2, ReadVideoStep
<1>3. CASE \E n \in Blocks, t \in 0..MaxTime : ReadAudioSamples(n, t)
  BY <1>3, ReadAudioStep
<1>4. CASE PushSamples
  BY <1>4, PushStep
<1>5. CASE SynchronizerThread \/ NewSegment \/ VideoOnly
  BY <1>1, <1>5, ControlStep
<1>6. CASE PredictFrame \/ InsertDelay \/ EndDelays \/ InsertDuplicate
             \/ TakeFrame \/ VideoFlushed
  BY <1>1, <1>6, VideoStep
<1>7. CASE FlushAudio
  BY <1>1, <1>7, FlushAudioStep
<1>8. CASE ResetSegment
  BY <1>1, <1>8, ResetStep
<1>9. CASE UNCHANGED vars
  BY <1>1, <1>9, StutterStep
<1>10. QED
  BY <1>2, <1>3, <1>4, <1>5, <1>6, <1>7, <1>8, <1>9 DEF Next, Flush

LEMMA Invariance == Spec => []IInv
<1>1. IInv /\ [Next]_vars => IInv'
  BY NextInv
<1>2. QED
  BY <1>1, InitInv, PTL DEF Spec

-----------------------------------------------------------------------------
(* The state is well typed: no subtraction of the flush goes below zero.    *)
THEOREM TypeCorrect == Spec => []TypeOK
<1>1. IInv => TypeOK
  BY DEF IInv
<1>2. QED
  BY <1>1, Invariance, PTL

(* The video stream is never longer than the recording.                     *)
THEOREM VideoInBounds == Spec => []VideoNeverAhead
<1>1. IInv => VideoNeverAhead
  BY DEF IInv, VideoInv
<1>2. QED
  BY <1>1, Invariance, PTL

(* The recording never gets shorter.                                        *)
THEOREM RecordingGrows == Spec => TotalGrows
<1>1. IInv /\ [Next]_vars => [TotalTime' >= TotalTime]_vars
  BY NextInv
<1>2. QED
  BY <1>1, Invariance, PTL DEF Spec, TotalGrows

(* A frame never gets the number of an earlier one, or a smaller one.       *)
THEOREM FramesInOrder == Spec => PtsIncrease
<1>1. IInv /\ [Next]_vars => [lastPts' # lastPts => lastPts' > lastPts]_vars
  <2> SUFFICES ASSUME IInv, Next, lastPts' # lastPts
               PROVE  lastPts' > lastPts
    OBVIOUS
  <2>1. TypeOK /\ lastPts < videoPts
    BY DEF IInv, VideoInv
  <2>2. InsertDuplicate \/ TakeFrame
    BY DEF Next, Flush, ReadVideoFrame, ReadAudioSamples, PushSamples,
           SynchronizerThread, NewSegment, PredictFrame, InsertDelay,
           EndDelays, VideoFlushed, FlushAudio, VideoOnly, ResetSegment,
           streams
  <2>3. lastPts' >= videoPts /\ lastPts' \in Int
    <3>1. CASE InsertDuplicate
      BY <2>1, <3>1 DEF InsertDuplicate, EncodeVideo, TypeOK
    <3>2. CASE TakeFrame
      BY <2>1, <3>2 DEF TakeFrame, EncodeVideo, TypeOK
    <3>3. QED
      BY <2>2, <3>1, <3>2
  <2>4. lastPts \in Int /\ videoPts \in Int
    BY <2>1 DEF TypeOK, None
  <2>5. QED
    BY <2>1, <2>3, <2>4
<1>2. QED
  BY <1>1, Invariance, PTL DEF Spec, PtsIncrease

(* Only delays leave a gap: whatever the times of the frames and of the     *)
(* segment's end, duplicates bring the next frame within reach.             *)
THEOREM GapsFilled == Spec => NoLongGap
<1>1. IInv /\ [Next]_vars =>
        [haveLast /\ lastPts' # lastPts => lastPts' <= videoPts + Skip]_vars
  <2> SUFFICES ASSUME IInv, Next, haveLast, lastPts' # lastPts
               PROVE  lastPts' <= videoPts + Skip
    OBVIOUS
  <2>1. TypeOK /\ videoPts \in Nat /\ nextPts \in Int
    BY DEF IInv, TypeOK
  <2>2. InsertDuplicate \/ TakeFrame
    BY DEF Next, Flush, ReadVideoFrame, ReadAudioSamples, PushSamples,
           SynchronizerThread, NewSegment, PredictFrame, InsertDelay,
           EndDelays, VideoFlushed, FlushAudio, VideoOnly, ResetSegment,
           streams
  <2>3. StopPts \in Int
    BY <2>1, Times, PtsType DEF StopPts, TypeOK
  <2>4. CASE InsertDuplicate
    BY <2>1, <2>4 DEF InsertDuplicate, EncodeVideo
  <2>5. CASE TakeFrame
    BY <2>1, <2>5, <2>3 DEF TakeFrame, EncodeVideo, DuplicateDue, Smaller
  <2>6. QED
    BY <2>2, <2>4, <2>5
<1>2. QED
  BY <1>1, Invariance, PTL DEF Spec, NoLongGap

(* After each flush the audio stream is as long as the recording.           *)
THEOREM NoSoundMissing == Spec => AudioComplete
<1>1. IInv /\ [Next]_vars =>
        [pc = "audio" /\ HasAudio => audioSamples' >= TotalTime]_vars
  <2> SUFFICES ASSUME IInv, Next, pc = "audio", HasAudio
               PROVE  audioSamples' >= TotalTime
    OBVIOUS
  <2>1. FlushAudio
    BY DEF Next, Flush, ReadVideoFrame, ReadAudioSamples, PushSamples,
           SynchronizerThread, NewSegment, PredictFrame, InsertDelay,
           EndDelays, InsertDuplicate, TakeFrame, VideoFlushed, VideoOnly,
           ResetSegment
  <2>2. QED
    BY <2>1, FlushAudioStep
<1>2. QED
  BY <1>1, Invariance, PTL DEF Spec, AudioComplete

-----------------------------------------------------------------------------
(* The video keeps up.  What is needed is where the frame that is next, or  *)
(* would come next, belongs, and that no time passes before the first one.  *)

NextTime == IF videoBuffer = <<>> THEN stop["video"] - FrameTime
                                  ELSE Head(videoBuffer)

FramePts == Pts(timeOffset + (NextTime - SegmentStart))

(* The segment's video ends one frame time after the newest frame; frames   *)
(* only leave the buffer while the audio runs.                              *)
BufferInv ==
  /\ ~started["video"] => videoBuffer = <<>>
  /\ started["video"] /\ videoBuffer # <<>> =>
       stop["video"] = videoBuffer[Len(videoBuffer)] + FrameTime
  /\ started["video"] /\ ~started["audio"] => videoBuffer # <<>>

(* The number predicted for the next frame is at most one too small; when   *)
(* the last frame has left the buffer it was placed.                        *)
PlaceInv ==
  /\ pc \in {"delay", "dup"} => nextPts <= FramePts /\ FramePts <= nextPts + 1
  /\ haveLast /\ BothStarted /\ videoBuffer = <<>> =>
       FramePts <= videoPts + Skip

(* Before the first frame is taken nothing was encoded, and no flush has    *)
(* passed the first frame time.                                             *)
FirstInv ==
  ~haveLast =>
    /\ videoPts = 0 /\ delay = 0 /\ timeOffset < FrameTime
    /\ started["video"] =>
         videoBuffer # <<>> /\ Head(videoBuffer) = start["video"]
    /\ pc \in {"delay", "dup"} => nextPts <= 0
    /\ pc \in {"audio", "reset"} => TotalTime < FrameTime

KeepInv == BufferInv /\ PlaceInv /\ FirstInv /\ VideoKeepsUp

LEMMA PlaceType ==
  ASSUME TypeOK
  PROVE  /\ NextTime \in Int /\ timeOffset + (NextTime - SegmentStart) \in Int
         /\ FramePts \in Int /\ StopPts \in Int
<1>1. videoBuffer # <<>> => Head(videoBuffer) \in 0..MaxTime
  BY DEF TypeOK
<1>2. NextTime \in Int
  BY <1>1 DEF NextTime, TypeOK, Media
<1>3. timeOffset + (NextTime - SegmentStart) \in Int
  BY <1>2, Times DEF TypeOK
<1>4. QED
  BY <1>2, <1>3, Times, PtsType DEF FramePts

LEMMA KeepInit == Init => KeepInv
<1> SUFFICES ASSUME Init PROVE KeepInv
  OBVIOUS
<1>1. ~started["video"]
  BY Zenon DEF Init, Unstarted, Enabled, Media
<1>2. /\ videoBuffer = <<>> /\ pc = "free" /\ haveLast = FALSE
      /\ videoPts = 0 /\ delay = 0 /\ timeOffset = 0
  BY DEF Init
<1>3. BufferInv /\ PlaceInv /\ FirstInv /\ VideoKeepsUp
  BY <1>1, <1>2 DEF BufferInv, PlaceInv, FirstInv, VideoKeepsUp
<1>4. QED
  BY <1>3 DEF KeepInv

(* A step that moves neither the segment nor the streams: what matters is   *)
(* where the flush stands.                                                  *)
LEMMA KeepStill ==
  ASSUME KeepInv,
         UNCHANGED <<videoBuffer, started, start, stop, timeOffset, videoPts,
                     delay, haveLast>>,
         pc' \in {"delay", "dup"} =>
           /\ nextPts' <= FramePts /\ FramePts <= nextPts' + 1
           /\ ~haveLast => nextPts' <= 0,
         ~haveLast /\ pc' \in {"audio", "reset"} => TotalTime < FrameTime,
         pc' = "audio" /\ haveLast => StopPts - videoPts <= Skip + 1
  PROVE  KeepInv'
<1>1. /\ TotalTime' = TotalTime /\ BothStarted' = BothStarted
      /\ FramePts' = FramePts /\ StopPts' = StopPts
  BY DEF TotalTime, BothStarted, SegmentStart, SegmentStop, FramePts, NextTime,
         StopPts, Pts
<1>2. BufferInv'
  BY DEF KeepInv, BufferInv
<1>3. PlaceInv'
  BY <1>1 DEF KeepInv, PlaceInv
<1>4. FirstInv'
  BY <1>1 DEF KeepInv, FirstInv
<1>5. VideoKeepsUp'
  BY <1>1 DEF VideoKeepsUp
<1>6. QED
  BY <1>2, <1>3, <1>4, <1>5 DEF KeepInv

(* Before both inputs have started, the recording is as long as its earlier *)
(* segments, that is empty before the first frame.                          *)
LEMMA NoTimeYet ==
  ASSUME TypeOK, KeepInv, ~haveLast, ~BothStarted
  PROVE  TotalTime < FrameTime
<1>1. TotalTime = timeOffset + 0 /\ timeOffset \in Nat /\ timeOffset < FrameTime
  BY DEF TotalTime, TypeOK, KeepInv, FirstInv
<1>2. QED
  BY <1>1

LEMMA KeepReadVideo ==
  ASSUME IInv, KeepInv, NEW captured \in 0..MaxTime, ReadVideoFrame(captured)
  PROVE  KeepInv'
<1> DEFINE t == Larger(captured, lastTime)
           full == Len(videoBuffer) >= VideoMax
           kept == IF full THEN Tail(videoBuffer) ELSE videoBuffer
           first == IF full THEN Head(kept)
                    ELSE IF started["video"] THEN start["video"] ELSE t
           lost == full /\ started["audio"]
<1>1. TypeOK
  BY DEF IInv
<1>2. t \in 0..MaxTime
  BY <1>1 DEF TypeOK, Larger
<1>3. /\ pc = "free" /\ pc' = "free" /\ StoreFrame(t)
      /\ UNCHANGED <<streams, timeOffset, delay, haveLast>>
  BY DEF ReadVideoFrame, control
<1>4. CASE lost
  <2>1. UNCHANGED <<videoBuffer, started, start, stop>>
    BY <1>3, <1>4 DEF StoreFrame
  <2>2. QED
    BY <1>3, <2>1, KeepStill DEF streams
<1>5. CASE ~lost
  <2>1. /\ videoBuffer' = Append(kept, t)
        /\ started' = [started EXCEPT !["video"] = TRUE]
        /\ start' = [start EXCEPT !["video"] = first]
        /\ stop' = [stop EXCEPT !["video"] = t + FrameTime]
    BY <1>3, <1>5 DEF StoreFrame
  <2>2. kept \in Seq(0..MaxTime) /\ (full => kept # <<>>)
    <3>1. CASE full
      <4>1. videoBuffer \in Seq(0..MaxTime) /\ Len(videoBuffer) >= 2
        BY <1>1, <3>1 DEF TypeOK
      <4>2. Tail(videoBuffer) \in Seq(0..MaxTime)
            /\ Len(Tail(videoBuffer)) >= 1
        BY <4>1
      <4>3. Tail(videoBuffer) # <<>>
        <5>1. Len(<<>>) = 0
          OBVIOUS
        <5> DEFINE b == Tail(videoBuffer)
        <5>2. Len(b) >= 1
          BY <4>2
        <5> HIDE DEF b
        <5>3. b # <<>>
          BY <5>1, <5>2
        <5>4. QED
          BY <5>3 DEF b
      <4>4. QED
        BY <3>1, <4>2, <4>3
    <3>2. CASE ~full
      BY <1>1, <3>2 DEF TypeOK
    <3>3. QED
      BY <3>1, <3>2
  <2>3. ~haveLast => first = IF kept = <<>> THEN t ELSE Head(kept)
    <3>1. CASE full
      BY <2>2, <3>1
    <3>2. CASE ~full
      BY <3>2 DEF KeepInv, BufferInv, FirstInv
    <3>3. QED
      BY <3>1, <3>2
  <2> HIDE DEF t, kept, first
  <2>4. /\ videoBuffer' # <<>>
        /\ videoBuffer'[Len(videoBuffer')] = t
        /\ Head(videoBuffer') = IF kept = <<>> THEN t ELSE Head(kept)
    BY <1>2, <2>1, <2>2
  <2>5. /\ started'["video"] /\ start'["video"] = first
        /\ stop'["video"] = t + FrameTime
    BY <1>1, <2>1 DEF TypeOK, Media
  <2>6. BufferInv'
    BY <2>4, <2>5 DEF BufferInv
  <2>7. PlaceInv'
    BY <1>3, <2>4 DEF PlaceInv
  <2>8. FirstInv'
    BY <1>3, <2>3, <2>4, <2>5 DEF KeepInv, FirstInv, streams
  <2>9. VideoKeepsUp'
    BY <1>3 DEF VideoKeepsUp
  <2>10. QED
    BY <2>6, <2>7, <2>8, <2>9 DEF KeepInv
<1>6. QED
  BY <1>4, <1>5

LEMMA KeepReadAudio ==
  ASSUME IInv, KeepInv, NEW n \in Blocks, NEW t \in 0..MaxTime,
         ReadAudioSamples(n, t)
  PROVE  KeepInv'
<1>1. TypeOK
  BY DEF IInv
<1>2. /\ pc' \in {"frame", "push"}
      /\ UNCHANGED <<videoBuffer, started, stop, timeOffset, streams, delay,
                     haveLast>>
  BY DEF ReadAudioSamples
<1>3. CASE start' = start
  BY <1>2, <1>3, KeepStill DEF streams
<1>4. CASE ~started["video"] /\ MakeRoom
  <2>1. /\ start'["video"] = start["video"] /\ ~started'["video"]
        /\ ~BothStarted'
    BY <1>1, <1>2, <1>4 DEF MakeRoom, TypeOK, Media, BothStarted
  <2>2. BufferInv'
    BY <1>2, <1>4, <2>1 DEF KeepInv, BufferInv
  <2>3. PlaceInv' /\ VideoKeepsUp'
    BY <1>2, <2>1 DEF PlaceInv, VideoKeepsUp
  <2>4. FirstInv'
    BY <1>2, <2>1 DEF KeepInv, FirstInv, streams
  <2>5. QED
    BY <2>2, <2>3, <2>4 DEF KeepInv
<1>5. QED
  BY <1>3, <1>4 DEF ReadAudioSamples

LEMMA KeepPush ==
  ASSUME IInv, KeepInv, PushSamples
  PROVE  KeepInv'
<1>1. TypeOK
  BY DEF IInv
<1>2. /\ pc' = "free"
      /\ UNCHANGED <<videoBuffer, timeOffset, streams, delay, haveLast>>
      /\ started' = [started EXCEPT !["audio"] = TRUE]
      /\ start' = [start EXCEPT !["audio"] =
                     IF started["audio"] THEN @ ELSE block.time]
  BY DEF PushSamples
<1>3. /\ started'["audio"] /\ started'["video"] = started["video"]
      /\ start'["video"] = start["video"]
      /\ stop'["video"] = stop["video"]
  BY <1>1, <1>2 DEF PushSamples, TypeOK, Media
<1>4. BufferInv'
  BY <1>2, <1>3 DEF KeepInv, BufferInv
<1>5. FirstInv'
  BY <1>2, <1>3 DEF KeepInv, FirstInv, streams
<1>6. PlaceInv'
  <2>1. CASE started["audio"]
    <3>1. start' = start /\ BothStarted' = BothStarted
      BY <1>1, <1>2, <1>3, <2>1 DEF TypeOK, Media, BothStarted
    <3>2. FramePts' = FramePts
      BY <1>2, <1>3, <3>1 DEF FramePts, NextTime, SegmentStart, Pts
    <3>3. QED
      BY <1>2, <3>1, <3>2 DEF KeepInv, PlaceInv, streams
  <2>2. CASE ~started["audio"]
    <3>1. BothStarted' => videoBuffer' # <<>>
      BY <1>2, <1>3, <2>2 DEF BothStarted, Media, KeepInv, BufferInv
    <3>2. QED
      BY <1>2, <3>1 DEF PlaceInv
  <2>3. QED
    BY <2>1, <2>2
<1>7. VideoKeepsUp'
  BY <1>2 DEF VideoKeepsUp
<1>8. QED
  BY <1>4, <1>5, <1>6, <1>7 DEF KeepInv

(* The prediction is at most one frame short, and zero or less for the      *)
(* first frame: the segment does not start before it.                       *)
LEMMA KeepPredict ==
  ASSUME IInv, KeepInv, PredictFrame
  PROVE  KeepInv'
<1>1. TypeOK /\ FramePts \in Int /\ videoPts \in Nat
  BY PlaceType DEF IInv, TypeOK
<1>2. /\ pc = "frame" /\ pc' = "delay"
      /\ nextPts' = IF FramePts > videoPts THEN FramePts - 1 ELSE FramePts
      /\ UNCHANGED <<videoBuffer, streams, segment, delay, haveLast>>
  BY DEF PredictFrame, FramePts, NextTime
<1>3. nextPts' <= FramePts /\ FramePts <= nextPts' + 1
  BY <1>1, <1>2
<1>4. ~haveLast => nextPts' <= 0
  <2> SUFFICES ASSUME ~haveLast PROVE nextPts' <= 0
    OBVIOUS
  <2>1. started["video"]
    BY <1>2 DEF IInv, FlushInv, BothStarted, Media
  <2>2. /\ NextTime = start["video"] /\ videoPts = 0 /\ timeOffset < FrameTime
    BY <2>1 DEF NextTime, KeepInv, FirstInv
  <2>3. start["video"] <= SegmentStart
    BY <1>1 DEF SegmentStart, Larger, TypeOK, Media
  <2>4. timeOffset + (NextTime - SegmentStart) < FrameTime
    BY <1>1, <2>2, <2>3, Times DEF TypeOK, Media
  <2>5. FramePts <= 0
    BY <1>1, <2>4, PlaceType, PtsFirst DEF FramePts
  <2>6. QED
    BY <1>1, <1>2, <2>2, <2>5
<1>5. QED
  BY <1>2, <1>3, <1>4, KeepStill DEF streams, segment

(* Delays and duplicates only move the video forward.                       *)
LEMMA KeepForward ==
  ASSUME TypeOK, TypeOK', KeepInv, haveLast, pc \in {"delay", "dup"},
         pc' = pc, videoPts <= videoPts',
         UNCHANGED <<videoBuffer, segment, haveLast, nextPts>>
  PROVE  KeepInv'
<1>1. BothStarted' = BothStarted /\ FramePts' = FramePts
  BY DEF BothStarted, SegmentStart, FramePts, NextTime, Pts, segment
<1>2. BufferInv'
  BY DEF KeepInv, BufferInv, segment
<1>3. PlaceInv'
  <2>1. /\ FramePts \in Int /\ videoPts \in Nat /\ videoPts' \in Nat
    BY PlaceType DEF TypeOK
  <2>2. nextPts' <= FramePts' /\ FramePts' <= nextPts' + 1
    BY <1>1 DEF KeepInv, PlaceInv
  <2>3. BothStarted /\ videoBuffer = <<>> => FramePts <= videoPts + Skip
    BY DEF KeepInv, PlaceInv
  <2>4. ASSUME NEW a \in Int, NEW b \in Nat, NEW c \in Nat,
               a <= b + Skip, b <= c
        PROVE  a <= c + Skip
    BY <2>4
  <2>5. FramePts <= videoPts + Skip => FramePts <= videoPts' + Skip
    BY <2>1, <2>4
  <2>6. QED
    BY <1>1, <2>2, <2>3, <2>5 DEF PlaceInv
<1>4. FirstInv' /\ VideoKeepsUp'
  BY DEF FirstInv, VideoKeepsUp
<1>5. QED
  BY <1>2, <1>3, <1>4 DEF KeepInv

LEMMA KeepDelay ==
  ASSUME IInv, IInv', KeepInv, InsertDelay
  PROVE  KeepInv'
<1>1. TypeOK /\ TypeOK'
  BY DEF IInv
<1>2. haveLast
  BY <1>1 DEF InsertDelay, DelayDue, KeepInv, FirstInv, TypeOK
<1>3. videoPts <= videoPts'
  BY <1>1 DEF InsertDelay, TypeOK
<1>4. QED
  BY <1>1, <1>2, <1>3, KeepForward DEF InsertDelay, control

LEMMA KeepDuplicate ==
  ASSUME IInv, IInv', KeepInv, InsertDuplicate
  PROVE  KeepInv'
<1>1. TypeOK /\ TypeOK'
  BY DEF IInv
<1>2. videoPts <= videoPts'
  BY <1>1 DEF InsertDuplicate, EncodeVideo, TypeOK
<1>3. QED
  BY <1>1, <1>2, KeepForward DEF InsertDuplicate, DuplicateDue, control

(* The frame that is taken, or dropped for being late, leaves the video at  *)
(* its place at least, but for a first frame, whose number is forced to 0.  *)
LEMMA KeepTake ==
  ASSUME IInv, IInv', KeepInv, TakeFrame
  PROVE  KeepInv'
<1>1. TypeOK /\ videoPts \in Nat /\ nextPts \in Int /\ FramePts \in Int
      /\ videoPts' \in Nat
  BY PlaceType DEF IInv, TypeOK
<1>2. /\ pc = "dup" /\ pc' = "frame" /\ ~DuplicateDue
      /\ videoBuffer # <<>> /\ nextPts < StopPts
      /\ videoBuffer' = Tail(videoBuffer) /\ haveLast' = TRUE
      /\ UNCHANGED segment
  BY DEF TakeFrame
<1>3. started["video"] /\ started["audio"]
  BY <1>2 DEF IInv, FlushInv, BothStarted, Media
<1>4. videoBuffer \in Seq(0..MaxTime)
  BY <1>1 DEF TypeOK
<1>5. videoBuffer' # <<>> =>
        videoBuffer'[Len(videoBuffer')] = videoBuffer[Len(videoBuffer)]
  BY <1>2, <1>4
<1>6. videoBuffer' = <<>> =>
        Head(videoBuffer) = videoBuffer[Len(videoBuffer)]
  <2>1. Len(videoBuffer') = Len(videoBuffer) - 1
        /\ Len(videoBuffer) \in Nat
    BY <1>2, <1>4
  <2>2. videoBuffer' = <<>> => Len(videoBuffer') = 0
    OBVIOUS
  <2>3. videoBuffer' = <<>> => Len(videoBuffer) = 1
    BY <2>1, <2>2
  <2>4. Head(videoBuffer) = videoBuffer[1]
    BY <1>2, <1>4
  <2>5. QED
    BY <2>3, <2>4
<1>7. stop["video"] = videoBuffer[Len(videoBuffer)] + FrameTime
  BY <1>2, <1>3 DEF KeepInv, BufferInv
<1>8. BufferInv'
  BY <1>2, <1>3, <1>5, <1>7 DEF BufferInv, segment
<1>9. videoBuffer' = <<>> => FramePts' = FramePts
  <2> SUFFICES ASSUME videoBuffer' = <<>> PROVE FramePts' = FramePts
    OBVIOUS
  <2>1. Head(videoBuffer) \in 0..MaxTime
    BY <1>2, <1>4
  <2>2. stop["video"] - FrameTime = Head(videoBuffer)
    BY <1>6, <1>7, <2>1
  <2>3. NextTime' = NextTime
    BY <1>2, <2>2 DEF NextTime, segment
  <2>4. SegmentStart' = SegmentStart /\ timeOffset' = timeOffset
    BY <1>2 DEF SegmentStart, segment
  <2>5. QED
    BY <2>3, <2>4 DEF FramePts, Pts
<1>10. FramePts <= nextPts + 1
  BY <1>2 DEF KeepInv, PlaceInv
<1>11. FramePts <= videoPts' + Skip
  <2>1. CASE nextPts < videoPts /\ UNCHANGED <<videoPts, lastPts, delay>>
    BY <1>1, <1>10, <2>1
  <2>2. CASE nextPts >= videoPts /\ videoPts # 0 /\ EncodeVideo(nextPts)
    BY <1>1, <1>10, <2>2 DEF EncodeVideo
  <2>3. CASE videoPts = 0 /\ EncodeVideo(0)
    <3>1. nextPts <= Skip
      <4>1. CASE haveLast
        BY <1>1, <1>2, <2>3, <4>1, Times DEF DuplicateDue, Smaller
      <4>2. CASE ~haveLast
        BY <1>1, <1>2, <4>2 DEF KeepInv, FirstInv
      <4>3. QED
        BY <4>1, <4>2
    <3>2. videoPts' = 1
      BY <2>3 DEF EncodeVideo
    <3>3. QED
      BY <1>1, <1>10, <3>1, <3>2
  <2>4. QED
    BY <1>1, <2>1, <2>2, <2>3 DEF TakeFrame
<1>12. PlaceInv'
  BY <1>2, <1>9, <1>11 DEF PlaceInv
<1>13. FirstInv' /\ VideoKeepsUp'
  BY <1>2 DEF FirstInv, VideoKeepsUp
<1>14. QED
  BY <1>8, <1>12, <1>13 DEF KeepInv

(* When nothing is left to do, no duplicate is due up to the end of the     *)
(* segment, which is one frame after the newest frame's place.              *)
LEMMA KeepFlushed ==
  ASSUME IInv, KeepInv, VideoFlushed
  PROVE  KeepInv'
<1>1. /\ TypeOK /\ videoPts \in Nat /\ nextPts \in Int
      /\ FramePts \in Int /\ StopPts \in Int
  BY PlaceType DEF IInv, TypeOK
<1>2. /\ pc = "dup" /\ pc' = "audio" /\ ~DuplicateDue
      /\ videoBuffer = <<>> \/ nextPts >= StopPts
      /\ UNCHANGED <<videoBuffer, streams, segment, delay, haveLast>>
  BY DEF VideoFlushed
<1>3. BothStarted /\ started["video"]
  BY <1>2 DEF IInv, FlushInv, BothStarted, Media
<1>4. haveLast => StopPts - videoPts <= Skip + 1
  <2> SUFFICES ASSUME haveLast PROVE StopPts - videoPts <= Skip + 1
    OBVIOUS
  <2>1. ~(videoPts + Skip < Smaller(nextPts, StopPts))
    BY <1>2 DEF DuplicateDue
  <2>2. CASE nextPts >= StopPts
    BY <1>1, <2>1, <2>2 DEF Smaller
  <2>3. CASE videoBuffer = <<>>
    <3>1. FramePts <= videoPts + Skip
      BY <1>3, <2>3 DEF KeepInv, PlaceInv
    <3>2. StopPts <= FramePts + 1
      <4> DEFINE x == timeOffset + (NextTime - SegmentStart)
      <4>1. x \in Int /\ SegmentStart \in Nat /\ SegmentStop \in Nat
            /\ timeOffset \in Nat /\ stop["video"] \in Nat
        BY <1>1, PlaceType, Times DEF TypeOK, Media
      <4>2. SegmentStop <= stop["video"]
        BY <1>1 DEF SegmentStop, Smaller, TypeOK, Media
      <4>3. x + FrameTime = timeOffset + (stop["video"] - SegmentStart)
        BY <2>3, <4>1 DEF NextTime
      <4>4. timeOffset + (SegmentStop - SegmentStart) <= x + FrameTime
        BY <4>1, <4>2, <4>3
      <4>5. Pts(x) = FramePts
        BY DEF FramePts
      <4> HIDE DEF x
      <4>6. StopPts <= Pts(x + FrameTime)
        BY <4>1, <4>4, PtsMonotone DEF StopPts
      <4>7. Pts(x + FrameTime) <= FramePts + 1 /\ Pts(x + FrameTime) \in Int
        BY <4>1, <4>5, PtsNext, PtsType
      <4>8. QED
        BY <1>1, <4>6, <4>7
    <3>3. QED
      BY <1>1, <3>1, <3>2
  <2>4. QED
    BY <1>2, <2>2, <2>3
<1>5. ~haveLast => TotalTime < FrameTime
  <2> SUFFICES ASSUME ~haveLast PROVE TotalTime < FrameTime
    OBVIOUS
  <2>1. /\ nextPts >= StopPts /\ nextPts <= 0 /\ timeOffset < FrameTime
    BY <1>2, <1>3 DEF KeepInv, FirstInv
  <2>2. timeOffset + (SegmentStop - SegmentStart) \in Int
        /\ timeOffset \in Nat /\ SegmentStop - SegmentStart \in Int
    BY <1>1, Times DEF TypeOK
  <2>3. StopPts <= 0
    BY <1>1, <2>1
  <2>4. timeOffset + (SegmentStop - SegmentStart) < FrameTime
    BY <2>2, <2>3, PtsFirst DEF StopPts
  <2>5. TotalTime = timeOffset + Larger(0, SegmentStop - SegmentStart)
    BY <1>3 DEF TotalTime
  <2>6. QED
    BY <2>1, <2>2, <2>4, <2>5 DEF Larger
<1>6. QED
  BY <1>2, <1>4, <1>5, KeepStill DEF streams, segment

LEMMA KeepReset ==
  ASSUME IInv, KeepInv, ResetSegment
  PROVE  KeepInv'
<1>1. /\ pc = "reset" /\ timeOffset' = TotalTime
      /\ videoBuffer' = <<>> /\ delay' = 0 /\ pc' \in {"free", "push"}
      /\ started' = Unstarted /\ UNCHANGED <<streams, haveLast>>
  BY DEF ResetSegment
<1>2. ~started'["video"]
  <2>1. ~Unstarted["video"]
    BY Zenon DEF Unstarted, Enabled, Media
  <2>2. QED
    BY <1>1, <2>1
<1>3. ~BothStarted'
  BY <1>2 DEF BothStarted, Media
<1>4. BufferInv' /\ PlaceInv' /\ VideoKeepsUp'
  BY <1>1, <1>2, <1>3 DEF BufferInv, PlaceInv, VideoKeepsUp
<1>5. FirstInv'
  BY <1>1, <1>2 DEF KeepInv, FirstInv, streams
<1>6. QED
  BY <1>4, <1>5 DEF KeepInv

(* The steps that only say where the holder of the lock goes next, and the  *)
(* flush of the audio.                                                      *)
LEMMA KeepControl ==
  ASSUME IInv, KeepInv,
         \/ SynchronizerThread \/ NewSegment \/ EndDelays
         \/ VideoOnly \/ FlushAudio
  PROVE  KeepInv'
<1>1. TypeOK
  BY DEF IInv
<1>2. UNCHANGED <<videoBuffer, started, start, stop, timeOffset, videoPts,
                  delay, haveLast>>
  BY DEF SynchronizerThread, NewSegment, EndDelays, VideoOnly, FlushAudio,
         streams, segment
<1>3. CASE SynchronizerThread
  BY <1>2, <1>3, KeepStill DEF SynchronizerThread
<1>4. CASE NewSegment
  BY <1>1, <1>2, <1>4, NoTimeYet, KeepStill DEF NewSegment
<1>5. CASE EndDelays
  BY <1>2, <1>5, KeepStill DEF EndDelays, KeepInv, PlaceInv, FirstInv
<1>6. CASE VideoOnly \/ FlushAudio
  <2>1. pc = "audio" /\ pc' \in {"free", "reset"}
    BY <1>1, <1>6 DEF VideoOnly, FlushAudio, TypeOK
  <2>2. ~haveLast => TotalTime < FrameTime
    BY <2>1 DEF KeepInv, FirstInv
  <2>3. QED
    BY <1>2, <2>1, <2>2, KeepStill
<1>7. QED
  BY <1>3, <1>4, <1>5, <1>6

LEMMA KeepNext ==
  ASSUME IInv, IInv', KeepInv, [Next]_vars
  PROVE  KeepInv'
<1>1. CASE \E t \in 0..MaxTime : ReadVideoFrame(t)
  BY <1>1, KeepReadVideo
<1>2. CASE \E n \in Blocks, t \in 0..MaxTime : ReadAudioSamples(n, t)
  BY <1>2, KeepReadAudio
<1>3. CASE PushSamples
  BY <1>3, KeepPush
<1>4. CASE SynchronizerThread \/ NewSegment \/ EndDelays \/ VideoOnly
             \/ FlushAudio
  BY <1>4, KeepControl
<1>5. CASE PredictFrame
  BY <1>5, KeepPredict
<1>6. CASE InsertDelay
  BY <1>6, KeepDelay
<1>7. CASE InsertDuplicate
  BY <1>7, KeepDuplicate
<1>8. CASE TakeFrame
  BY <1>8, KeepTake
<1>9. CASE VideoFlushed
  BY <1>9, KeepFlushed
<1>10. CASE ResetSegment
  BY <1>10, KeepReset
<1>11. CASE UNCHANGED vars
  <2>1. UNCHANGED <<videoBuffer, started, start, stop, timeOffset, videoPts,
                    delay, haveLast, pc, nextPts>>
    BY <1>11 DEF vars, streams, segment, control
  <2>2. QED
    BY <2>1, KeepStill DEF KeepInv, PlaceInv, FirstInv, VideoKeepsUp
<1>12. QED
  BY <1>1, <1>2, <1>3, <1>4, <1>5, <1>6, <1>7, <1>8, <1>9, <1>10, <1>11
     DEF Next, Flush

LEMMA KeepInvariance == Spec => [](IInv /\ KeepInv)
<1>1. IInv /\ KeepInv /\ [Next]_vars => IInv' /\ KeepInv'
  BY NextInv, KeepNext
<1>2. QED
  BY <1>1, InitInv, KeepInit, PTL DEF Spec

(* When the buffer of frames is flushed, the video is at most the frames    *)
(* that may be skipped and the one being captured short of the segment's    *)
(* end, however late, early or many the frames and delays were.             *)
THEOREM VideoStaysClose == Spec => []VideoKeepsUp
<1>1. KeepInv => VideoKeepsUp
  BY DEF KeepInv
<1>2. QED
  BY <1>1, KeepInvariance, PTL

(* A recording without a frame is shorter than one: segments that end       *)
(* before a frame was taken put nothing in front of the first one.          *)
THEOREM NoTimeBeforeFirst == Spec => [](~haveLast => timeOffset < FrameTime)
<1>1. KeepInv => (~haveLast => timeOffset < FrameTime)
  BY DEF KeepInv, FirstInv
<1>2. QED
  BY <1>1, KeepInvariance, PTL
=============================================================================
