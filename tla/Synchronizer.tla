----------------------------- MODULE Synchronizer -----------------------------
(***************************************************************************)
(* src/window/record/AV/Output/Synchronizer: it collects the frames of the *)
(* screen and the samples of the sound card, and gives the encoders a      *)
(* video and an audio stream with a common clock, filling long gaps with   *)
(* duplicates of the last frame.                                           *)
(*                                                                         *)
(* Time is counted in ticks of one audio sample; a video frame lasts       *)
(* FrameTime ticks (1000000 / m_video_frame_rate microseconds), so the     *)
(* rounding between the two rates is left out, the truncation of the       *)
(* integer divisions is not. The drift correction, which decides how many  *)
(* samples a block of sound becomes, is the choice of that number.         *)
(* FlushBuffers runs under the lock of the shared data: its iterations are *)
(* steps here, and no other thread enters while pc is not "free".          *)
(***************************************************************************)
EXTENDS Integers, Sequences

CONSTANTS
  HasAudio,    \* whether the recording has an audio stream
  FrameTime,   \* ticks of one video frame
  Skip,        \* m_max_frames_skipped
  VideoMax,    \* MAX_VIDEO_FRAMES_BUFFERED
  AudioMax,    \* MAX_AUDIO_SAMPLES_BUFFERED
  AudioKeep,   \* 90% of it, what an overflow leaves
  Blocks,      \* how many samples a block of sound can become
  Delays,      \* what GetVideoFrameDelay can answer
  MaxTime,     \* bound: last timestamp of the inputs
  MaxTotal     \* bound: a recording this long gets no more frames

ASSUME AudioAssumption == HasAudio \in BOOLEAN
ASSUME SizeAssumption ==
  /\ FrameTime \in Nat \ {0} /\ Skip \in Nat /\ MaxTime \in Nat
  /\ VideoMax \in Nat \ {0, 1} /\ AudioMax \in Nat \ {0}
  /\ AudioKeep \in 0..AudioMax /\ MaxTotal \in Nat
ASSUME InputAssumption == Blocks \subseteq Nat \ {0} /\ Delays \subseteq Nat

ASAP == -1     \* SINK_TIMESTAMP_ASAP, before any timestamp
None == -1     \* no frame was encoded yet

VARIABLES
  lastTime, nextTime,       \* VideoData: m_last_timestamp, m_next_timestamp
  videoBuffer,              \* the timestamps of the frames it holds
  audioBuffer,              \* the number of samples it holds
  videoPts, audioSamples,   \* positions in the final streams
  timeOffset,               \* length of the previous segments
  started, start, stop,     \* m_segment_{video,audio}_{started,start_time,...}
  canDrop, samplesRead,     \* m_segment_audio_can_drop, ..._samples_read
  delay,                    \* m_segment_video_accumulated_delay
  haveLast,                 \* m_last_video_frame_data # NULL
  pc,                       \* where the holder of the shared lock stands
  after,                    \* what it does after the flush
  block,                    \* the block of sound it brings: samples and time
  nextPts,                  \* next_pts of FlushVideoBuffer
  lastPts                   \* history: pts of the last frame encoded

videoInput == <<lastTime, nextTime>>
streams == <<videoPts, audioSamples, lastPts>>
segment == <<started, start, stop, canDrop, samplesRead, timeOffset>>
control == <<pc, after, block, nextPts>>
vars == <<videoInput, videoBuffer, audioBuffer, streams, segment, delay,
          haveLast, control>>

Media == {"video", "audio"}
Enabled(m) == m = "video" \/ HasAudio

Larger(a, b) == IF a < b THEN b ELSE a
Smaller(a, b) == IF a < b THEN a ELSE b

BothStarted == \A m \in Media : started[m]

(* GetSegmentStartStop.                                                     *)
SegmentStart == IF HasAudio THEN Larger(start["video"], start["audio"])
                            ELSE start["video"]
SegmentStop == IF HasAudio THEN Smaller(stop["video"], stop["audio"])
                           ELSE stop["video"]

(* GetTotalTime.                                                            *)
TotalTime ==
  timeOffset + IF BothStarted THEN Larger(0, SegmentStop - SegmentStart) ELSE 0

(* A position in time as a frame number; C++ division truncates to zero.    *)
Pts(t) == IF t >= 0 THEN t \div FrameTime ELSE -((-t) \div FrameTime)

StopPts == Pts(timeOffset + (SegmentStop - SegmentStart))

TypeOK ==
  /\ lastTime \in -1..MaxTime /\ nextTime \in Nat \cup {ASAP}
  /\ videoBuffer \in Seq(0..MaxTime) /\ audioBuffer \in Nat
  /\ videoPts \in Nat /\ audioSamples \in Nat
  /\ timeOffset \in Nat
  /\ started \in [Media -> BOOLEAN]
  /\ start \in [Media -> Nat] /\ stop \in [Media -> Nat]
  /\ canDrop \in BOOLEAN /\ samplesRead \in Nat
  /\ delay \in Nat /\ haveLast \in BOOLEAN
  /\ pc \in {"free", "frame", "delay", "dup", "audio", "reset", "push"}
  /\ after \in {"free", "reset"}
  /\ block \in [samples : Nat, time : Nat]
  /\ nextPts \in Int
  /\ lastPts \in Nat \cup {None}

NoBlock == [samples |-> 0, time |-> 0]
Unstarted == [m \in Media |-> ~Enabled(m)]
NoTimes == [m \in Media |-> 0]

Init ==
  /\ lastTime = -1 /\ nextTime = ASAP
  /\ videoBuffer = <<>> /\ audioBuffer = 0
  /\ videoPts = 0 /\ audioSamples = 0 /\ timeOffset = 0
  /\ started = Unstarted /\ start = NoTimes /\ stop = NoTimes
  /\ canDrop = TRUE /\ samplesRead = 0
  /\ delay = 0 /\ haveLast = FALSE
  /\ pc = "free" /\ after = "free" /\ block = NoBlock /\ nextPts = 0
  /\ lastPts = None

-----------------------------------------------------------------------------
(* The thread of the video input.                                           *)

(* ReadVideoFrame drops a frame that comes more than a frame too early.     *)
TooEarly(t) == nextTime # ASAP /\ t < nextTime - FrameTime

(* What it puts in the buffer: a full buffer loses the new frame when the  *)
(* audio runs, its oldest frame when the audio has yet to start.            *)
StoreFrame(t) ==
  LET full == Len(videoBuffer) >= VideoMax
      kept == IF full THEN Tail(videoBuffer) ELSE videoBuffer
      first == IF full THEN Head(kept)
               ELSE IF started["video"] THEN start["video"] ELSE t
  IN  IF full /\ started["audio"]
      THEN UNCHANGED <<videoBuffer, started, start, stop>>
      ELSE /\ videoBuffer' = Append(kept, t)
           /\ started' = [started EXCEPT !["video"] = TRUE]
           /\ start' = [start EXCEPT !["video"] = first]
           /\ stop' = [stop EXCEPT !["video"] = t + FrameTime]

(* A timestamp before the last one is taken for the last one.               *)
ReadVideoFrame(captured) ==
  /\ pc = "free" /\ TotalTime < MaxTotal
  /\ LET t == Larger(captured, lastTime)
     IN  /\ ~TooEarly(t)
         /\ lastTime' = t
         /\ nextTime' = IF nextTime = ASAP THEN t
                                           ELSE Larger(nextTime + FrameTime, t)
         /\ StoreFrame(t)
  /\ UNCHANGED <<audioBuffer, streams, canDrop, samplesRead, timeOffset,
                 delay, haveLast, control>>

-----------------------------------------------------------------------------
(* The thread of the audio input.                                           *)

(* An overflow before the video starts loses the oldest samples.            *)
MakeRoom ==
  /\ audioBuffer' = AudioKeep
  /\ start' = [start EXCEPT !["audio"] = @ + audioBuffer - AudioKeep]

(* ReadAudioSamples: a full buffer starts a new segment when the video      *)
(* runs.                                                                    *)
ReadAudioSamples(n, t) ==
  /\ pc = "free" /\ HasAudio /\ stop["audio"] <= MaxTime
  /\ block' = [samples |-> n, time |-> t]
  /\ \/ /\ audioBuffer >= AudioMax /\ started["video"]
        /\ pc' = "frame" /\ after' = "reset"
        /\ UNCHANGED <<audioBuffer, start>>
     \/ /\ audioBuffer >= AudioMax /\ ~started["video"]
        /\ pc' = "push" /\ UNCHANGED after
        /\ MakeRoom
     \/ /\ audioBuffer < AudioMax
        /\ pc' = "push" /\ UNCHANGED <<after, audioBuffer, start>>
  /\ UNCHANGED <<videoInput, videoBuffer, streams, started, stop, canDrop,
                 samplesRead, timeOffset, delay, haveLast, nextPts>>

PushSamples ==
  /\ pc = "push"
  /\ audioBuffer' = audioBuffer + block.samples
  /\ started' = [started EXCEPT !["audio"] = TRUE]
  /\ start' = [start EXCEPT !["audio"] =
                 IF started["audio"] THEN @ ELSE block.time]
  /\ stop' = [stop EXCEPT !["audio"] =
                start'["audio"] + samplesRead + audioBuffer']
  /\ pc' = "free" /\ block' = NoBlock
  /\ UNCHANGED <<videoInput, videoBuffer, streams, canDrop, samplesRead,
                 timeOffset, delay, haveLast, after, nextPts>>

-----------------------------------------------------------------------------
(* FlushBuffers, by the synchronizer thread or at the end of a segment.     *)

(* A turn of SynchronizerThread, or the last flush of the destructor.       *)
SynchronizerThread ==
  /\ pc = "free" /\ BothStarted
  /\ pc' = "frame" /\ after' = "free"
  /\ UNCHANGED <<videoInput, videoBuffer, audioBuffer, streams, segment,
                 delay, haveLast, block, nextPts>>

(* NewSegment: flush if both inputs have started, then reset.               *)
NewSegment ==
  /\ pc = "free"
  /\ pc' = (IF BothStarted THEN "frame" ELSE "reset")
  /\ after' = "reset"
  /\ UNCHANGED <<videoInput, videoBuffer, audioBuffer, streams, segment,
                 delay, haveLast, block, nextPts>>

(* FlushVideoBuffer: the frame number of the next frame, or of the one that *)
(* would come next; one that is late is moved back by one to avoid gaps.    *)
PredictFrame ==
  /\ pc = "frame"
  /\ LET time == IF videoBuffer = <<>> THEN stop["video"] - FrameTime
                                       ELSE Head(videoBuffer)
         pts == Pts(timeOffset + (time - SegmentStart))
     IN  nextPts' = IF pts > videoPts THEN pts - 1 ELSE pts
  /\ pc' = "delay"
  /\ UNCHANGED <<videoInput, videoBuffer, audioBuffer, streams, segment,
                 delay, haveLast, after, block>>

DelayDue == delay >= FrameTime /\ videoPts < StopPts

(* Throttling: skip a frame number for every frame time of delay.           *)
InsertDelay ==
  /\ pc = "delay" /\ DelayDue
  /\ delay' = delay - FrameTime
  /\ videoPts' = videoPts + 1
  /\ UNCHANGED <<videoInput, videoBuffer, audioBuffer, audioSamples, lastPts,
                 segment, haveLast, control>>

EndDelays ==
  /\ pc = "delay" /\ ~DelayDue
  /\ pc' = "dup"
  /\ UNCHANGED <<videoInput, videoBuffer, audioBuffer, streams, segment,
                 delay, haveLast, after, block, nextPts>>

(* A frame of this number goes to the encoder, which may ask for a delay.   *)
EncodeVideo(pts) ==
  /\ lastPts' = pts
  /\ videoPts' = pts + 1
  /\ \E d \in Delays :
       delay' = Larger(0, delay - (pts - videoPts) * FrameTime) + d

\* Mutant: duplicates fill the gap up to the next frame whatever the segment.
DuplicateDuePastEnd == haveLast /\ videoPts + Skip < nextPts

\* Mutant: the loop stops one frame late.
DuplicateDueLate == haveLast /\ videoPts + Skip + 1 < Smaller(nextPts, StopPts)

DuplicateDue ==
  haveLast /\ videoPts + Skip < Smaller(nextPts, StopPts)

InsertDuplicate ==
  /\ pc = "dup" /\ DuplicateDue
  /\ EncodeVideo(videoPts + Skip)
  /\ UNCHANGED <<videoInput, videoBuffer, audioBuffer, audioSamples, segment,
                 haveLast, control>>

\* Mutant: a frame before the position reached is sent all the same.
TakeFrameAnyway ==
  /\ pc = "dup" /\ ~DuplicateDue
  /\ videoBuffer # <<>> /\ nextPts < StopPts
  /\ videoBuffer' = Tail(videoBuffer)
  /\ haveLast' = TRUE
  /\ EncodeVideo(IF videoPts = 0 THEN 0 ELSE nextPts)
  /\ pc' = "frame"
  /\ UNCHANGED <<videoInput, audioBuffer, audioSamples, segment, after, block,
                 nextPts>>

(* A frame before the position reached is dropped, and can be duplicated    *)
(* later all the same.                                                      *)
TakeFrame ==
  /\ pc = "dup" /\ ~DuplicateDue
  /\ videoBuffer # <<>> /\ nextPts < StopPts
  /\ videoBuffer' = Tail(videoBuffer)
  /\ haveLast' = TRUE
  /\ \/ nextPts < videoPts /\ UNCHANGED <<videoPts, lastPts, delay>>
     \/ nextPts >= videoPts
          /\ EncodeVideo(IF videoPts = 0 THEN 0 ELSE nextPts)
  /\ pc' = "frame"
  /\ UNCHANGED <<videoInput, audioBuffer, audioSamples, segment, after, block,
                 nextPts>>

VideoFlushed ==
  /\ pc = "dup" /\ ~DuplicateDue
  /\ videoBuffer = <<>> \/ nextPts >= StopPts
  /\ pc' = "audio"
  /\ UNCHANGED <<videoInput, videoBuffer, audioBuffer, streams, segment,
                 delay, haveLast, after, block, nextPts>>

\* Mutant: the samples are counted from the start of the segment.
FlushAudioFromStart ==
  /\ pc = "audio" /\ HasAudio
  /\ LET room == SegmentStop - SegmentStart - samplesRead
         pos == timeOffset + (start["audio"] - SegmentStart) + samplesRead
         early == IF canDrop THEN Larger(0, audioSamples - pos) ELSE 0
         dropped == Smaller(early, audioBuffer)
         sent == Larger(0, Smaller(room, audioBuffer - dropped))
     IN  /\ audioBuffer' = audioBuffer - dropped - sent
         /\ samplesRead' = samplesRead + dropped + sent
         /\ audioSamples' = audioSamples + sent
         /\ canDrop' = (canDrop /\ sent = 0)
  /\ pc' = after
  /\ UNCHANGED <<videoInput, videoBuffer, videoPts, lastPts, started, start,
                 stop, timeOffset, delay, haveLast, after, block, nextPts>>

(* FlushAudioBuffer: samples before the position reached are dropped until  *)
(* the first one is sent. Full audio frames leave as they fill up: their    *)
(* number is audioSamples divided by the frame size.                        *)
FlushAudio ==
  /\ pc = "audio" /\ HasAudio
  /\ LET room == SegmentStop - start["audio"] - samplesRead
         pos == timeOffset + (start["audio"] - SegmentStart) + samplesRead
         early == IF canDrop THEN Larger(0, audioSamples - pos) ELSE 0
         dropped == Smaller(early, audioBuffer)
         sent == Larger(0, Smaller(room, audioBuffer - dropped))
     IN  /\ audioBuffer' = audioBuffer - dropped - sent
         /\ samplesRead' = samplesRead + dropped + sent
         /\ audioSamples' = audioSamples + sent
         /\ canDrop' = (canDrop /\ sent = 0)
  /\ pc' = after
  /\ UNCHANGED <<videoInput, videoBuffer, videoPts, lastPts, started, start,
                 stop, timeOffset, delay, haveLast, after, block, nextPts>>

VideoOnly ==
  /\ pc = "audio" /\ ~HasAudio
  /\ pc' = after
  /\ UNCHANGED <<videoInput, videoBuffer, audioBuffer, streams, segment,
                 delay, haveLast, after, block, nextPts>>

(* The rest of NewSegment: the positions and the last frame stay.           *)
ResetSegment ==
  /\ pc = "reset"
  /\ timeOffset' = TotalTime
  /\ videoBuffer' = <<>> /\ audioBuffer' = 0
  /\ started' = Unstarted /\ start' = NoTimes /\ stop' = NoTimes
  /\ canDrop' = TRUE /\ samplesRead' = 0 /\ delay' = 0
  /\ pc' = (IF block = NoBlock THEN "free" ELSE "push") /\ after' = "free"
  /\ UNCHANGED <<videoInput, streams, haveLast, block, nextPts>>

-----------------------------------------------------------------------------
Flush ==
  \/ PredictFrame \/ InsertDelay \/ EndDelays \/ InsertDuplicate \/ TakeFrame
  \/ VideoFlushed
  \/ IF HasAudio THEN FlushAudio ELSE VideoOnly
  \/ ResetSegment

Next ==
  \/ \E t \in 0..MaxTime : ReadVideoFrame(t)
  \/ \E n \in Blocks, t \in 0..MaxTime : ReadAudioSamples(n, t)
  \/ PushSamples
  \/ SynchronizerThread \/ NewSegment \/ Flush

Spec == Init /\ [][Next]_vars
-----------------------------------------------------------------------------
(* Properties.                                                              *)

(* The muxer needs frames in order: through gaps, duplicates, throttling,  *)
(* late frames and new segments, a frame never goes to the encoder with    *)
(* the number of an earlier one or a smaller one.                           *)
PtsIncrease == [][lastPts' # lastPts => lastPts' > lastPts]_vars

(* The video stream never gets longer than the recording: neither          *)
(* duplicates nor delays are placed beyond the end of the segment, so a    *)
(* real frame that comes later still finds its place.                       *)
VideoNeverAhead == videoPts <= Pts(TotalTime)

(* Nor does it stay behind: once its buffer is flushed it is shorter by at *)
(* most the frames that may be skipped and the frame being captured, the    *)
(* first frame, whose number is forced to zero, included.                   *)
VideoKeepsUp == pc = "audio" /\ haveLast => StopPts - videoPts <= Skip + 1

(* No sound is missing: whenever the audio buffer is flushed, the audio    *)
(* stream is as long as the recording, over all its segments.               *)
AudioComplete ==
  [][pc = "audio" /\ HasAudio => audioSamples' >= TotalTime]_vars

(* The recording never gets shorter, neither by what the inputs send (late, *)
(* early or too much) nor by a new segment.                                 *)
TotalGrows == [][TotalTime' >= TotalTime]_vars

(* A gap that is not asked for by throttling is filled: a frame goes to the *)
(* encoder at most Skip frame numbers after the point reached, which only   *)
(* delays have moved since the frame before it.                             *)
NoLongGap ==
  [][haveLast /\ lastPts' # lastPts => lastPts' <= videoPts + Skip]_vars

(* Comment in FlushVideoBuffer: "if this is the first video frame, always  *)
(* set the pts to zero".                                                    *)
FirstPtsZero == [][lastPts = None /\ lastPts' # None => lastPts' = 0]_vars
=============================================================================
