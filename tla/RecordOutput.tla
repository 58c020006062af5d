---------------------------- MODULE RecordOutput ----------------------------
(***************************************************************************)
(* The output side of a screen recording (src/window/record/AV/Output):    *)
(* one BaseEncoder thread per stream, the MuxerThread that writes their    *)
(* packets, and the thread of the user interface, which builds, finishes   *)
(* or abandons the OutputManager that owns them.                           *)
(*                                                                         *)
(* Frames and packets of a stream leave their queues in the order they     *)
(* entered, so a queue is the difference of two counters:                  *)
(*   added - taken     BaseEncoder::m_frame_queue,                         *)
(*   taken - sent      frames inside the codec,                            *)
(*   sent - popped     StreamData::m_packet_queue,                         *)
(*   popped - written  the packet in the hands of the muxer thread.        *)
(* OutputManager::m_fragmented is false in every build, so the fragment    *)
(* thread and its queues never exist.                                      *)
(***************************************************************************)
EXTENDS Naturals

CONSTANTS
  N,          \* streams of the file: 1 (video) or 2 (video and audio)
  Delayed,    \* the streams whose codec has AV_CODEC_CAP_DELAY
  MaxFrames   \* bound: frames the synchronizer adds to one stream

ASSUME NAssumption == N \in Nat \ {0}
ASSUME DelayedAssumption == Delayed \subseteq 1..N
ASSUME MaxFramesAssumption == MaxFrames \in Nat

Streams == 1..N

VARIABLES
  main,          \* where the owner of the OutputManager stands
  at,            \* the stream its current loop over the encoders has reached
  encoder,       \* the BaseEncoder object of a stream
  thr,           \* where EncoderThread stands
  shouldFinish,  \* BaseEncoder::m_should_finish
  shouldStop,    \* BaseEncoder::m_should_stop
  encError,      \* BaseEncoder::m_error_occurred
  added, taken, sent, popped, written,
  ended,         \* StreamData::m_is_done
  muxer,         \* where MuxerThread stands
  scan,          \* the stream MuxerThread looks at
  streamsDone    \* its local streams_done

owner == <<main, at>>
flags == <<shouldFinish, shouldStop>>
counts == <<added, taken, sent, popped, written>>
muxing == <<muxer, scan, streamsDone>>
vars == <<owner, encoder, thr, flags, encError, counts, ended, muxing>>

MainStates == {"init", "running", "finish", "waiting", "stop", "join",
               "free", "gone"}
ThreadStates == {"none", "look", "take", "idle", "encode", "after", "flush",
                 "end", "ended"}
MuxerStates == {"none", "scan", "write", "done", "error"}

TypeOK ==
  /\ main \in MainStates
  /\ at \in 1..(N + 1)
  /\ encoder \in [Streams -> {"none", "alive", "deleted"}]
  /\ thr \in [Streams -> ThreadStates]
  /\ shouldFinish \in [Streams -> BOOLEAN]
  /\ shouldStop \in [Streams -> BOOLEAN]
  /\ encError \in [Streams -> BOOLEAN]
  /\ added \in [Streams -> Nat]
  /\ taken \in [Streams -> Nat]
  /\ sent \in [Streams -> Nat]
  /\ popped \in [Streams -> Nat]
  /\ written \in [Streams -> Nat]
  /\ ended \in [Streams -> BOOLEAN]
  /\ muxer \in MuxerStates
  /\ scan \in 1..(N + 1)
  /\ streamsDone \in 0..N

Init ==
  /\ main = "init" /\ at = 1
  /\ encoder = [s \in Streams |-> "none"]
  /\ thr = [s \in Streams |-> "none"]
  /\ shouldFinish = [s \in Streams |-> FALSE]
  /\ shouldStop = [s \in Streams |-> FALSE]
  /\ encError = [s \in Streams |-> FALSE]
  /\ added = [s \in Streams |-> 0]
  /\ taken = [s \in Streams |-> 0]
  /\ sent = [s \in Streams |-> 0]
  /\ popped = [s \in Streams |-> 0]
  /\ written = [s \in Streams |-> 0]
  /\ ended = [s \in Streams |-> FALSE]
  /\ muxer = "none" /\ scan = 1 /\ streamsDone = 0

-----------------------------------------------------------------------------
(* The owner: OutputManager::Init, Finish and Free on the thread of the    *)
(* user interface.                                                          *)

(* StartFragment adds the encoders one by one; a constructor starts the    *)
(* thread of its encoder.                                                   *)
AddEncoder ==
  /\ main = "init" /\ at <= N
  /\ encoder' = [encoder EXCEPT ![at] = "alive"]
  /\ thr' = [thr EXCEPT ![at] = "look"]
  /\ at' = at + 1
  /\ UNCHANGED <<main, flags, encError, counts, ended, muxing>>

(* A codec that does not open, or a header that cannot be written, throws: *)
(* the Muxer is destroyed before it was started.                            *)
StartFails ==
  /\ main = "init"
  /\ main' = "free" /\ at' = 1
  /\ UNCHANGED <<encoder, thr, flags, encError, counts, ended, muxing>>

(* Muxer::Start, then the Synchronizer: frames can come from now on.       *)
StartMuxer ==
  /\ main = "init" /\ at = N + 1
  /\ main' = "running"
  /\ muxer' = "scan"
  /\ UNCHANGED <<at, encoder, thr, flags, encError, counts, ended, scan,
                 streamsDone>>

(* The synchronizer hands a frame of stream s to its encoder, from its own *)
(* thread or from the flushes of NewSegment and of its destructor.          *)
AddFrame(s) ==
  /\ main = "running" /\ added[s] < MaxFrames
  /\ added' = [added EXCEPT ![s] = @ + 1]
  /\ UNCHANGED <<owner, encoder, thr, flags, encError, taken, sent, popped,
                 written, ended, muxing>>

(* The synchronizer is gone: save the file (Finish) or drop it (Free).     *)
StopSynchronizer ==
  /\ main = "running"
  /\ main' \in {"finish", "stop"} /\ at' = 1
  /\ UNCHANGED <<encoder, thr, flags, encError, counts, ended, muxing>>

FinishEncoder ==
  /\ main = "finish"
  /\ shouldFinish' = [shouldFinish EXCEPT ![at] = TRUE]
  /\ at' = at + 1
  /\ main' = IF at = N THEN "waiting" ELSE "finish"
  /\ UNCHANGED <<encoder, thr, shouldStop, encError, counts, ended, muxing>>

(* OutputManager::IsFinished, which FinishOutput polls before it destroys  *)
(* the manager.                                                             *)
IsFinished == muxer \in {"done", "error"}

SeeFinished ==
  /\ main = "waiting" /\ IsFinished
  /\ main' = "stop" /\ at' = 1
  /\ UNCHANGED <<encoder, thr, flags, encError, counts, ended, muxing>>

(* ~Muxer stops the encoders, joins the muxer thread, then frees.          *)
StopEncoder ==
  /\ main = "stop"
  /\ shouldStop' = [shouldStop EXCEPT ![at] = TRUE]
  /\ at' = at + 1
  /\ main' = IF at = N THEN "join" ELSE "stop"
  /\ UNCHANGED <<encoder, thr, shouldFinish, encError, counts, ended, muxing>>

JoinMuxer ==
  /\ main = "join" /\ muxer \in {"done", "error"}
  /\ main' = "free" /\ at' = 1
  /\ UNCHANGED <<encoder, thr, flags, encError, counts, ended, muxing>>

(* Muxer::Free deletes an encoder: StopThread raises the flag, joins.      *)
StopThread ==
  /\ main = "free" /\ at <= N /\ encoder[at] = "alive" /\ ~shouldStop[at]
  /\ shouldStop' = [shouldStop EXCEPT ![at] = TRUE]
  /\ UNCHANGED <<owner, encoder, thr, shouldFinish, encError, counts, ended,
                 muxing>>

\* Mutant: the encoder is deleted without joining its thread.
DeleteEncoderAtOnce ==
  /\ main = "free" /\ at <= N
  /\ \/ encoder[at] = "none" /\ UNCHANGED encoder
     \/ /\ encoder[at] = "alive" /\ shouldStop[at]
        /\ encoder' = [encoder EXCEPT ![at] = "deleted"]
  /\ at' = at + 1
  /\ UNCHANGED <<main, thr, flags, encError, counts, ended, muxing>>

DeleteEncoder ==
  /\ main = "free" /\ at <= N
  /\ \/ encoder[at] = "none" /\ UNCHANGED encoder
     \/ /\ encoder[at] = "alive" /\ shouldStop[at] /\ thr[at] = "ended"
        /\ encoder' = [encoder EXCEPT ![at] = "deleted"]
  /\ at' = at + 1
  /\ UNCHANGED <<main, thr, flags, encError, counts, ended, muxing>>

CloseFile ==
  /\ main = "free" /\ at = N + 1
  /\ main' = "gone"
  /\ UNCHANGED <<at, encoder, thr, flags, encError, counts, ended, muxing>>

Owner ==
  \/ AddEncoder \/ StartFails \/ StartMuxer \/ StopSynchronizer
  \/ FinishEncoder \/ SeeFinished \/ StopEncoder \/ JoinMuxer
  \/ StopThread \/ DeleteEncoder \/ CloseFile

-----------------------------------------------------------------------------
(* BaseEncoder::EncoderThread of stream s.                                  *)

Goto(s, where) == thr' = [thr EXCEPT ![s] = where]

(* One turn of the loop: leave on m_should_stop, ...                       *)
Look(s) ==
  /\ thr[s] = "look"
  /\ Goto(s, IF shouldStop[s] THEN "after" ELSE "take")
  /\ UNCHANGED <<owner, encoder, flags, encError, counts, ended, muxing>>

(* ... else take a frame under the lock, or find none. The stop may come    *)
(* in between.                                                              *)
TakeFrame(s) ==
  /\ thr[s] = "take"
  /\ IF taken[s] < added[s]
     THEN taken' = [taken EXCEPT ![s] = @ + 1] /\ Goto(s, "encode")
     ELSE Goto(s, "idle") /\ UNCHANGED taken
  /\ UNCHANGED <<owner, encoder, flags, encError, added, sent, popped,
                 written, ended, muxing>>

(* Only after that the thread reads m_should_finish.                        *)
LeaveOrSleep(s) ==
  /\ thr[s] = "idle"
  /\ Goto(s, IF shouldFinish[s] THEN "after" ELSE "look")
  /\ UNCHANGED <<owner, encoder, flags, encError, counts, ended, muxing>>

(* EncodeFrame: the codec gives a packet, says EAGAIN (a delaying codec at  *)
(* any time) or, while flushing, EOF.                                       *)
ReceivePacket(s) ==
  /\ thr[s] \in {"encode", "flush"} /\ sent[s] < taken[s]
  /\ sent' = [sent EXCEPT ![s] = @ + 1]
  /\ UNCHANGED <<owner, encoder, thr, flags, encError, added, taken, popped,
                 written, ended, muxing>>

EncodedFrame(s) ==
  /\ thr[s] = "encode" /\ (s \in Delayed \/ sent[s] = taken[s])
  /\ Goto(s, "look")
  /\ UNCHANGED <<owner, encoder, flags, encError, counts, ended, muxing>>

EncodeFails(s) ==
  /\ thr[s] \in {"encode", "flush"}
  /\ encError' = [encError EXCEPT ![s] = TRUE]
  /\ Goto(s, "end")
  /\ UNCHANGED <<owner, encoder, flags, counts, ended, muxing>>

\* Mutant: the codec is never flushed.
LeaveLoopUnflushed(s) ==
  /\ thr[s] = "after"
  /\ Goto(s, "end")
  /\ UNCHANGED <<owner, encoder, flags, encError, counts, ended, muxing>>

(* After the loop: flush a codec that delays, unless told to stop.         *)
LeaveLoop(s) ==
  /\ thr[s] = "after"
  /\ Goto(s, IF ~shouldStop[s] /\ s \in Delayed THEN "flush" ELSE "end")
  /\ UNCHANGED <<owner, encoder, flags, encError, counts, ended, muxing>>

(* The flush ends with the codec's EOF or the stop.                        *)
Flushed(s) ==
  /\ thr[s] = "flush" /\ (sent[s] = taken[s] \/ shouldStop[s])
  /\ Goto(s, "end")
  /\ UNCHANGED <<owner, encoder, flags, encError, counts, ended, muxing>>

\* Mutant: an encoder that failed does not end its stream.
EndStreamIfDone(s) ==
  /\ thr[s] = "end"
  /\ ended' = [ended EXCEPT ![s] = ~encError[s]]
  /\ Goto(s, "ended")
  /\ UNCHANGED <<owner, encoder, flags, encError, counts, muxing>>

(* The stream is ended on every path, an exception included.               *)
EndStream(s) ==
  /\ thr[s] = "end"
  /\ ended' = [ended EXCEPT ![s] = TRUE]
  /\ Goto(s, "ended")
  /\ UNCHANGED <<owner, encoder, flags, encError, counts, muxing>>

EncoderThread(s) ==
  \/ Look(s) \/ TakeFrame(s) \/ LeaveOrSleep(s) \/ ReceivePacket(s)
  \/ EncodedFrame(s) \/ EncodeFails(s) \/ LeaveLoop(s) \/ Flushed(s) \/ EndStream(s)

-----------------------------------------------------------------------------
(* Muxer::MuxerThread.                                                      *)

(* One stream, under its lock: take the first packet, or count the stream  *)
(* when it is empty and ended.                                              *)
ScanStream ==
  /\ muxer = "scan" /\ scan <= N
  /\ IF popped[scan] < sent[scan]
     THEN /\ popped' = [popped EXCEPT ![scan] = @ + 1]
          /\ muxer' = "write"
          /\ UNCHANGED <<scan, streamsDone>>
     ELSE /\ scan' = scan + 1
          /\ streamsDone' = IF ended[scan] THEN streamsDone + 1
                                           ELSE streamsDone
          /\ UNCHANGED <<popped, muxer>>
  /\ UNCHANGED <<owner, encoder, thr, flags, encError, added, taken, sent,
                 written, ended>>

\* Mutant: the muxer counts a stream as soon as it is empty.
EndScanEarly ==
  /\ muxer = "scan" /\ scan = N + 1
  /\ IF \A s \in Streams : popped[s] = sent[s]
     THEN muxer' = "done" /\ UNCHANGED <<scan, streamsDone>>
     ELSE scan' = 1 /\ streamsDone' = 0 /\ UNCHANGED muxer
  /\ UNCHANGED <<owner, encoder, thr, flags, encError, counts, ended>>

(* No packet anywhere: stop when every stream was done, else try again.    *)
EndScan ==
  /\ muxer = "scan" /\ scan = N + 1
  /\ IF streamsDone = N
     THEN muxer' = "done" /\ UNCHANGED <<scan, streamsDone>>
     ELSE scan' = 1 /\ streamsDone' = 0 /\ UNCHANGED muxer
  /\ UNCHANGED <<owner, encoder, thr, flags, encError, counts, ended>>

WritePacket ==
  /\ muxer = "write"
  /\ written' = [written EXCEPT ![scan] = @ + 1]
  /\ muxer' = "scan" /\ scan' = 1 /\ streamsDone' = 0
  /\ UNCHANGED <<owner, encoder, thr, flags, encError, added, taken, sent,
                 popped, ended>>

\* Mutant: a packet that cannot be written ends the file as if it were done.
WriteFailsDone ==
  /\ muxer = "write"
  /\ muxer' = "done"
  /\ UNCHANGED <<owner, encoder, thr, flags, encError, counts, ended, scan,
                 streamsDone>>

WriteFails ==
  /\ muxer = "write"
  /\ muxer' = "error"
  /\ UNCHANGED <<owner, encoder, thr, flags, encError, counts, ended, scan,
                 streamsDone>>

MuxerThread == ScanStream \/ EndScan \/ WritePacket \/ WriteFails

-----------------------------------------------------------------------------
Next ==
  \/ Owner
  \/ \E s \in Streams : AddFrame(s) \/ EncoderThread(s)
  \/ MuxerThread
  \/ main = "gone" /\ UNCHANGED vars

Spec == Init /\ [][Next]_vars

(* The threads are scheduled, and the owner goes on with a step it can     *)
(* take; whether and when the user stops the recording is open.             *)
Fairness ==
  /\ WF_vars(main # "running" /\ Owner)
  /\ \A s \in Streams : WF_vars(EncoderThread(s))
  /\ WF_vars(MuxerThread)

FairSpec == Spec /\ Fairness
-----------------------------------------------------------------------------
(* Properties.                                                              *)

(* When the muxer says IsDone, every packet any encoder produced is in the *)
(* file, and no encoder thread can still produce one: counting the streams *)
(* while the encoders run never counts one too early.                       *)
MuxerDrained ==
  muxer = "done" =>
    \A s \in Streams : written[s] = sent[s] /\ thr[s] = "ended"

(* A finished stream without error holds every frame its encoder took,     *)
(* those the codec held back included: the loop, the flush, EndStream and   *)
(* the muxer lose nothing on the way.                                       *)
TakenIsWritten ==
  \A s \in Streams :
    muxer = "done" /\ ~encError[s] /\ ~shouldStop[s] => written[s] = taken[s]

(* Nothing uses an encoder that was deleted: the synchronizer and the muxer *)
(* thread are gone before, and its own thread has ended, whether the file   *)
(* was finished, abandoned or never started.                                *)
NoUseAfterFree ==
  \A s \in Streams :
    encoder[s] = "deleted" =>
      /\ thr[s] = "ended"
      /\ muxer \notin {"scan", "write"}
      /\ main \in {"free", "gone"}

(* RecordOutput implements RecordedFile: a file is closed with all that was *)
(* taken for the streams that were neither stopped nor failing, and after   *)
(* that no encoder thread that still runs, and no step of the owner that    *)
(* stops and frees them, takes a frame or changes the file; a file that     *)
(* failed is never reported as done (Muxer.cpp:331-431,                     *)
(* BaseEncoder.cpp:181-238).                                                *)
File == INSTANCE RecordedFile WITH
          state <- CASE muxer = "done"  -> "closed"
                     [] muxer = "error" -> "broken"
                     [] OTHER           -> "open",
          lost  <- {s \in Streams : encError[s] \/ shouldStop[s]},
          given <- added

ImplementsFile == File!Init /\ [][File!Next]_(File!vars)

(* BaseEncoder.h on Stop: "Same as finish, except that queued frames will   *)
(* be dropped": so Finish drops none, and a file that ends without error or *)
(* stop has every frame that was added.                                     *)
FinishDropsNothing ==
  \A s \in Streams :
    muxer = "done" /\ ~encError[s] /\ ~shouldStop[s] => written[s] = added[s]

(* A recording that is finished, abandoned or fails to start is over some  *)
(* day: no join and no wait of the user interface lasts for ever, whatever  *)
(* error an encoder or the muxer meets.                                     *)
OutputEnds == main \notin {"init", "running"} ~> main = "gone"
=============================================================================
