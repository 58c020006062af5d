------------------------- MODULE RecordOutput_proofs -------------------------
(***************************************************************************)
(* Proofs about RecordOutput for every number of streams, every set of     *)
(* delaying codecs and every bound on the frames: the muxer finishes a     *)
(* file with nothing left behind, and no encoder is used after its         *)
(* deletion.                                                                *)
(***************************************************************************)
EXTENDS RecordOutput, Integers, TLAPS

USE NAssumption, DelayedAssumption, MaxFramesAssumption

-----------------------------------------------------------------------------
(* The inductive invariant.                                                 *)

(* Where the owner stands bounds the stream its loop has reached, and says *)
(* which threads can still be there.                                        *)
OwnerInv ==
  /\ main \in {"finish", "stop"} => at <= N
  /\ main = "init" => /\ muxer = "none" /\ scan = 1 /\ streamsDone = 0
                      /\ \A s \in Streams :
                           /\ encoder[s] # "deleted"
                           /\ s >= at => thr[s] = "none"
  /\ main \in {"free", "gone"} => muxer \notin {"scan", "write"}

(* Every counter is behind the one before it; the muxer holds at most one  *)
(* packet.                                                                  *)
CountInv ==
  \A s \in Streams :
    /\ taken[s] <= added[s]
    /\ sent[s] <= taken[s]
    /\ popped[s] <= sent[s]
    /\ muxer \in {"none", "scan", "done"} => written[s] = popped[s]
    /\ muxer = "write" /\ scan # s => written[s] = popped[s]
    /\ muxer = "write" /\ scan = s => written[s] + 1 = popped[s]

(* A codec without delay holds nothing between two frames, and a thread    *)
(* that ended without error or stop has emptied its codec.                  *)
ThreadInv ==
  \A s \in Streams :
    /\ thr[s] = "none" => sent[s] = taken[s]
    /\ thr[s] \in {"look", "take", "idle", "after"} /\ s \notin Delayed
         => sent[s] = taken[s]
    /\ thr[s] \in {"end", "ended"} /\ ~encError[s] /\ ~shouldStop[s]
         => sent[s] = taken[s]
    /\ ended[s] <=> thr[s] = "ended"
    /\ thr[s] = "none" <=> encoder[s] = "none"

(* No encoder is told to finish or to stop as long as frames may come, and  *)
(* one that met an error takes none.                                        *)
ToldInv ==
  \A s \in Streams :
    /\ main \in {"init", "running"} => ~shouldFinish[s] /\ ~shouldStop[s]
    /\ encError[s] => thr[s] \in {"end", "ended"}

(* The streams the muxer thread has counted as done are done for good.     *)
ScanInv ==
  /\ muxer = "scan" =>
       /\ streamsDone < scan
       /\ streamsDone + 1 = scan =>
            \A s \in Streams : s < scan => ended[s] /\ popped[s] = sent[s]
  /\ muxer = "write" => scan <= N
  /\ muxer = "done" => \A s \in Streams : ended[s] /\ popped[s] = sent[s]

IInv ==
  TypeOK /\ OwnerInv /\ CountInv /\ ThreadInv /\ ScanInv /\ NoUseAfterFree

-----------------------------------------------------------------------------
LEMMA Increment ==
  ASSUME NEW S, NEW f \in [S -> Nat], NEW s \in S
  PROVE  /\ [f EXCEPT ![s] = @ + 1] \in [S -> Nat]
         /\ [f EXCEPT ![s] = f[s] + 1] = [f EXCEPT ![s] = @ + 1]
  OBVIOUS

LEMMA InitInv == Init => IInv
  BY DEF Init, IInv, TypeOK, OwnerInv, CountInv, ThreadInv, ScanInv,
         NoUseAfterFree, Streams, MainStates, ThreadStates, MuxerStates

(* The steps of the owner.                                                  *)
LEMMA OwnerStep == IInv /\ Owner => IInv'
<1> SUFFICES ASSUME IInv, Owner PROVE IInv'
  OBVIOUS
<1> USE DEF IInv, Streams, MainStates, ThreadStates, MuxerStates, owner,
            flags, counts, muxing
<1>1. CASE AddEncoder
<2>1. TypeOK'
  <3>1. at \in Streams /\ at + 1 \in 1..(N + 1)
    BY <1>1 DEF AddEncoder, TypeOK
  <3>2. QED
    BY <1>1, <3>1 DEF AddEncoder, TypeOK
<2>2. OwnerInv'
  BY <1>1, SMTT(30) DEF AddEncoder, TypeOK, OwnerInv
<2>3. CountInv'
  BY <1>1 DEF AddEncoder, TypeOK, OwnerInv, CountInv, ThreadInv
<2>4. ThreadInv'
  BY <1>1 DEF AddEncoder, TypeOK, OwnerInv, CountInv, ThreadInv
<2>5. ScanInv'
  BY <1>1 DEF AddEncoder, TypeOK, OwnerInv, CountInv, ThreadInv, ScanInv
<2>6. NoUseAfterFree'
  BY <1>1 DEF AddEncoder, TypeOK, OwnerInv, NoUseAfterFree
<2>7. QED
  BY <2>1, <2>2, <2>3, <2>4, <2>5, <2>6 DEF IInv
<1>2. CASE StartFails
  BY <1>2 DEF StartFails, TypeOK, OwnerInv, CountInv, ThreadInv, ScanInv,
     NoUseAfterFree
<1>3. CASE StartMuxer
  BY <1>3, SMTT(30)
  DEF StartMuxer, TypeOK, OwnerInv, CountInv, ThreadInv, ScanInv,
     NoUseAfterFree
<1>4. CASE StopSynchronizer
<2>1. main' \in {"finish", "stop"} /\ at' = 1 /\ at' \in 1..(N + 1)
  BY <1>4 DEF StopSynchronizer
<2>2. TypeOK'
  BY <1>4, <2>1 DEF StopSynchronizer, TypeOK
<2>3. QED
  BY <1>4, <2>1, <2>2 DEF StopSynchronizer, OwnerInv, CountInv, ThreadInv,
     ScanInv, NoUseAfterFree
<1>5. CASE FinishEncoder
<2>1. TypeOK'
  <3>1. at \in Streams /\ at + 1 \in 1..(N + 1)
    BY <1>5 DEF FinishEncoder, TypeOK, OwnerInv
  <3>2. QED
    BY <1>5, <3>1 DEF FinishEncoder, TypeOK
<2>2. OwnerInv'
  BY <1>5 DEF FinishEncoder, TypeOK, OwnerInv
<2>3. CountInv'
  BY <1>5 DEF FinishEncoder, TypeOK, OwnerInv, CountInv, ThreadInv
<2>4. ThreadInv'
  BY <1>5 DEF FinishEncoder, TypeOK, OwnerInv, CountInv, ThreadInv
<2>5. ScanInv'
  BY <1>5 DEF FinishEncoder, TypeOK, OwnerInv, CountInv, ThreadInv, ScanInv
<2>6. NoUseAfterFree'
  BY <1>5 DEF FinishEncoder, TypeOK, OwnerInv, NoUseAfterFree
<2>7. QED
  BY <2>1, <2>2, <2>3, <2>4, <2>5, <2>6 DEF IInv
<1>6. CASE SeeFinished
<2>1. TypeOK'
  <3>1. main' \in MainStates /\ at' \in 1..(N + 1)
    BY <1>6 DEF SeeFinished
  <3>2. QED
    BY <1>6, <3>1 DEF SeeFinished, TypeOK
<2>2. OwnerInv'
  BY <1>6 DEF SeeFinished, TypeOK, OwnerInv
<2>3. CountInv'
  BY <1>6 DEF SeeFinished, TypeOK, OwnerInv, CountInv, ThreadInv
<2>4. ThreadInv'
  BY <1>6 DEF SeeFinished, TypeOK, OwnerInv, CountInv, ThreadInv
<2>5. ScanInv'
  BY <1>6 DEF SeeFinished, TypeOK, OwnerInv, CountInv, ThreadInv, ScanInv
<2>6. NoUseAfterFree'
  BY <1>6 DEF SeeFinished, TypeOK, OwnerInv, NoUseAfterFree
<2>7. QED
  BY <2>1, <2>2, <2>3, <2>4, <2>5, <2>6 DEF IInv
<1>7. CASE StopEncoder
<2>1. TypeOK'
  <3>1. at \in Streams /\ at + 1 \in 1..(N + 1)
    BY <1>7 DEF StopEncoder, TypeOK, OwnerInv
  <3>2. QED
    BY <1>7, <3>1 DEF StopEncoder, TypeOK
<2>2. OwnerInv'
  BY <1>7 DEF StopEncoder, TypeOK, OwnerInv
<2>3. CountInv'
  BY <1>7 DEF StopEncoder, TypeOK, OwnerInv, CountInv, ThreadInv
<2>4. ThreadInv'
  BY <1>7 DEF StopEncoder, TypeOK, OwnerInv, CountInv, ThreadInv
<2>5. ScanInv'
  BY <1>7 DEF StopEncoder, TypeOK, OwnerInv, CountInv, ThreadInv, ScanInv
<2>6. NoUseAfterFree'
  BY <1>7 DEF StopEncoder, TypeOK, OwnerInv, NoUseAfterFree
<2>7. QED
  BY <2>1, <2>2, <2>3, <2>4, <2>5, <2>6 DEF IInv
<1>8. CASE JoinMuxer
<2>1. TypeOK'
  <3>1. main' \in MainStates /\ at' \in 1..(N + 1)
    BY <1>8 DEF JoinMuxer
  <3>2. QED
    BY <1>8, <3>1 DEF JoinMuxer, TypeOK
<2>2. OwnerInv'
  BY <1>8 DEF JoinMuxer, TypeOK, OwnerInv
<2>3. CountInv'
  BY <1>8 DEF JoinMuxer, TypeOK, OwnerInv, CountInv, ThreadInv
<2>4. ThreadInv'
  BY <1>8 DEF JoinMuxer, TypeOK, OwnerInv, CountInv, ThreadInv
<2>5. ScanInv'
  BY <1>8 DEF JoinMuxer, TypeOK, OwnerInv, CountInv, ThreadInv, ScanInv
<2>6. NoUseAfterFree'
  BY <1>8 DEF JoinMuxer, TypeOK, OwnerInv, NoUseAfterFree
<2>7. QED
  BY <2>1, <2>2, <2>3, <2>4, <2>5, <2>6 DEF IInv
<1>9. CASE StopThread
  BY <1>9 DEF StopThread, TypeOK, OwnerInv, CountInv, ThreadInv, ScanInv,
     NoUseAfterFree
<1>10. CASE DeleteEncoder
<2>1. TypeOK'
  <3>1. at \in Streams /\ at + 1 \in 1..(N + 1)
    BY <1>10 DEF DeleteEncoder, TypeOK
  <3>2. QED
    BY <1>10, <3>1 DEF DeleteEncoder, TypeOK
<2>2. OwnerInv'
  BY <1>10 DEF DeleteEncoder, TypeOK, OwnerInv
<2>3. CountInv'
  BY <1>10 DEF DeleteEncoder, TypeOK, OwnerInv, CountInv, ThreadInv
<2>4. ThreadInv'
  BY <1>10 DEF DeleteEncoder, TypeOK, OwnerInv, CountInv, ThreadInv
<2>5. ScanInv'
  BY <1>10 DEF DeleteEncoder, TypeOK, OwnerInv, CountInv, ThreadInv, ScanInv
<2>6. NoUseAfterFree'
  BY <1>10 DEF DeleteEncoder, TypeOK, OwnerInv, NoUseAfterFree
<2>7. QED
  BY <2>1, <2>2, <2>3, <2>4, <2>5, <2>6 DEF IInv
<1>11. CASE CloseFile
  BY <1>11 DEF CloseFile, TypeOK, OwnerInv, CountInv, ThreadInv, ScanInv,
     NoUseAfterFree
<1>12. QED
  BY <1>1, <1>2, <1>3, <1>4, <1>5, <1>6, <1>7, <1>8, <1>9, <1>10, <1>11
     DEF Owner

(* The steps of an encoder thread, and the frames it is given.              *)
LEMMA EncoderStep ==
  ASSUME IInv, NEW s \in Streams, AddFrame(s) \/ EncoderThread(s)
  PROVE  IInv'
<1> USE DEF IInv, Streams, MainStates, ThreadStates, MuxerStates, owner,
            flags, counts, muxing, Goto
<1>1. CASE AddFrame(s)
<2>1. TypeOK'
  <3>1. added' \in [Streams -> Nat]
    BY <1>1, Increment DEF AddFrame, TypeOK
  <3>2. QED
    BY <1>1, <3>1 DEF AddFrame, TypeOK
<2>2. OwnerInv'
  BY <1>1 DEF AddFrame, TypeOK, OwnerInv
<2>3. CountInv'
  BY <1>1 DEF AddFrame, TypeOK, CountInv
<2>4. ThreadInv'
  BY <1>1 DEF AddFrame, TypeOK, ThreadInv
<2>5. ScanInv'
  BY <1>1 DEF AddFrame, TypeOK, OwnerInv, CountInv, ThreadInv, ScanInv
<2>6. NoUseAfterFree'
  BY <1>1 DEF AddFrame, TypeOK, OwnerInv, NoUseAfterFree
<2>7. QED
  BY <2>1, <2>2, <2>3, <2>4, <2>5, <2>6 DEF IInv
<1>2. CASE Look(s)
<2>1. TypeOK'
  BY <1>2 DEF Look, TypeOK
<2>2. OwnerInv'
  BY <1>2 DEF Look, TypeOK, OwnerInv
<2>3. CountInv'
  BY <1>2 DEF Look, TypeOK, CountInv
<2>4. ThreadInv'
  BY <1>2 DEF Look, TypeOK, ThreadInv
<2>5. ScanInv'
  BY <1>2 DEF Look, TypeOK, ThreadInv, ScanInv
<2>6. NoUseAfterFree'
  BY <1>2 DEF Look, TypeOK, OwnerInv, NoUseAfterFree
<2>7. QED
  BY <2>1, <2>2, <2>3, <2>4, <2>5, <2>6 DEF IInv
<1>10. CASE TakeFrame(s)
<2>1. \/ taken' = [taken EXCEPT ![s] = @ + 1] /\ Goto(s, "encode")
      \/ taken' = taken /\ Goto(s, "idle")
  BY <1>10 DEF TakeFrame
<2>2. TypeOK'
  <3>1. [taken EXCEPT ![s] = @ + 1] \in [Streams -> Nat]
    BY Increment DEF TypeOK
  <3>2. taken' \in [Streams -> Nat] /\ thr' \in [Streams -> ThreadStates]
    BY <2>1, <3>1 DEF TypeOK
  <3>3. QED
    BY <1>10, <3>2 DEF TakeFrame, TypeOK
<2>3. OwnerInv'
  BY <1>10, <2>1 DEF TakeFrame, TypeOK, OwnerInv
<2>4. CountInv'
  <3>1. CASE taken' = taken
    BY <1>10, <3>1 DEF TakeFrame, TypeOK, CountInv
  <3>2. CASE taken' = [taken EXCEPT ![s] = @ + 1]
    BY <1>10, <3>2, SMTT(30) DEF TakeFrame, TypeOK, CountInv
  <3>3. QED
    BY <2>1, <3>1, <3>2
<2>5. ThreadInv'
  <3>1. CASE taken' = taken /\ Goto(s, "idle")
    BY <1>10, <3>1 DEF TakeFrame, TypeOK, ThreadInv
  <3>2. CASE taken' = [taken EXCEPT ![s] = @ + 1] /\ Goto(s, "encode")
    BY <1>10, <3>2 DEF TakeFrame, TypeOK, ThreadInv
  <3>3. QED
    BY <2>1, <3>1, <3>2
<2>6. ScanInv'
  BY <1>10 DEF TakeFrame, TypeOK, ThreadInv, ScanInv
<2>7. NoUseAfterFree'
  BY <1>10 DEF TakeFrame, TypeOK, OwnerInv, NoUseAfterFree
<2>8. QED
  BY <2>2, <2>3, <2>4, <2>5, <2>6, <2>7 DEF IInv
<1>3. CASE LeaveOrSleep(s)
<2>1. TypeOK'
  BY <1>3 DEF LeaveOrSleep, TypeOK
<2>2. OwnerInv'
  BY <1>3 DEF LeaveOrSleep, TypeOK, OwnerInv
<2>3. CountInv'
  BY <1>3 DEF LeaveOrSleep, TypeOK, CountInv
<2>4. ThreadInv'
  BY <1>3 DEF LeaveOrSleep, TypeOK, ThreadInv
<2>5. ScanInv'
  BY <1>3 DEF LeaveOrSleep, TypeOK, ThreadInv, ScanInv
<2>6. NoUseAfterFree'
  BY <1>3 DEF LeaveOrSleep, TypeOK, OwnerInv, NoUseAfterFree
<2>7. QED
  BY <2>1, <2>2, <2>3, <2>4, <2>5, <2>6 DEF IInv
<1>4. CASE ReceivePacket(s)
<2>1. TypeOK'
  BY <1>4, Increment DEF ReceivePacket, TypeOK
<2>2. OwnerInv'
  BY <1>4 DEF ReceivePacket, TypeOK, OwnerInv
<2>3. CountInv'
  BY <1>4, SMTT(30) DEF ReceivePacket, TypeOK, CountInv
<2>4. ThreadInv'
  BY <1>4 DEF ReceivePacket, TypeOK, ThreadInv
<2>5. ScanInv'
  BY <1>4 DEF ReceivePacket, TypeOK, OwnerInv, CountInv, ThreadInv, ScanInv
<2>6. NoUseAfterFree'
  BY <1>4 DEF ReceivePacket, TypeOK, OwnerInv, NoUseAfterFree
<2>7. QED
  BY <2>1, <2>2, <2>3, <2>4, <2>5, <2>6 DEF IInv
<1>5. CASE EncodedFrame(s)
<2>1. TypeOK'
  BY <1>5 DEF EncodedFrame, TypeOK
<2>2. OwnerInv'
  BY <1>5 DEF EncodedFrame, TypeOK, OwnerInv
<2>3. CountInv'
  BY <1>5 DEF EncodedFrame, TypeOK, CountInv
<2>4. ThreadInv'
  BY <1>5 DEF EncodedFrame, TypeOK, ThreadInv
<2>5. ScanInv'
  BY <1>5 DEF EncodedFrame, TypeOK, OwnerInv, CountInv, ThreadInv, ScanInv
<2>6. NoUseAfterFree'
  BY <1>5 DEF EncodedFrame, TypeOK, OwnerInv, NoUseAfterFree
<2>7. QED
  BY <2>1, <2>2, <2>3, <2>4, <2>5, <2>6 DEF IInv
<1>6. CASE EncodeFails(s)
<2>1. TypeOK'
  BY <1>6 DEF EncodeFails, TypeOK
<2>2. OwnerInv'
  BY <1>6 DEF EncodeFails, TypeOK, OwnerInv
<2>3. CountInv'
  BY <1>6 DEF EncodeFails, TypeOK, CountInv
<2>4. ThreadInv'
  BY <1>6 DEF EncodeFails, TypeOK, ThreadInv
<2>5. ScanInv'
  BY <1>6 DEF EncodeFails, TypeOK, ThreadInv, ScanInv
<2>6. NoUseAfterFree'
  BY <1>6 DEF EncodeFails, TypeOK, OwnerInv, NoUseAfterFree
<2>7. QED
  BY <2>1, <2>2, <2>3, <2>4, <2>5, <2>6 DEF IInv
<1>7. CASE LeaveLoop(s)
<2>1. TypeOK'
  BY <1>7 DEF LeaveLoop, TypeOK
<2>2. OwnerInv'
  BY <1>7 DEF LeaveLoop, TypeOK, OwnerInv
<2>3. CountInv'
  BY <1>7 DEF LeaveLoop, TypeOK, CountInv
<2>4. ThreadInv'
  BY <1>7, SMTT(30) DEF LeaveLoop, TypeOK, ThreadInv
<2>5. ScanInv'
  BY <1>7 DEF LeaveLoop, TypeOK, OwnerInv, CountInv, ThreadInv, ScanInv
<2>6. NoUseAfterFree'
  BY <1>7 DEF LeaveLoop, TypeOK, OwnerInv, NoUseAfterFree
<2>7. QED
  BY <2>1, <2>2, <2>3, <2>4, <2>5, <2>6 DEF IInv
<1>8. CASE Flushed(s)
<2>1. TypeOK'
  BY <1>8 DEF Flushed, TypeOK
<2>2. OwnerInv'
  BY <1>8 DEF Flushed, TypeOK, OwnerInv
<2>3. CountInv'
  BY <1>8 DEF Flushed, TypeOK, CountInv
<2>4. ThreadInv'
  BY <1>8 DEF Flushed, TypeOK, ThreadInv
<2>5. ScanInv'
  BY <1>8 DEF Flushed, TypeOK, ThreadInv, ScanInv
<2>6. NoUseAfterFree'
  BY <1>8 DEF Flushed, TypeOK, OwnerInv, NoUseAfterFree
<2>7. QED
  BY <2>1, <2>2, <2>3, <2>4, <2>5, <2>6 DEF IInv
<1>9. CASE EndStream(s)
<2>1. TypeOK'
  BY <1>9 DEF EndStream, TypeOK
<2>2. OwnerInv'
  BY <1>9 DEF EndStream, TypeOK, OwnerInv
<2>3. CountInv'
  BY <1>9 DEF EndStream, TypeOK, CountInv
<2>4. ThreadInv'
  BY <1>9 DEF EndStream, TypeOK, ThreadInv
<2>5. ScanInv'
  BY <1>9 DEF EndStream, TypeOK, ThreadInv, ScanInv
<2>6. NoUseAfterFree'
  BY <1>9 DEF EndStream, TypeOK, OwnerInv, NoUseAfterFree
<2>7. QED
  BY <2>1, <2>2, <2>3, <2>4, <2>5, <2>6 DEF IInv
<1>11. QED
  BY <1>1, <1>2, <1>3, <1>4, <1>5, <1>6, <1>7, <1>8, <1>9, <1>10
     DEF EncoderThread

(* The steps of the muxer thread.                                           *)
LEMMA MuxerStep == IInv /\ MuxerThread => IInv'
<1> SUFFICES ASSUME IInv, MuxerThread PROVE IInv'
  OBVIOUS
<1> USE DEF IInv, Streams, MainStates, ThreadStates, MuxerStates, owner,
            flags, counts, muxing
<1>1. CASE ScanStream
<2>1. TypeOK'
  <3>1. popped' \in [Streams -> Nat] /\ muxer' \in MuxerStates
    <4>1. popped' = popped \/ popped' = [popped EXCEPT ![scan] = @ + 1]
      BY <1>1 DEF ScanStream
    <4>2. scan \in Streams /\ muxer' \in MuxerStates
      BY <1>1 DEF ScanStream, TypeOK
    <4>3. [popped EXCEPT ![scan] = @ + 1] \in [Streams -> Nat]
      BY <4>2, Increment DEF TypeOK
    <4>4. QED
      BY <4>1, <4>2, <4>3 DEF TypeOK
  <3>2. scan' \in 1..(N + 1) /\ streamsDone' \in 0..N
    <4>1. /\ scan' \in {scan, scan + 1}
          /\ streamsDone' \in {streamsDone, streamsDone + 1}
      BY <1>1 DEF ScanStream, TypeOK
    <4>2. muxer = "scan" /\ scan \in Nat /\ scan <= N /\ streamsDone \in Nat
          /\ streamsDone < scan
      BY <1>1 DEF ScanStream, TypeOK, ScanInv
    <4>3. QED
      BY <4>1, <4>2
  <3>3. QED
    BY <1>1, <3>1, <3>2 DEF ScanStream, TypeOK
<2>2. OwnerInv'
  BY <1>1 DEF ScanStream, TypeOK, OwnerInv
<2>3. CountInv'
  <3>1. CASE popped[scan] < sent[scan]
    BY <1>1, <3>1, SMTT(30) DEF ScanStream, TypeOK, CountInv
  <3>2. CASE ~(popped[scan] < sent[scan])
    BY <1>1, <3>2 DEF ScanStream, TypeOK, CountInv
  <3>3. QED
    BY <3>1, <3>2
<2>4. ThreadInv'
  BY <1>1 DEF ScanStream, TypeOK, OwnerInv, CountInv, ThreadInv
<2>5. ScanInv'
  <3>1. CASE popped[scan] < sent[scan]
    BY <1>1, <3>1 DEF ScanStream, TypeOK, ThreadInv, CountInv, ScanInv
  <3>2. CASE ~(popped[scan] < sent[scan])
    <4>1. popped' = popped /\ sent' = sent /\ ended' = ended
          /\ scan' = scan + 1 /\ muxer' = "scan" /\ popped[scan] = sent[scan]
      BY <1>1, <3>2 DEF ScanStream, TypeOK, CountInv
    <4>2. streamsDone' = IF ended[scan] THEN streamsDone + 1 ELSE streamsDone
      BY <1>1, <3>2 DEF ScanStream
    <4>3. scan \in Nat /\ streamsDone \in Nat /\ streamsDone < scan
      BY <1>1 DEF ScanStream, TypeOK, ScanInv
    <4>4. QED
      BY <1>1, <4>1, <4>2, <4>3 DEF ScanStream, ScanInv
  <3>3. QED
    BY <3>1, <3>2
<2>6. NoUseAfterFree'
  BY <1>1 DEF ScanStream, TypeOK, OwnerInv, NoUseAfterFree
<2>7. QED
  BY <2>1, <2>2, <2>3, <2>4, <2>5, <2>6 DEF IInv
<1>2. CASE EndScan
<2>1. TypeOK'
  <3>1. 1 \in 1..(N + 1) /\ 0 \in 0..N /\ MuxerStates = MuxerStates'
    BY NAssumption DEF MuxerStates
  <3>2. scan' \in {1, scan} /\ streamsDone' \in {0, streamsDone}
    BY <1>2 DEF EndScan
  <3>3. muxer' \in {"done", muxer}
    BY <1>2 DEF EndScan
  <3>4. scan' \in 1..(N + 1) /\ streamsDone' \in 0..N /\ muxer' \in MuxerStates
    BY <3>1, <3>2, <3>3 DEF TypeOK, MuxerStates
  <3>5. UNCHANGED <<owner, encoder, thr, flags, encError, counts, ended>>
    BY <1>2 DEF EndScan
  <3>6. QED
    BY <3>4, <3>5 DEF TypeOK, owner, flags, counts
<2>2. OwnerInv'
  BY <1>2 DEF EndScan, TypeOK, OwnerInv
<2>3. CountInv'
  BY <1>2 DEF EndScan, TypeOK, OwnerInv, CountInv, ThreadInv
<2>4. ThreadInv'
  BY <1>2 DEF EndScan, TypeOK, OwnerInv, CountInv, ThreadInv
<2>5. ScanInv'
  BY <1>2 DEF EndScan, TypeOK, OwnerInv, CountInv, ThreadInv, ScanInv
<2>6. NoUseAfterFree'
  BY <1>2 DEF EndScan, TypeOK, OwnerInv, NoUseAfterFree
<2>7. QED
  BY <2>1, <2>2, <2>3, <2>4, <2>5, <2>6 DEF IInv
<1>3. CASE WritePacket
<2>1. TypeOK'
  <3>1. written' \in [Streams -> Nat]
    <4>1. scan \in Streams
      BY <1>3 DEF WritePacket, TypeOK, ScanInv
    <4>2. QED
      BY <1>3, <4>1, Increment DEF WritePacket, TypeOK
  <3>2. QED
    BY <1>3, <3>1, SMTT(30) DEF WritePacket, TypeOK
<2>2. OwnerInv'
  BY <1>3 DEF WritePacket, TypeOK, OwnerInv
<2>3. CountInv'
  BY <1>3 DEF WritePacket, TypeOK, OwnerInv, CountInv, ThreadInv
<2>4. ThreadInv'
  BY <1>3 DEF WritePacket, TypeOK, OwnerInv, CountInv, ThreadInv
<2>5. ScanInv'
  BY <1>3 DEF WritePacket, TypeOK, OwnerInv, CountInv, ThreadInv, ScanInv
<2>6. NoUseAfterFree'
  BY <1>3 DEF WritePacket, TypeOK, OwnerInv, NoUseAfterFree
<2>7. QED
  BY <2>1, <2>2, <2>3, <2>4, <2>5, <2>6 DEF IInv
<1>4. CASE WriteFails
  BY <1>4 DEF WriteFails, TypeOK, OwnerInv, CountInv, ThreadInv, ScanInv,
     NoUseAfterFree
<1>5. QED
  BY <1>1, <1>2, <1>3, <1>4 DEF MuxerThread

LEMMA NextInv == IInv /\ [Next]_vars => IInv'
<1> SUFFICES ASSUME IInv, [Next]_vars PROVE IInv'
  OBVIOUS
<1>1. CASE UNCHANGED vars
  BY <1>1 DEF vars, owner, flags, counts, muxing, IInv, TypeOK, OwnerInv,
     CountInv, ThreadInv, ScanInv, NoUseAfterFree
<1>2. CASE Owner
  BY <1>2, OwnerStep
<1>3. CASE \E s \in Streams : AddFrame(s) \/ EncoderThread(s)
  BY <1>3, EncoderStep
<1>4. CASE MuxerThread
  BY <1>4, MuxerStep
<1>5. QED
  BY <1>1, <1>2, <1>3, <1>4 DEF Next

LEMMA Invariance == Spec => []IInv
  BY InitInv, NextInv, PTL DEF Spec

LEMMA ToldInit == Init => ToldInv
  BY DEF Init, ToldInv, Streams

LEMMA ToldNext == IInv /\ ToldInv /\ [Next]_vars => ToldInv'
<1> SUFFICES ASSUME IInv, ToldInv, [Next]_vars PROVE ToldInv'
  OBVIOUS
<1> USE DEF IInv, TypeOK, ToldInv, Streams, owner, flags, counts, muxing, Goto
<1>1. CASE UNCHANGED vars
  BY <1>1 DEF vars
<1>2. CASE AddEncoder
<2>1. at \in Streams /\ thr[at] = "none"
  BY <1>2 DEF AddEncoder, OwnerInv
<2>2. ~encError[at]
  BY <2>1
<2>3. QED
  BY <1>2, <2>2 DEF AddEncoder
<1>3. CASE StartFails \/ StartMuxer \/ StopSynchronizer
  BY <1>3 DEF StartFails, StartMuxer, StopSynchronizer
<1>4. CASE FinishEncoder
  BY <1>4 DEF FinishEncoder
<1>5. CASE StopEncoder
  BY <1>5 DEF StopEncoder
<1>6. CASE SeeFinished \/ JoinMuxer \/ StopThread \/ DeleteEncoder \/ CloseFile
  BY <1>6 DEF SeeFinished, JoinMuxer, StopThread, DeleteEncoder, CloseFile
<1>7. CASE \E s \in Streams : AddFrame(s) \/ EncoderThread(s)
<2>1. PICK s \in Streams : AddFrame(s) \/ EncoderThread(s)
  BY <1>7
<2>2. UNCHANGED <<main, flags>>
  BY <2>1 DEF AddFrame, EncoderThread, Look, TakeFrame, LeaveOrSleep,
     ReceivePacket, EncodedFrame, EncodeFails, LeaveLoop, Flushed, EndStream
<2>3. CASE EncodeFails(s)
  BY <2>2, <2>3 DEF EncodeFails
<2>4. CASE EndStream(s)
  BY <2>2, <2>4 DEF EndStream
<2>5. CASE AddFrame(s) \/ ReceivePacket(s)
  BY <2>2, <2>5 DEF AddFrame, ReceivePacket
<2>6. CASE thr[s] \notin {"end", "ended"} /\ UNCHANGED encError
           /\ \E w \in ThreadStates : Goto(s, w)
  BY <2>2, <2>6
<2>7. CASE Flushed(s) \/ Look(s) \/ TakeFrame(s) \/ LeaveOrSleep(s)
           \/ EncodedFrame(s) \/ LeaveLoop(s)
  BY <2>6, <2>7 DEF Flushed, Look, TakeFrame, LeaveOrSleep, EncodedFrame,
     LeaveLoop, ThreadStates
<2>8. QED
  BY <2>1, <2>3, <2>4, <2>5, <2>7 DEF EncoderThread
<1>8. CASE MuxerThread
  BY <1>8 DEF MuxerThread, ScanStream, EndScan, WritePacket, WriteFails
<1>9. QED
  BY <1>1, <1>2, <1>3, <1>4, <1>5, <1>6, <1>7, <1>8 DEF Next, Owner

LEMMA ToldInvariance == Spec => [](IInv /\ ToldInv)
<1>1. IInv /\ ToldInv /\ [Next]_vars => IInv' /\ ToldInv'
  BY NextInv, ToldNext
<1>2. QED
  BY <1>1, InitInv, ToldInit, PTL DEF Spec

-----------------------------------------------------------------------------
(* The state is well typed for every number of streams: no loop over the   *)
(* encoders runs past the last of them.                                     *)
THEOREM TypeCorrect == Spec => []TypeOK
  BY Invariance, PTL DEF IInv

(* The encoders, the muxer thread and the synchronizer never touch an      *)
(* encoder that Muxer::Free has deleted.                                    *)
THEOREM NothingUsedAfterFree == Spec => []NoUseAfterFree
  BY Invariance, PTL DEF IInv

(* IsDone of the muxer means that every packet is in the file and every    *)
(* encoder thread has ended.                                                *)
THEOREM DoneMeansDrained == Spec => []MuxerDrained
<1>1. IInv => MuxerDrained
  BY DEF IInv, TypeOK, CountInv, ThreadInv, ScanInv, MuxerDrained, Streams
<1>2. QED
  BY <1>1, Invariance, PTL

(* A stream that ended without error or stop has all its encoder took.     *)
THEOREM NothingTakenIsLost == Spec => []TakenIsWritten
<1>1. IInv => TakenIsWritten
  BY DEF IInv, TypeOK, CountInv, ThreadInv, ScanInv, TakenIsWritten, Streams
<1>2. QED
  BY <1>1, Invariance, PTL

-----------------------------------------------------------------------------
(* The end of an encoder thread.                                            *)

(* Steps the thread can still make in the turn it is in: while it only      *)
(* finishes, it ends at an empty queue; a stop it notices at the head of    *)
(* the loop.                                                                *)
Finishing == [encode |-> 7, look |-> 6, take |-> 5, idle |-> 4, after |-> 3,
              flush |-> 2, end |-> 1, ended |-> 0, none |-> 0]
Stopping  == [encode |-> 7, take |-> 6, idle |-> 5, look |-> 4, after |-> 3,
              flush |-> 2, end |-> 1, ended |-> 0, none |-> 0]

EncoderWork(s) == 4 * (added[s] - taken[s]) + (taken[s] - sent[s])
                    + IF shouldStop[s] THEN Stopping[thr[s]]
                                       ELSE Finishing[thr[s]]

(* An encoder that was told to finish or to stop comes to its end: every    *)
(* step of its thread, waiting ones included, leaves less to do, no other   *)
(* thread gives it more, and there is never less than nothing to do. The    *)
(* thread is therefore joined after a bounded number of its steps           *)
(* (BaseEncoder.cpp:89-101, 181-238).                                       *)
EncoderWindsDown ==
  [][\A s \in Streams :
       /\ shouldFinish[s] \/ shouldStop[s]
       /\ shouldStop'[s] = shouldStop[s]
       => /\ EncoderThread(s) => EncoderWork(s)' < EncoderWork(s)
          /\ EncoderWork(s)' <= EncoderWork(s)
          /\ EncoderWork(s)' >= 0]_vars

LEMMA WorkType ==
  ASSUME IInv, NEW s \in Streams
  PROVE  /\ added[s] \in Nat /\ taken[s] \in Nat /\ sent[s] \in Nat
         /\ taken[s] <= added[s] /\ sent[s] <= taken[s]
         /\ EncoderWork(s) \in Int /\ EncoderWork(s) >= 0
<1>1. /\ added[s] \in Nat /\ taken[s] \in Nat /\ sent[s] \in Nat
      /\ taken[s] <= added[s] /\ sent[s] <= taken[s]
      /\ thr[s] \in ThreadStates
  BY DEF IInv, TypeOK, CountInv
<1>2. Stopping[thr[s]] \in 0..7 /\ Finishing[thr[s]] \in 0..7
  BY <1>1 DEF Stopping, Finishing, ThreadStates
<1>3. QED
  BY <1>1, <1>2 DEF EncoderWork

LEMMA WorkNext ==
  ASSUME IInv', NEW s \in Streams
  PROVE  EncoderWork(s)' \in Int /\ EncoderWork(s)' >= 0
<1>1. /\ added'[s] \in Nat /\ taken'[s] \in Nat /\ sent'[s] \in Nat
      /\ taken'[s] <= added'[s] /\ sent'[s] <= taken'[s]
      /\ thr'[s] \in ThreadStates
  BY DEF IInv, TypeOK, CountInv
<1>2. Stopping[thr'[s]] \in 0..7 /\ Finishing[thr'[s]] \in 0..7
  BY <1>1 DEF Stopping, Finishing, ThreadStates
<1>3. QED
  BY <1>1, <1>2 DEF EncoderWork

(* A step of the thread of an encoder that was told to end.                 *)
LEMMA OwnSteps ==
  ASSUME IInv, NEW s \in Streams, EncoderThread(s),
         shouldFinish[s] \/ shouldStop[s]
  PROVE  EncoderWork(s)' < EncoderWork(s)
<1> USE DEF Goto, Stopping, Finishing
<1>1. /\ added[s] \in Nat /\ taken[s] \in Nat /\ sent[s] \in Nat
      /\ taken \in [Streams -> Nat] /\ sent \in [Streams -> Nat]
      /\ thr \in [Streams -> ThreadStates]
  BY DEF IInv, TypeOK
<1>2. added' = added /\ shouldStop' = shouldStop
  BY DEF EncoderThread, Look, TakeFrame, LeaveOrSleep, ReceivePacket,
     EncodedFrame, EncodeFails, LeaveLoop, Flushed, EndStream, counts, flags
<1>3. CASE Look(s) \/ LeaveOrSleep(s) \/ EncodedFrame(s) \/ EncodeFails(s)
           \/ LeaveLoop(s) \/ Flushed(s) \/ EndStream(s)
  <2>1. taken' = taken /\ sent' = sent
    BY <1>3 DEF Look, LeaveOrSleep, EncodedFrame, EncodeFails, LeaveLoop,
       Flushed, EndStream, counts
  <2>2. IF shouldStop[s] THEN Stopping[thr'[s]] < Stopping[thr[s]]
                         ELSE Finishing[thr'[s]] < Finishing[thr[s]]
    <3>1. CASE Look(s)
      BY <1>1, <3>1 DEF Look
    <3>2. CASE LeaveOrSleep(s)
      BY <1>1, <3>2 DEF LeaveOrSleep
    <3>3. CASE EncodedFrame(s)
      BY <1>1, <3>3 DEF EncodedFrame
    <3>4. CASE EncodeFails(s)
      BY <1>1, <3>4 DEF EncodeFails
    <3>5. CASE LeaveLoop(s) \/ Flushed(s) \/ EndStream(s)
      BY <1>1, <3>5 DEF LeaveLoop, Flushed, EndStream
    <3>6. QED
      BY <1>3, <3>1, <3>2, <3>3, <3>4, <3>5
  <2>3. /\ Stopping[thr[s]] \in Int /\ Stopping[thr'[s]] \in Int
        /\ Finishing[thr[s]] \in Int /\ Finishing[thr'[s]] \in Int
    <3>1. thr'[s] \in ThreadStates
      BY <1>1, <1>3 DEF Look, LeaveOrSleep, EncodedFrame, EncodeFails,
         LeaveLoop, Flushed, EndStream, ThreadStates
    <3>2. QED
      BY <1>1, <3>1 DEF ThreadStates
  <2>4. QED
    <3> HIDE DEF Stopping, Finishing
    <3>1. QED
      BY <1>1, <1>2, <2>1, <2>2, <2>3 DEF EncoderWork
<1>4. CASE TakeFrame(s)
  <2>1. sent' = sent /\ thr[s] = "take"
    BY <1>4 DEF TakeFrame
  <2>2. CASE taken' = [taken EXCEPT ![s] = @ + 1] /\ Goto(s, "encode")
    <3>1. taken'[s] = taken[s] + 1 /\ thr'[s] = "encode"
      BY <1>1, <2>2
    <3>2. QED
      BY <1>1, <1>2, <2>1, <3>1 DEF EncoderWork
  <2>3. CASE taken' = taken /\ Goto(s, "idle")
    <3>1. thr'[s] = "idle"
      BY <1>1, <2>3
    <3>2. QED
      BY <1>1, <1>2, <2>1, <2>3, <3>1 DEF EncoderWork
  <2>4. QED
    BY <1>4, <2>2, <2>3 DEF TakeFrame
<1>5. CASE ReceivePacket(s)
  <2>1. taken' = taken /\ thr' = thr /\ sent'[s] = sent[s] + 1
    BY <1>1, <1>5 DEF ReceivePacket
  <2>2. Stopping[thr[s]] \in Int /\ Finishing[thr[s]] \in Int
    BY <1>1 DEF ThreadStates
  <2>3. QED
    <3> HIDE DEF Stopping, Finishing
    <3>1. QED
      BY <1>1, <1>2, <2>1, <2>2 DEF EncoderWork
<1>6. QED
  BY <1>3, <1>4, <1>5 DEF EncoderThread

(* A step of any other thread, while the encoder is told what it was.       *)
LEMMA OtherSteps ==
  ASSUME IInv, ToldInv, NEW s \in Streams, [Next]_vars, ~EncoderThread(s),
         shouldFinish[s] \/ shouldStop[s], shouldStop'[s] = shouldStop[s]
  PROVE  EncoderWork(s)' = EncoderWork(s)
<1> USE DEF counts, owner, flags, muxing
<1>1. /\ added[s] = added'[s] /\ taken[s] = taken'[s] /\ sent[s] = sent'[s]
      /\ thr[s] = thr'[s]
  <2>1. main \notin {"init", "running"}
    BY DEF ToldInv
  <2>2. CASE UNCHANGED vars
    BY <2>2 DEF vars
  <2>3. CASE Owner
    BY <2>1, <2>3 DEF Owner, AddEncoder, StartFails, StartMuxer,
       StopSynchronizer, FinishEncoder, SeeFinished, StopEncoder, JoinMuxer,
       StopThread, DeleteEncoder, CloseFile
  <2>4. ASSUME NEW t \in Streams, AddFrame(t) \/ EncoderThread(t)
        PROVE  /\ added[s] = added'[s] /\ taken[s] = taken'[s]
               /\ sent[s] = sent'[s] /\ thr[s] = thr'[s]
    <3>1. EncoderThread(t) /\ t # s
      BY <2>1, <2>4 DEF AddFrame
    <3>2. /\ added \in [Streams -> Nat] /\ taken \in [Streams -> Nat]
          /\ sent \in [Streams -> Nat] /\ thr \in [Streams -> ThreadStates]
      BY DEF IInv, TypeOK
    <3>3. QED
      BY <3>1, <3>2 DEF EncoderThread, Look, TakeFrame, LeaveOrSleep,
         ReceivePacket, EncodedFrame, EncodeFails, LeaveLoop, Flushed,
         EndStream, Goto
  <2>5. CASE MuxerThread
    BY <2>5 DEF MuxerThread, ScanStream, EndScan, WritePacket, WriteFails
  <2>6. QED
    BY <2>2, <2>3, <2>4, <2>5 DEF Next
<1>2. QED
  BY <1>1 DEF EncoderWork

(* No encoder that was told to end runs for ever.                           *)
THEOREM EncodersWindDown == Spec => EncoderWindsDown
<1>1. IInv /\ IInv' /\ ToldInv /\ [Next]_vars =>
        \A s \in Streams :
          /\ shouldFinish[s] \/ shouldStop[s]
          /\ shouldStop'[s] = shouldStop[s]
          => /\ EncoderThread(s) => EncoderWork(s)' < EncoderWork(s)
             /\ EncoderWork(s)' <= EncoderWork(s)
             /\ EncoderWork(s)' >= 0
  <2>1. SUFFICES ASSUME IInv, IInv', ToldInv, [Next]_vars, NEW s \in Streams,
                        shouldFinish[s] \/ shouldStop[s],
                        shouldStop'[s] = shouldStop[s]
                 PROVE  /\ EncoderThread(s) =>
                              EncoderWork(s)' < EncoderWork(s)
                        /\ EncoderWork(s)' <= EncoderWork(s)
                        /\ EncoderWork(s)' >= 0
    OBVIOUS
  <2>2. EncoderWork(s) \in Int
    BY <2>1, WorkType
  <2>3. EncoderWork(s)' \in Int /\ EncoderWork(s)' >= 0
    BY <2>1, WorkNext
  <2>4. CASE EncoderThread(s)
    <3>1. EncoderWork(s)' < EncoderWork(s)
      BY <2>1, <2>4, OwnSteps
    <3>2. QED
      BY <2>2, <2>3, <3>1
  <2>5. CASE ~EncoderThread(s)
    BY <2>1, <2>2, <2>3, <2>5, OtherSteps
  <2>6. QED
    BY <2>4, <2>5
<1>2. QED
  BY <1>1, ToldInvariance, PTL DEF Spec, EncoderWindsDown

-----------------------------------------------------------------------------
(* The output of a recording implements the file RecordedFile.              *)

FileState == CASE muxer = "done"  -> "closed"
               [] muxer = "error" -> "broken"
               [] OTHER           -> "open"
FileLost == {s \in Streams : encError[s] \/ shouldStop[s]}

(* The file does not see a step that leaves these alone.                    *)
FileSame == /\ UNCHANGED <<encError, shouldStop, added, taken, written>>
            /\ FileState' = FileState

LEMMA SameFile == FileSame => UNCHANGED File!vars
  BY DEF FileSame, File!vars, FileState

LEMMA FileInit == Init => File!Init
  BY DEF Init, File!Init

LEMMA FileStop ==
  ASSUME IInv, NEW s \in Streams,
         shouldStop' = [shouldStop EXCEPT ![s] = TRUE],
         UNCHANGED <<encError, counts, muxer>>
  PROVE  File!Lose(s)
<1>1. shouldStop \in [Streams -> BOOLEAN]
  BY DEF IInv, TypeOK
<1>2. FileLost' = FileLost \cup {s}
  BY <1>1 DEF FileLost
<1>3. QED
  BY <1>2 DEF File!Lose, FileLost, counts

LEMMA OwnerFile == IInv /\ Owner => [File!Next]_(File!vars)
<1> SUFFICES ASSUME IInv, Owner PROVE [File!Next]_(File!vars)
  OBVIOUS
<1> USE DEF owner, flags, counts, muxing
<1>1. CASE AddEncoder \/ StartFails \/ StopSynchronizer \/ FinishEncoder
           \/ SeeFinished \/ JoinMuxer \/ DeleteEncoder \/ CloseFile
  <2>1. FileSame
    BY <1>1 DEF AddEncoder, StartFails, StopSynchronizer, FinishEncoder,
       SeeFinished, JoinMuxer, DeleteEncoder, CloseFile, FileSame, FileState
  <2>2. QED
    BY <2>1, SameFile
<1>2. CASE StartMuxer
  <2>1. FileSame
    BY <1>2 DEF StartMuxer, FileSame, FileState, IInv, OwnerInv
  <2>2. QED
    BY <2>1, SameFile
<1>3. CASE StopEncoder \/ StopThread
  <2>1. at \in Streams
    BY <1>3 DEF StopEncoder, StopThread, IInv, TypeOK, OwnerInv, Streams
  <2>2. PICK s \in Streams : s = at
    BY <2>1
  <2>3. shouldStop' = [shouldStop EXCEPT ![s] = TRUE]
    BY <1>3, <2>2 DEF StopEncoder, StopThread
  <2>4. UNCHANGED <<encError, counts, muxer>>
    BY <1>3 DEF StopEncoder, StopThread
  <2>5. File!Lose(s)
    BY <2>3, <2>4, FileStop
  <2>6. QED
    BY <2>5 DEF File!Next
<1>4. QED
  BY <1>1, <1>2, <1>3 DEF Owner

LEMMA EncoderFile ==
  ASSUME IInv, ToldInv, NEW s \in Streams, AddFrame(s) \/ EncoderThread(s)
  PROVE  [File!Next]_(File!vars)
<1> USE DEF owner, flags, counts, muxing
<1>1. CASE AddFrame(s)
  <2>1. File!Give(s)
    BY <1>1 DEF AddFrame, File!Give
  <2>2. QED
    BY <2>1 DEF File!Next
<1>2. CASE TakeFrame(s) /\ taken[s] < added[s]
  <2>1. muxer # "done"
    BY <1>2 DEF TakeFrame, IInv, ScanInv, ThreadInv
  <2>2. File!Take(s)
    BY <1>2, <2>1 DEF TakeFrame, File!Take
  <2>3. QED
    BY <2>2 DEF File!Next
<1>3. CASE EncodeFails(s)
  <2>1. encError \in [Streams -> BOOLEAN]
    BY DEF IInv, TypeOK
  <2>2. FileLost' = FileLost \cup {s}
    BY <1>3, <2>1 DEF EncodeFails, FileLost
  <2>3. File!Lose(s)
    BY <1>3, <2>2 DEF EncodeFails, File!Lose, FileLost
  <2>4. QED
    BY <2>3 DEF File!Next
<1>4. CASE \/ Look(s) \/ LeaveOrSleep(s) \/ ReceivePacket(s)
           \/ EncodedFrame(s) \/ LeaveLoop(s) \/ Flushed(s) \/ EndStream(s)
           \/ TakeFrame(s) /\ ~(taken[s] < added[s])
  <2>1. FileSame
    BY <1>4 DEF Look, LeaveOrSleep, ReceivePacket, EncodedFrame, LeaveLoop,
       Flushed, EndStream, TakeFrame, FileSame, FileState
  <2>2. QED
    BY <2>1, SameFile
<1>5. QED
  BY <1>1, <1>2, <1>3, <1>4 DEF EncoderThread

LEMMA MuxerFile == IInv /\ MuxerThread => [File!Next]_(File!vars)
<1> SUFFICES ASSUME IInv, MuxerThread PROVE [File!Next]_(File!vars)
  OBVIOUS
<1> USE DEF owner, flags, counts, muxing
<1>1. CASE ScanStream \/ (EndScan /\ streamsDone # N)
  <2>1. FileSame
    BY <1>1 DEF ScanStream, EndScan, FileSame, FileState
  <2>2. QED
    BY <2>1, SameFile
<1>2. CASE EndScan /\ streamsDone = N
  <2>1. IInv'
    BY MuxerStep
  <2>2. muxer' = "done" /\ UNCHANGED <<encError, shouldStop, counts>>
    BY <1>2 DEF EndScan
  <2>3. TakenIsWritten'
    BY <2>1 DEF IInv, TypeOK, CountInv, ThreadInv, ScanInv, TakenIsWritten,
       Streams
  <2>4. \A s \in Streams \ FileLost : written[s] = taken[s]
    BY <2>2, <2>3 DEF TakenIsWritten, FileLost
  <2>5. File!Close
    BY <1>2, <2>2, <2>4 DEF EndScan, File!Close, FileLost
  <2>6. QED
    BY <2>5 DEF File!Next
<1>3. CASE WritePacket
  <2>1. scan \in Streams
    BY <1>3 DEF WritePacket, IInv, TypeOK, ScanInv, Streams
  <2>2. written[scan] < taken[scan]
    BY <1>3, <2>1 DEF WritePacket, IInv, TypeOK, CountInv
  <2>3. File!Write(scan)
    BY <1>3, <2>2 DEF WritePacket, File!Write
  <2>4. QED
    BY <2>1, <2>3 DEF File!Next
<1>4. CASE WriteFails
  <2>1. File!Break
    BY <1>4 DEF WriteFails, File!Break
  <2>2. QED
    BY <2>1 DEF File!Next
<1>5. QED
  BY <1>1, <1>2, <1>3, <1>4 DEF MuxerThread

(* Encoders, muxer and owner, with their flags and queues, are such a file, *)
(* for any number of streams: each of their steps is a step of the file or  *)
(* is not seen by it.                                                       *)
THEOREM OutputImplementsFile == Spec => ImplementsFile
<1>1. IInv /\ ToldInv /\ [Next]_vars => [File!Next]_(File!vars)
  <2> SUFFICES ASSUME IInv, ToldInv, [Next]_vars
               PROVE  [File!Next]_(File!vars)
    OBVIOUS
  <2>1. CASE UNCHANGED vars
    <3>1. FileSame
      BY <2>1 DEF vars, FileSame, FileState, flags, counts, muxing
    <3>2. QED
      BY <3>1, SameFile
  <2>2. CASE Owner
    BY <2>2, OwnerFile
  <2>3. CASE \E s \in Streams : AddFrame(s) \/ EncoderThread(s)
    BY <2>3, EncoderFile
  <2>4. CASE MuxerThread
    BY <2>4, MuxerFile
  <2>5. QED
    BY <2>1, <2>2, <2>3, <2>4 DEF Next
<1>2. QED
  BY <1>1, FileInit, ToldInvariance, PTL DEF Spec, ImplementsFile
===============================================================================
