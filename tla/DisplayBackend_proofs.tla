----------------------- MODULE DisplayBackend_proofs -----------------------
(***************************************************************************)
(* Theorems about DisplayBackend, for every set of widgets, every set of   *)
(* ids and every number of frames.                                         *)
(***************************************************************************)
EXTENDS DisplayBackend, SequenceTheorems, TLAPS

-----------------------------------------------------------------------------
(* What the operators on a KmreDisplay return.                             *)

LEMMA NewDisplayType ==
    ASSUME NEW id \in Ids \cup {NoId}, NEW delayed \in BOOLEAN
    PROVE  NewDisplay(id, delayed) \in KmreDisplay
BY FramesAssumption DEF NewDisplay, KmreDisplay, Frame

LEMMA EnableUpdateType ==
    ASSUME NEW d \in KmreDisplay, NEW b \in BOOLEAN
    PROVE  EnableUpdate(d, b) \in KmreDisplay
BY DEF EnableUpdate, KmreDisplay

LEMMA EnablePendingType ==
    ASSUME NEW d \in KmreDisplay
    PROVE  EnablePending(d) \in KmreDisplay
BY DEF EnablePending, KmreDisplay

LEMMA FirstUpdateType ==
    ASSUME NEW d \in KmreDisplay
    PROVE  FirstUpdate(d) \in KmreDisplay
BY DEF FirstUpdate, ReadyUpdate, EnablePending, KmreDisplay

LEMMA PresentType ==
    ASSUME NEW d \in KmreDisplay, NEW f \in Frame
    PROVE  /\ Forward(d, f) \in KmreDisplay
           /\ Store(d, f) \in KmreDisplay
           /\ Present(d, f) \in KmreDisplay
BY DEF Forward, Store, Present, KmreDisplay

LEMMA UpdateType ==
    ASSUME NEW d \in KmreDisplay, NEW f \in Frame
    PROVE  Update(d, f) \in KmreDisplay
BY FirstUpdateType, PresentType DEF Update

\* The fields that connecting and the delay timer set.
LEMMA FieldsType ==
    ASSUME NEW d \in KmreDisplay, NEW id \in Ids \cup {NoId}
    PROVE  /\ [d EXCEPT !.mDisplayId = id] \in KmreDisplay
           /\ [d EXCEPT !.timer = FALSE, !.mUpdateReady = TRUE] \in KmreDisplay
<1>1. [d EXCEPT !.mDisplayId = id] \in KmreDisplay
  BY DEF KmreDisplay
<1>2. [d EXCEPT !.timer = FALSE, !.mUpdateReady = TRUE] \in KmreDisplay
  BY DEF KmreDisplay
<1> QED BY <1>1, <1>2

-----------------------------------------------------------------------------
(* Type correctness.  The decoder takes the head of mDirtyDisplays after   *)
(* it has looked at the queue, so that the queue is not empty then is part *)
(* of the invariant.                                                       *)

DecHasFrame == dec.pc \in {"forward", "store", "park"} => mDirtyDisplays # <<>>

TypeInv == TypeOK /\ DecHasFrame

LEMMA HeadTyped ==
    ASSUME TypeInv, mDirtyDisplays # <<>>
    PROVE  /\ Head(mDirtyDisplays).id \in Ids
           /\ Head(mDirtyDisplays).frame \in Frame
           /\ Tail(mDirtyDisplays) \in Seq([id : Ids, frame : Frame])
<1>1. /\ Head(mDirtyDisplays) \in [id : Ids, frame : Frame]
      /\ Tail(mDirtyDisplays) \in Seq([id : Ids, frame : Frame])
  BY HeadTailProperties DEF TypeInv, TypeOK
<1> QED BY <1>1

LEMMA ListTyped ==
    ASSUME TypeOK, NEW i \in 1 .. Len(mDisplayList)
    PROVE  /\ mDisplayList[i] \in Widgets
           /\ RemoveAt(mDisplayList, i) \in Seq(Widgets)
BY DEF TypeOK, RemoveAt

\* A display without id takes no frame; one with an id finds a frame for it.
LEMMA RedrawTyped ==
    ASSUME TypeOK, NEW w \in Widgets, RedrawMissedUpdating(w)
    PROVE  /\ display' \in [Widgets -> KmreDisplay]
           /\ mUnupdatedDisplays' \in [Ids -> Frame]
<1> DEFINE id == display[w].mDisplayId
<1>1. display[w] \in KmreDisplay /\ id \in Ids \cup {NoId}
  BY DEF TypeOK, KmreDisplay
<1>2. CASE mUnupdatedDisplays[id] = 0
  BY <1>2 DEF RedrawMissedUpdating, TypeOK
<1>3. CASE mUnupdatedDisplays[id] # 0
  <2>1. display' = [display EXCEPT
                       ![w] = Update(display[w], mUnupdatedDisplays[id])]
    BY <1>3 DEF RedrawMissedUpdating
  <2>2. Update(display[w], mUnupdatedDisplays[id]) \in KmreDisplay
    <3>1. CASE id \in Ids
      BY <1>1, <3>1, UpdateType DEF TypeOK
    <3>2. CASE id = NoId
      BY <1>1, <3>2 DEF Update, NoId
    <3> QED BY <1>1, <3>1, <3>2
  <2>3. mUnupdatedDisplays' = [mUnupdatedDisplays EXCEPT ![id] = 0]
    BY <1>3 DEF RedrawMissedUpdating
  <2>4. 0 \in Frame
    BY FramesAssumption DEF Frame
  <2> QED BY <2>1, <2>2, <2>3, <2>4 DEF TypeOK
<1> QED BY <1>2, <1>3

LEMMA TypeInit == Init => TypeInv
<1> SUFFICES ASSUME Init PROVE TypeInv
  OBVIOUS
<1>1. NewDisplay(NoId, FALSE) \in KmreDisplay
  BY NewDisplayType
<1>2. 0 \in Frame
  BY FramesAssumption DEF Frame
<1>3. /\ mDisplayList \in Seq(Widgets)
      /\ mDirtyDisplays \in Seq([id : Ids, frame : Frame])
  BY EmptySeq DEF Init
<1>4. gui = [pc |-> "idle", w |-> NoWidget] /\ dec = [pc |-> "idle", w |-> NoWidget]
  BY DEF Init, GuiIdle, DecAt
<1>5. /\ display \in [Widgets -> KmreDisplay]
      /\ mUnupdatedDisplays \in [Ids -> Frame]
  BY <1>1, <1>2 DEF Init
<1>6. /\ life \in [Widgets -> {"new", "live", "dead"}]
      /\ widgetId \in [Widgets -> Ids \cup {NoId}]
      /\ asked \in [Widgets -> BOOLEAN]
  BY DEF Init
<1>7. posted \in Frame /\ listLock = "free"
  BY <1>2 DEF Init
<1> QED BY <1>3, <1>4, <1>5, <1>6, <1>7 DEF TypeInv, TypeOK, DecHasFrame

LEMMA TypeStep == TypeInv /\ [Next]_vars => TypeInv'
<1> SUFFICES ASSUME TypeInv, [Next]_vars PROVE TypeInv'
  OBVIOUS
<1> USE DEF TypeInv, TypeOK, DecHasFrame, guiVars, queueVars
<1>1. ASSUME NEW w \in Widgets, NEW id \in Ids \cup {NoId},
             NEW delayed \in BOOLEAN, RegisterDisplay(w, id, delayed)
      PROVE  TypeInv'
  BY <1>1, NewDisplayType DEF RegisterDisplay, GuiIdle
<1>2. ASSUME NEW w \in Widgets, NEW id \in Ids, ConnectWidget(w, id)
      PROVE  TypeInv'
  BY <1>2 DEF ConnectWidget
<1>3. ASSUME NEW w \in Widgets, NEW b \in BOOLEAN, EnableDisplayUpdate(w, b)
      PROVE  TypeInv'
  BY <1>3, EnableUpdateType, ListTyped DEF EnableDisplayUpdate
<1>4. ASSUME NEW w \in Widgets, UnregisterDisplay(w)
      PROVE  TypeInv'
  <2>1. NewDisplay(NoId, FALSE) \in KmreDisplay
    BY NewDisplayType
  <2>2. ASSUME NEW i \in 1 .. Len(mDisplayList),
               display' = [display EXCEPT
                              ![mDisplayList[i]] = NewDisplay(NoId, FALSE)],
               asked' = [asked EXCEPT ![mDisplayList[i]] = FALSE],
               mDisplayList' = RemoveAt(mDisplayList, i)
        PROVE  /\ display' \in [Widgets -> KmreDisplay]
               /\ asked' \in [Widgets -> BOOLEAN]
               /\ mDisplayList' \in Seq(Widgets)
    BY <2>1, <2>2, ListTyped
  <2>3. /\ display' \in [Widgets -> KmreDisplay]
        /\ asked' \in [Widgets -> BOOLEAN]
        /\ mDisplayList' \in Seq(Widgets)
    BY <1>4, <2>2 DEF UnregisterDisplay, FirstWithId
  <2> QED BY <1>4, <2>3 DEF UnregisterDisplay
<1>5. ASSUME NEW w \in Widgets, RegisterReplay(w)
      PROVE  TypeInv'
  BY <1>5, RedrawTyped DEF RegisterReplay
<1>6. ASSUME NEW w \in Widgets, RegisterAppend(w)
      PROVE  TypeInv'
  BY <1>6 DEF RegisterAppend, GuiIdle
<1>7. ASSUME NEW w \in Widgets, ConnectDisplay(w)
      PROVE  TypeInv'
  <2>1. CASE InList(w)
    <3>1. [display[w] EXCEPT !.mDisplayId = widgetId[w]] \in KmreDisplay
      BY FieldsType
    <3>2. display' = [display EXCEPT
                         ![w] = [display[w] EXCEPT !.mDisplayId = widgetId[w]]]
      BY <1>7, <2>1 DEF ConnectDisplay
    <3>3. display' \in [Widgets -> KmreDisplay]
      BY <3>1, <3>2
    <3> QED BY <1>7, <2>1, <3>3 DEF ConnectDisplay
  <2>2. CASE ~InList(w)
    BY <1>7, <2>2 DEF ConnectDisplay, GuiIdle
  <2> QED BY <2>1, <2>2
<1>8. ASSUME NEW w \in Widgets, ConnectReplay(w)
      PROVE  TypeInv'
  BY <1>8, RedrawTyped DEF ConnectReplay, GuiIdle
<1>9. ASSUME NEW w \in Widgets, TimerReady(w)
      PROVE  TypeInv'
  <2>1. [display[w] EXCEPT !.timer = FALSE, !.mUpdateReady = TRUE]
            \in KmreDisplay
    BY FieldsType
  <2> QED BY <1>9, <2>1 DEF TimerReady
<1>10. ASSUME NEW w \in Widgets, TimerEnablePending(w)
       PROVE  TypeInv'
  BY <1>10, EnablePendingType DEF TimerEnablePending
<1>11. ASSUME NEW w \in Widgets, TimerReplay(w)
       PROVE  TypeInv'
  <2>1. Update(display[w], display[w].mMissed) \in KmreDisplay
    BY UpdateType DEF KmreDisplay
  <2> QED BY <1>11, <2>1 DEF TimerReplay, GuiIdle
<1>12. ASSUME NEW id \in Ids, AddDirtyDisplay(id)
       PROVE  TypeInv'
  BY <1>12, FramesAssumption DEF AddDirtyDisplay, Frame
<1>13. CASE UpdateDisplays
  BY <1>13 DEF UpdateDisplays, DecAt
<1>14. CASE UpdateDisplaysDone
  BY <1>14 DEF UpdateDisplaysDone, DecAt
<1>15. CASE LookUpDisplay
  BY <1>15, FirstUpdateType, ListTyped DEF LookUpDisplay, DecAt
<1>16. ASSUME NEW w \in Widgets, ForwardFrame(w)
       PROVE  TypeInv'
  BY <1>16, PresentType, HeadTyped DEF ForwardFrame, FrameDone, DecAt
<1>17. ASSUME NEW w \in Widgets, StoreFrame(w)
       PROVE  TypeInv'
  BY <1>17, PresentType, HeadTyped DEF StoreFrame, FrameDone, DecAt
<1>18. CASE ParkFrame
  BY <1>18, HeadTyped DEF ParkFrame, DecAt
<1>19. CASE UNCHANGED vars
  BY <1>19 DEF vars
<1> HIDE DEF TypeInv
<1>20. ASSUME NEW w \in Widgets, GuiCall(w)
       PROVE  TypeInv'
  BY <1>20, <1>1, <1>2, <1>3, <1>4 DEF GuiCall
<1>21. ASSUME NEW w \in Widgets, GuiStep(w)
       PROVE  TypeInv'
  BY <1>21, <1>5, <1>6, <1>7, <1>8, <1>9, <1>10, <1>11 DEF GuiStep
<1>22. CASE DecoderStep
  BY <1>22, <1>13, <1>14, <1>15, <1>16, <1>17, <1>18 DEF DecoderStep
<1> QED BY <1>12, <1>19, <1>20, <1>21, <1>22 DEF Next

\* Every variable keeps its type: the calls of the backend leave no display
\* half made, and the decoder never takes a frame from an empty queue.
THEOREM TypeCorrect == Spec => []TypeOK
<1>1. TypeInv => TypeOK
  BY DEF TypeInv
<1> QED BY <1>1, TypeInit, TypeStep, PTL DEF Spec

-----------------------------------------------------------------------------
(* Requests.  Between the two halves of readyUpdate that the delay timer   *)
(* runs, a request is either still remembered or already in force: this is *)
(* what makes GateFollowsRequest inductive.                                *)

FlagsFollow(d, b) == IF d.mUpdateReady
                     THEN d.mUpdateEnabled = b /\ d.mUpdateEnableLater = FALSE
                     ELSE d.mUpdateEnabled = FALSE /\ d.mUpdateEnableLater = b

FlagsPending(d, b) == \/ d.mUpdateEnabled = b /\ d.mUpdateEnableLater = FALSE
                      \/ d.mUpdateEnabled = FALSE /\ d.mUpdateEnableLater = b

Opening(w) == gui = [pc |-> "enablePending", w |-> w]

GateInv == \A w \in Widgets :
               IF Opening(w)
               THEN display[w].mUpdateReady /\ FlagsPending(display[w], asked[w])
               ELSE FlagsFollow(display[w], asked[w])

LEMMA EnableUpdateFlags ==
    ASSUME NEW d \in KmreDisplay, NEW b \in BOOLEAN, NEW a \in BOOLEAN,
           FlagsFollow(d, a)
    PROVE  FlagsFollow(EnableUpdate(d, b), b)
BY DEF KmreDisplay, FlagsFollow, EnableUpdate

LEMMA EnablePendingFlags ==
    ASSUME NEW d \in KmreDisplay, NEW a \in BOOLEAN,
           d.mUpdateReady, FlagsPending(d, a)
    PROVE  FlagsFollow(EnablePending(d), a)
BY DEF KmreDisplay, FlagsFollow, FlagsPending, EnablePending

LEMMA FirstUpdateFlags ==
    ASSUME NEW d \in KmreDisplay, NEW a \in BOOLEAN
    PROVE  /\ FlagsFollow(d, a) => FlagsFollow(FirstUpdate(d), a)
           /\ d.mUpdateReady /\ FlagsPending(d, a) =>
                  /\ FirstUpdate(d).mUpdateReady
                  /\ FlagsPending(FirstUpdate(d), a)
BY DEF KmreDisplay, FlagsFollow, FlagsPending, FirstUpdate, ReadyUpdate,
       EnablePending

\* The timer makes a display ready and leaves a request to be carried out.
LEMMA ReadyFlags ==
    ASSUME NEW d \in KmreDisplay, NEW a \in BOOLEAN, FlagsFollow(d, a)
    PROVE  LET e == [d EXCEPT !.timer = FALSE, !.mUpdateReady = TRUE]
           IN  e.mUpdateReady /\ FlagsPending(e, a)
BY DEF KmreDisplay, FlagsFollow, FlagsPending

SameFlags(e, d) == /\ e.mUpdateReady = d.mUpdateReady
                   /\ e.mUpdateEnabled = d.mUpdateEnabled
                   /\ e.mUpdateEnableLater = d.mUpdateEnableLater

\* Handing over a frame or keeping it touches no flag.
LEMMA PresentFlags ==
    ASSUME NEW d \in KmreDisplay, NEW f \in Frame
    PROVE  /\ SameFlags(Forward(d, f), d)
           /\ SameFlags(Store(d, f), d)
           /\ SameFlags(Present(d, f), d)
BY DEF KmreDisplay, Forward, Store, Present, SameFlags

LEMMA UpdateFlags ==
    ASSUME NEW d \in KmreDisplay, NEW f \in Frame, NEW a \in BOOLEAN,
           FlagsFollow(d, a)
    PROVE  FlagsFollow(Update(d, f), a)
<1>1. FirstUpdate(d) \in KmreDisplay /\ FlagsFollow(FirstUpdate(d), a)
  BY FirstUpdateType, FirstUpdateFlags
<1>2. FlagsFollow(Present(FirstUpdate(d), f), a)
  BY <1>1, PresentFlags DEF FlagsFollow, SameFlags
<1> QED BY <1>2 DEF Update

LEMMA RedrawFlags ==
    ASSUME TypeOK, NEW w \in Widgets, RedrawMissedUpdating(w),
           FlagsFollow(display[w], asked[w])
    PROVE  /\ FlagsFollow(display'[w], asked[w])
           /\ \A u \in Widgets \ {w} : display'[u] = display[u]
<1> DEFINE id == display[w].mDisplayId
<1>1. display[w] \in KmreDisplay /\ id \in Ids \cup {NoId} /\ asked[w] \in BOOLEAN
  BY DEF TypeOK, KmreDisplay
<1>2. CASE mUnupdatedDisplays[id] = 0
  BY <1>2 DEF RedrawMissedUpdating
<1>3. CASE mUnupdatedDisplays[id] # 0
  <2>1. display' = [display EXCEPT
                       ![w] = Update(display[w], mUnupdatedDisplays[id])]
    BY <1>3 DEF RedrawMissedUpdating
  <2>2. FlagsFollow(Update(display[w], mUnupdatedDisplays[id]), asked[w])
    <3>1. CASE id \in Ids
      BY <1>1, <3>1, UpdateFlags DEF TypeOK
    <3>2. CASE id = NoId
      BY <1>1, <3>2 DEF Update, NoId
    <3> QED BY <1>1, <3>1, <3>2
  <2> QED BY <2>1, <2>2 DEF TypeOK
<1> QED BY <1>2, <1>3

LEMMA GateInit == Init => GateInv
<1> SUFFICES ASSUME Init, NEW w \in Widgets
             PROVE  ~Opening(w) /\ FlagsFollow(display[w], asked[w])
  BY DEF GateInv
<1> QED BY DEF Init, GuiIdle, Opening, FlagsFollow, NewDisplay

LEMMA GateStep == TypeInv /\ GateInv /\ [Next]_vars => GateInv'
<1> SUFFICES ASSUME TypeInv, GateInv, [Next]_vars PROVE GateInv'
  OBVIOUS
<1> TypeOK
  BY DEF TypeInv
<1> USE DEF GateInv, Opening, guiVars, queueVars
<1>typed. ASSUME NEW w \in Widgets
          PROVE  display[w] \in KmreDisplay /\ asked[w] \in BOOLEAN
  BY DEF TypeOK
<1>1. ASSUME NEW w \in Widgets, NEW id \in Ids \cup {NoId},
             NEW delayed \in BOOLEAN, RegisterDisplay(w, id, delayed)
      PROVE  GateInv'
  <2>1. FlagsFollow(NewDisplay(id, delayed), FALSE)
    BY DEF FlagsFollow, NewDisplay
  <2> QED BY <1>1, <2>1 DEF RegisterDisplay, GuiIdle, TypeOK
<1>2. ASSUME NEW w \in Widgets, NEW id \in Ids, ConnectWidget(w, id)
      PROVE  GateInv'
  BY <1>2 DEF ConnectWidget, GuiIdle
<1>3. ASSUME NEW w \in Widgets, NEW b \in BOOLEAN, EnableDisplayUpdate(w, b)
      PROVE  GateInv'
  <2>1. PICK i \in 1 .. Len(mDisplayList) :
            /\ display' = [display EXCEPT
                              ![mDisplayList[i]] = EnableUpdate(@, b)]
            /\ asked' = [asked EXCEPT ![mDisplayList[i]] = b]
    BY <1>3 DEF EnableDisplayUpdate, FirstWithId
  <2> DEFINE u == mDisplayList[i]
  <2>2. u \in Widgets /\ ~Opening(u) /\ gui' = gui
    BY <1>3, ListTyped DEF EnableDisplayUpdate, GuiIdle
  <2>3. FlagsFollow(EnableUpdate(display[u], b), b)
    BY <2>2, <1>typed, EnableUpdateFlags
  <2> QED BY <2>1, <2>2, <2>3 DEF TypeOK
<1>4. ASSUME NEW w \in Widgets, UnregisterDisplay(w)
      PROVE  GateInv'
  <2>1. FlagsFollow(NewDisplay(NoId, FALSE), FALSE)
    BY DEF FlagsFollow, NewDisplay
  <2> QED BY <1>4, <2>1, ListTyped DEF UnregisterDisplay, GuiIdle, TypeOK
<1>5. ASSUME NEW w \in Widgets, RegisterReplay(w)
      PROVE  GateInv'
  BY <1>5, RedrawFlags DEF RegisterReplay
<1>6. ASSUME NEW w \in Widgets, RegisterAppend(w)
      PROVE  GateInv'
  BY <1>6 DEF RegisterAppend, GuiIdle
<1>7. ASSUME NEW w \in Widgets, ConnectDisplay(w)
      PROVE  GateInv'
  <2>1. CASE InList(w)
    <3> DEFINE e == [display[w] EXCEPT !.mDisplayId = widgetId[w]]
    <3>1. ~Opening(w) /\ FlagsFollow(display[w], asked[w])
      BY <1>7 DEF ConnectDisplay
    <3>2. FlagsFollow(e, asked[w])
      BY <3>1, <1>typed DEF FlagsFollow, KmreDisplay
    <3>3. display' = [display EXCEPT ![w] = e]
      BY <1>7, <2>1 DEF ConnectDisplay
    <3>4. asked' = asked /\ \A u \in Widgets : ~Opening(u)'
      BY <1>7, <2>1 DEF ConnectDisplay
    <3> HIDE DEF e
    <3> QED BY <3>1, <3>2, <3>3, <3>4, <1>7 DEF ConnectDisplay, TypeOK
  <2>2. CASE ~InList(w)
    <3>1. display' = display /\ asked' = asked
      BY <1>7, <2>2 DEF ConnectDisplay
    <3>2. \A u \in Widgets : ~Opening(u) /\ ~Opening(u)'
      <4>1. gui.pc = "find" /\ gui'.pc = "idle"
        BY <1>7, <2>2 DEF ConnectDisplay, GuiIdle
      <4> QED BY <4>1
    <3>3. \A u \in Widgets : FlagsFollow(display[u], asked[u])
      BY <3>2
    <3> QED BY <3>1, <3>2, <3>3
  <2> QED BY <2>1, <2>2
<1>8. ASSUME NEW w \in Widgets, ConnectReplay(w)
      PROVE  GateInv'
  BY <1>8, RedrawFlags DEF ConnectReplay, GuiIdle
<1>9. ASSUME NEW w \in Widgets, TimerReady(w)
      PROVE  GateInv'
  <2> DEFINE e == [display[w] EXCEPT !.timer = FALSE, !.mUpdateReady = TRUE]
  <2>typed. display[w] \in KmreDisplay /\ asked[w] \in BOOLEAN
    BY <1>typed DEF TypeOK
  <2>1. ~Opening(w) /\ FlagsFollow(display[w], asked[w])
    BY <1>9 DEF TimerReady, GuiIdle
  <2>2. e.mUpdateReady /\ FlagsPending(e, asked[w])
    BY <2>1, <2>typed, ReadyFlags
  <2>3. display' = [display EXCEPT ![w] = e]
    BY <1>9 DEF TimerReady
  <2> QED BY <1>9, <2>2, <2>3 DEF TimerReady, GuiIdle, TypeOK
<1>10. ASSUME NEW w \in Widgets, TimerEnablePending(w)
       PROVE  GateInv'
  <2>1. display[w].mUpdateReady /\ FlagsPending(display[w], asked[w])
    BY <1>10 DEF TimerEnablePending
  <2>2. FlagsFollow(EnablePending(display[w]), asked[w])
    BY <2>1, <1>typed, EnablePendingFlags
  <2>3. \A u \in Widgets \ {w} : FlagsFollow(display[u], asked[u])
    BY <1>10 DEF TimerEnablePending
  <2>4. /\ display' = [display EXCEPT ![w] = EnablePending(display[w])]
        /\ gui'.pc = "replayMissed" /\ asked' = asked
    BY <1>10 DEF TimerEnablePending, TypeOK
  <2>5. \A u \in Widgets : FlagsFollow(display'[u], asked'[u])
    BY <2>2, <2>3, <2>4 DEF TypeOK
  <2> QED BY <2>4, <2>5
<1>11. ASSUME NEW w \in Widgets, TimerReplay(w)
       PROVE  GateInv'
  <2>1. FlagsFollow(Update(display[w], display[w].mMissed), asked[w])
    BY <1>11, <1>typed, UpdateFlags DEF TimerReplay, KmreDisplay
  <2> QED BY <1>11, <2>1 DEF TimerReplay, GuiIdle, TypeOK
<1>12. ASSUME NEW id \in Ids, AddDirtyDisplay(id)
       PROVE  GateInv'
  BY <1>12 DEF AddDirtyDisplay
<1>13. CASE UpdateDisplays
  BY <1>13 DEF UpdateDisplays
<1>14. CASE UpdateDisplaysDone
  BY <1>14 DEF UpdateDisplaysDone
<1>15. CASE LookUpDisplay
  <2>1. ASSUME NEW w \in Widgets,
               display' = [display EXCEPT ![w] = FirstUpdate(display[w])],
               gui' = gui, asked' = asked
        PROVE  GateInv'
    <3>1. Opening(w) => /\ FirstUpdate(display[w]).mUpdateReady
                        /\ FlagsPending(FirstUpdate(display[w]), asked[w])
      BY <1>typed, FirstUpdateFlags
    <3>2. ~Opening(w) => FlagsFollow(FirstUpdate(display[w]), asked[w])
      BY <1>typed, FirstUpdateFlags
    <3> QED BY <2>1, <3>1, <3>2 DEF TypeOK
  <2>2. CASE display' = display
    BY <1>15, <2>2 DEF LookUpDisplay
  <2> QED BY <1>15, <2>1, <2>2, ListTyped DEF LookUpDisplay
<1>16. ASSUME NEW w \in Widgets, ForwardFrame(w)
       PROVE  GateInv'
  <2> DEFINE f == Head(mDirtyDisplays).frame
  <2>1. f \in Frame
    BY <1>16, HeadTyped DEF ForwardFrame, TypeInv, DecHasFrame
  <2>2. SameFlags(Forward(display[w], f), display[w])
    BY <2>1, <1>typed, PresentFlags
  <2> QED BY <1>16, <2>2
          DEF ForwardFrame, SameFlags, FlagsFollow, FlagsPending, TypeOK
<1>17. ASSUME NEW w \in Widgets, StoreFrame(w)
       PROVE  GateInv'
  <2> DEFINE f == Head(mDirtyDisplays).frame
  <2>1. f \in Frame
    BY <1>17, HeadTyped DEF StoreFrame, TypeInv, DecHasFrame
  <2>2. SameFlags(Store(display[w], f), display[w])
    BY <2>1, <1>typed, PresentFlags
  <2> QED BY <1>17, <2>2
          DEF StoreFrame, SameFlags, FlagsFollow, FlagsPending, TypeOK
<1>18. CASE ParkFrame
  BY <1>18 DEF ParkFrame
<1>19. CASE UNCHANGED vars
  BY <1>19 DEF vars
<1> HIDE DEF GateInv
<1>20. ASSUME NEW w \in Widgets, GuiCall(w)
       PROVE  GateInv'
  BY <1>20, <1>1, <1>2, <1>3, <1>4 DEF GuiCall
<1>21. ASSUME NEW w \in Widgets, GuiStep(w)
       PROVE  GateInv'
  BY <1>21, <1>5, <1>6, <1>7, <1>8, <1>9, <1>10, <1>11 DEF GuiStep
<1>22. CASE DecoderStep
  BY <1>22, <1>13, <1>14, <1>15, <1>16, <1>17, <1>18 DEF DecoderStep
<1> QED BY <1>12, <1>19, <1>20, <1>21, <1>22 DEF Next

LEMMA SpecInv == Spec => [](TypeInv /\ GateInv)
<1> QED BY TypeInit, TypeStep, GateInit, GateStep, PTL DEF Spec

\* A display updates exactly when its last request says so, however requests,
\* first frames and the delay timer interleave.
THEOREM RequestsHonoured == Spec => []GateFollowsRequest
<1>1. TypeInv /\ GateInv => GateFollowsRequest
  BY DEF TypeInv, TypeOK, GateInv, Opening, FlagsFollow, FlagsPending,
         GateFollowsRequest, KmreDisplay
<1> QED BY <1>1, SpecInv, PTL

-----------------------------------------------------------------------------
(* Refinement.  Every change of a display is a legal move of its gate: it  *)
(* stutters, opens, or hands over a frame that was asked for.              *)

LegalMove(d, e, a) ==
    \/ e.mUpdateReady = d.mUpdateReady /\ e.last = d.last
    \/ ~d.mUpdateReady /\ e.mUpdateReady = TRUE /\ e.last = d.last
    \/ a /\ e.mUpdateReady = TRUE /\ e.last \in Frame \ {0}

LEMMA FirstUpdateMove ==
    ASSUME NEW d \in KmreDisplay
    PROVE  LET e == FirstUpdate(d)
           IN  \/ e.mUpdateReady = d.mUpdateReady /\ e.last = d.last
               \/ ~d.mUpdateReady /\ e.mUpdateReady = TRUE /\ e.last = d.last
BY DEF KmreDisplay, FirstUpdate, ReadyUpdate, EnablePending

\* A frame passes only where updates are enabled, that is where they were
\* asked for and the display is ready.
LEMMA ForwardMove ==
    ASSUME NEW d \in KmreDisplay, NEW f \in Frame, NEW a \in BOOLEAN
    PROVE  /\ FlagsFollow(d, a) => LegalMove(d, Forward(d, f), a)
           /\ d.mUpdateReady /\ FlagsPending(d, a) =>
                  LegalMove(d, Forward(d, f), a)
BY FramesAssumption
   DEF KmreDisplay, FlagsFollow, FlagsPending, LegalMove, Forward, Frame

LEMMA UpdateMove ==
    ASSUME NEW d \in KmreDisplay, NEW f \in Frame, NEW a \in BOOLEAN,
           FlagsFollow(d, a)
    PROVE  LegalMove(d, Update(d, f), a)
<1> DEFINE r == FirstUpdate(d)
<1>1. r \in KmreDisplay /\ FlagsFollow(r, a)
  BY FirstUpdateType, FirstUpdateFlags
<1> HIDE DEF r
<1>2. LegalMove(r, Forward(r, f), a)
  BY <1>1, ForwardMove
<1>3. /\ Store(r, f).mUpdateReady = r.mUpdateReady
      /\ Store(r, f).last = r.last
  BY <1>1 DEF Store, KmreDisplay
<1>4. /\ d.mUpdateReady \in BOOLEAN /\ r.mUpdateReady \in BOOLEAN
      /\ Forward(r, f).mUpdateReady \in BOOLEAN
  BY <1>1, PresentType DEF KmreDisplay
<1>5. LegalMove(d, Present(r, f), a)
  <2>1. CASE r.mUpdateReady
    <3>1. Present(r, f) = Forward(r, f)
      BY <2>1 DEF Present
    <3> QED BY <3>1, <2>1, <1>2, <1>4, FirstUpdateMove DEF LegalMove, r
  <2>2. CASE ~r.mUpdateReady
    <3>1. Present(r, f) = Store(r, f)
      BY <2>2 DEF Present
    <3> QED BY <3>1, <2>2, <1>3, <1>4, FirstUpdateMove DEF LegalMove, r
  <2> QED BY <2>1, <2>2
<1> QED BY <1>5 DEF Update, LegalMove, r

LEMMA GateMoves ==
    ASSUME TypeOK, NEW w \in Widgets, NEW e \in KmreDisplay,
           display' = [display EXCEPT ![w] = e], asked' = asked,
           LegalMove(display[w], e, asked[w])
    PROVE  [Gate!Next]_(Gate!vars)
<1>1. display[w] \in KmreDisplay
  BY DEF TypeOK
<1>2. CASE e.mUpdateReady = display[w].mUpdateReady /\ e.last = display[w].last
  BY <1>2 DEF Gate!vars, TypeOK
<1>3. CASE /\ ~display[w].mUpdateReady
           /\ e.mUpdateReady = TRUE /\ e.last = display[w].last
  <2>1. Gate!Open(w)
    BY <1>3 DEF Gate!Open, TypeOK
  <2> QED BY <2>1 DEF Gate!Next
<1>4. CASE asked[w] /\ e.mUpdateReady = TRUE /\ e.last \in Frame \ {0}
  <2>1. Gate!Pass(w, e.last)
    BY <1>4 DEF Gate!Pass, TypeOK
  <2> QED BY <2>1, <1>4 DEF Gate!Next
<1> QED BY <1>2, <1>3, <1>4 DEF LegalMove

LEMMA RedrawMoves ==
    ASSUME TypeOK, NEW w \in Widgets, RedrawMissedUpdating(w),
           FlagsFollow(display[w], asked[w]), asked' = asked
    PROVE  [Gate!Next]_(Gate!vars)
<1> DEFINE id == display[w].mDisplayId
           e == Update(display[w], mUnupdatedDisplays[id])
<1>1. display[w] \in KmreDisplay /\ id \in Ids \cup {NoId} /\ asked[w] \in BOOLEAN
  BY DEF TypeOK, KmreDisplay
<1>2. CASE mUnupdatedDisplays[id] = 0
  BY <1>2 DEF RedrawMissedUpdating, Gate!vars
<1>3. CASE mUnupdatedDisplays[id] # 0
  <2>1. display' = [display EXCEPT ![w] = e]
    BY <1>3 DEF RedrawMissedUpdating
  <2>2. CASE id \in Ids
    <3>1. e \in KmreDisplay /\ LegalMove(display[w], e, asked[w])
      BY <1>1, <2>2, UpdateType, UpdateMove DEF TypeOK
    <3> QED BY <2>1, <3>1, GateMoves
  <2>3. CASE id = NoId
    <3>1. e = display[w]
      BY <2>3 DEF Update, NoId
    <3> HIDE DEF e
    <3> QED BY <2>1, <3>1, <1>1, GateMoves DEF LegalMove
  <2> QED BY <1>1, <2>2, <2>3
<1> QED BY <1>2, <1>3

LEMMA GateRefinedInit == Init => Gate!Init
BY DEF Init, Gate!Init, NewDisplay

LEMMA GateRefinedStep ==
    TypeInv /\ GateInv /\ [Next]_vars => [Gate!Next]_(Gate!vars)
<1> SUFFICES ASSUME TypeInv, GateInv, [Next]_vars
             PROVE  [Gate!Next]_(Gate!vars)
  OBVIOUS
<1> TypeOK
  BY DEF TypeInv
<1> USE DEF guiVars, queueVars
<1>typed. ASSUME NEW w \in Widgets
          PROVE  display[w] \in KmreDisplay /\ asked[w] \in BOOLEAN
  BY DEF TypeOK
<1>flags. ASSUME NEW w \in Widgets
          PROVE  /\ ~Opening(w) => FlagsFollow(display[w], asked[w])
                 /\ Opening(w) => /\ display[w].mUpdateReady
                                  /\ FlagsPending(display[w], asked[w])
  BY DEF GateInv
<1>same. ASSUME display' = display, asked' = asked
         PROVE  [Gate!Next]_(Gate!vars)
  BY <1>same DEF Gate!vars
<1>1. ASSUME NEW w \in Widgets, NEW id \in Ids \cup {NoId},
             NEW delayed \in BOOLEAN, RegisterDisplay(w, id, delayed)
      PROVE  [Gate!Next]_(Gate!vars)
  <2>1. Gate!Replace(w)
    BY <1>1 DEF RegisterDisplay, NewDisplay, Gate!Replace, TypeOK
  <2> QED BY <2>1 DEF Gate!Next
<1>2. ASSUME NEW w \in Widgets, NEW id \in Ids, ConnectWidget(w, id)
      PROVE  [Gate!Next]_(Gate!vars)
  BY <1>2, <1>same DEF ConnectWidget
<1>3. ASSUME NEW w \in Widgets, NEW b \in BOOLEAN, EnableDisplayUpdate(w, b)
      PROVE  [Gate!Next]_(Gate!vars)
  <2>1. PICK i \in 1 .. Len(mDisplayList) :
            /\ display' = [display EXCEPT
                              ![mDisplayList[i]] = EnableUpdate(@, b)]
            /\ asked' = [asked EXCEPT ![mDisplayList[i]] = b]
    BY <1>3 DEF EnableDisplayUpdate, FirstWithId
  <2> DEFINE u == mDisplayList[i]
  <2>2. u \in Widgets
    BY ListTyped
  <2>3. /\ EnableUpdate(display[u], b).mUpdateReady = display[u].mUpdateReady
        /\ EnableUpdate(display[u], b).last = display[u].last
    BY <2>2, <1>typed DEF EnableUpdate, KmreDisplay
  <2>4. Gate!Request(u, b)
    BY <2>1, <2>2, <2>3 DEF Gate!Request, TypeOK
  <2> QED BY <2>2, <2>4 DEF Gate!Next
<1>4. ASSUME NEW w \in Widgets, UnregisterDisplay(w)
      PROVE  [Gate!Next]_(Gate!vars)
  <2>1. CASE UNCHANGED <<display, asked, mDisplayList>>
    BY <2>1, <1>same
  <2>2. ASSUME NEW i \in 1 .. Len(mDisplayList),
               display' = [display EXCEPT
                              ![mDisplayList[i]] = NewDisplay(NoId, FALSE)],
               asked' = [asked EXCEPT ![mDisplayList[i]] = FALSE]
        PROVE  [Gate!Next]_(Gate!vars)
    <3>1. PICK u \in Widgets : u = mDisplayList[i]
      BY ListTyped
    <3>2. Gate!Replace(u)
      BY <2>2, <3>1 DEF NewDisplay, Gate!Replace, TypeOK
    <3> QED BY <3>2 DEF Gate!Next
  <2> QED BY <1>4, <2>1, <2>2 DEF UnregisterDisplay, FirstWithId
<1>5. ASSUME NEW w \in Widgets, RegisterReplay(w)
      PROVE  [Gate!Next]_(Gate!vars)
  BY <1>5, <1>flags, RedrawMoves DEF RegisterReplay, Opening
<1>6. ASSUME NEW w \in Widgets, RegisterAppend(w)
      PROVE  [Gate!Next]_(Gate!vars)
  BY <1>6, <1>same DEF RegisterAppend
<1>7. ASSUME NEW w \in Widgets, ConnectDisplay(w)
      PROVE  [Gate!Next]_(Gate!vars)
  <2> DEFINE e == [display[w] EXCEPT !.mDisplayId = widgetId[w]]
  <2>1. e \in KmreDisplay /\ LegalMove(display[w], e, asked[w])
    BY <1>typed DEF KmreDisplay, LegalMove, TypeOK
  <2>2. asked' = asked
    BY <1>7 DEF ConnectDisplay
  <2>3. CASE display' = [display EXCEPT ![w] = e]
    <3> HIDE DEF e
    <3> QED BY <2>1, <2>2, <2>3, GateMoves
  <2>4. CASE display' = display
    BY <2>2, <2>4, <1>same
  <2> QED BY <1>7, <2>3, <2>4 DEF ConnectDisplay
<1>8. ASSUME NEW w \in Widgets, ConnectReplay(w)
      PROVE  [Gate!Next]_(Gate!vars)
  BY <1>8, <1>flags, RedrawMoves DEF ConnectReplay, Opening
<1>9. ASSUME NEW w \in Widgets, TimerReady(w)
      PROVE  [Gate!Next]_(Gate!vars)
  <2> DEFINE e == [display[w] EXCEPT !.timer = FALSE, !.mUpdateReady = TRUE]
  <2>1. e \in KmreDisplay /\ LegalMove(display[w], e, asked[w])
    BY <1>typed DEF KmreDisplay, LegalMove
  <2>2. asked' = asked /\ display' = [display EXCEPT ![w] = e]
    BY <1>9 DEF TimerReady
  <2> HIDE DEF e
  <2> QED BY <2>1, <2>2, GateMoves
<1>10. ASSUME NEW w \in Widgets, TimerEnablePending(w)
       PROVE  [Gate!Next]_(Gate!vars)
  <2> DEFINE e == EnablePending(display[w])
  <2>1. e \in KmreDisplay /\ LegalMove(display[w], e, asked[w])
    BY <1>typed, EnablePendingType DEF EnablePending, KmreDisplay, LegalMove
  <2>2. asked' = asked /\ display' = [display EXCEPT ![w] = e]
    BY <1>10 DEF TimerEnablePending
  <2> HIDE DEF e
  <2> QED BY <2>1, <2>2, GateMoves
<1>11. ASSUME NEW w \in Widgets, TimerReplay(w)
       PROVE  [Gate!Next]_(Gate!vars)
  <2> DEFINE e == Update(display[w], display[w].mMissed)
  <2>1. display[w].mMissed \in Frame /\ FlagsFollow(display[w], asked[w])
    BY <1>11, <1>typed, <1>flags DEF TimerReplay, Opening, KmreDisplay
  <2>2. e \in KmreDisplay /\ LegalMove(display[w], e, asked[w])
    BY <1>typed, <2>1, UpdateType, UpdateMove
  <2>3. asked' = asked /\ display' = [display EXCEPT ![w] = e]
    BY <1>11 DEF TimerReplay
  <2> HIDE DEF e
  <2> QED BY <2>2, <2>3, GateMoves
<1>12. ASSUME NEW id \in Ids, AddDirtyDisplay(id)
       PROVE  [Gate!Next]_(Gate!vars)
  BY <1>12, <1>same DEF AddDirtyDisplay
<1>13. CASE UpdateDisplays \/ UpdateDisplaysDone \/ ParkFrame
  BY <1>13, <1>same DEF UpdateDisplays, UpdateDisplaysDone, ParkFrame
<1>14. CASE LookUpDisplay
  <2>1. CASE display' = display
    BY <1>14, <2>1, <1>same DEF LookUpDisplay
  <2>2. ASSUME NEW i \in 1 .. Len(mDisplayList),
               display' = [display EXCEPT ![mDisplayList[i]] =
                               FirstUpdate(display[mDisplayList[i]])]
        PROVE  [Gate!Next]_(Gate!vars)
    <3> DEFINE u == mDisplayList[i]
               e == FirstUpdate(display[u])
    <3>1. u \in Widgets /\ asked' = asked
      BY <1>14, ListTyped DEF LookUpDisplay
    <3>2. e \in KmreDisplay /\ LegalMove(display[u], e, asked[u])
      BY <3>1, <1>typed, FirstUpdateType, FirstUpdateMove DEF LegalMove
    <3> HIDE DEF e
    <3> QED BY <2>2, <3>1, <3>2, GateMoves DEF e
  <2> QED BY <1>14, <2>1, <2>2 DEF LookUpDisplay, FirstWithId
<1>15. ASSUME NEW w \in Widgets, ForwardFrame(w)
       PROVE  [Gate!Next]_(Gate!vars)
  <2> DEFINE e == Forward(display[w], Head(mDirtyDisplays).frame)
  <2>1. Head(mDirtyDisplays).frame \in Frame
    BY <1>15, HeadTyped DEF ForwardFrame, TypeInv, DecHasFrame
  <2>2. e \in KmreDisplay
    BY <2>1, <1>typed, PresentType
  <2>3. LegalMove(display[w], e, asked[w])
    <3>1. CASE Opening(w)
      BY <3>1, <2>1, <1>typed, <1>flags, ForwardMove
    <3>2. CASE ~Opening(w)
      BY <3>2, <2>1, <1>typed, <1>flags, ForwardMove
    <3> QED BY <3>1, <3>2
  <2>4. asked' = asked /\ display' = [display EXCEPT ![w] = e]
    BY <1>15 DEF ForwardFrame
  <2> HIDE DEF e
  <2> QED BY <2>2, <2>3, <2>4, GateMoves
<1>16. ASSUME NEW w \in Widgets, StoreFrame(w)
       PROVE  [Gate!Next]_(Gate!vars)
  <2> DEFINE e == Store(display[w], Head(mDirtyDisplays).frame)
  <2>1. Head(mDirtyDisplays).frame \in Frame
    BY <1>16, HeadTyped DEF StoreFrame, TypeInv, DecHasFrame
  <2>2. e \in KmreDisplay /\ LegalMove(display[w], e, asked[w])
    BY <2>1, <1>typed, PresentType DEF Store, KmreDisplay, LegalMove
  <2>3. asked' = asked /\ display' = [display EXCEPT ![w] = e]
    BY <1>16 DEF StoreFrame
  <2> HIDE DEF e
  <2> QED BY <2>2, <2>3, GateMoves
<1>17. CASE UNCHANGED vars
  BY <1>17, <1>same DEF vars
<1>18. ASSUME NEW w \in Widgets, GuiCall(w)
       PROVE  [Gate!Next]_(Gate!vars)
  BY <1>18, <1>1, <1>2, <1>3, <1>4 DEF GuiCall
<1>19. ASSUME NEW w \in Widgets, GuiStep(w)
       PROVE  [Gate!Next]_(Gate!vars)
  BY <1>19, <1>5, <1>6, <1>7, <1>8, <1>9, <1>10, <1>11 DEF GuiStep
<1>20. CASE DecoderStep
  BY <1>20, <1>13, <1>14, <1>15, <1>16 DEF DecoderStep
<1> QED BY <1>12, <1>17, <1>18, <1>19, <1>20 DEF Next

\* The display backend implements FrameGate: locks, delay timer and flags
\* together hand a frame to a renderer only through an open gate of a display
\* whose last request was to be updated.
THEOREM BackendImplementsGate == Spec => ImplementsGate
<1> QED BY SpecInv, GateRefinedInit, GateRefinedStep, PTL DEF Spec, ImplementsGate

-----------------------------------------------------------------------------
(* Identities.  A display is registered before it is in the list, keeps its *)
(* id while it is there, and gives it up with its widget.                   *)

\* registerDisplay has made the display and not entered it yet.
Pending(w) == gui.w = w /\ gui.pc \in {"replayNew", "append"}

\* Nobody is in the list twice.
ListedOnce == \A i, j \in 1 .. Len(mDisplayList) :
                  mDisplayList[i] = mDisplayList[j] => i = j

\* Two living widgets have different Android ids.
IdsApart == \A v, w \in Widgets :
                /\ life[v] = "live" /\ life[w] = "live"
                /\ widgetId[v] = widgetId[w] /\ widgetId[w] # NoId
                => v = w

\* A display with an id is in the list or about to be, and has the id of its
\* living widget.
IdFollows == \A w \in Widgets :
                 display[w].mDisplayId # NoId =>
                     /\ InList(w) \/ Pending(w)
                     /\ life[w] = "live"
                     /\ widgetId[w] = display[w].mDisplayId

IdInv == /\ ListedOnce /\ IdsApart /\ IdFollows
         /\ \A w \in Widgets : InList(w) \/ Pending(w) => life[w] # "new"
         /\ \A w \in Widgets : Pending(w) => ~InList(w)
         /\ gui.pc \in {"find", "replayNew", "append"} =>
                gui.w \in Widgets /\ life[gui.w] = "live"

-----------------------------------------------------------------------------
(* What the list of displays becomes.                                       *)

LEMMA AppendListed ==
    ASSUME NEW w \in Widgets, mDisplayList \in Seq(Widgets),
           mDisplayList' = Append(mDisplayList, w)
    PROVE  /\ \A v \in Widgets : InList(v)' <=> InList(v) \/ v = w
           /\ ListedOnce /\ ~InList(w) => ListedOnce'
<1> DEFINE s == mDisplayList
           n == Len(s)
<1>1. /\ n \in Nat /\ Len(mDisplayList') = n + 1
      /\ \A i \in 1 .. n : mDisplayList'[i] = s[i]
      /\ mDisplayList'[n + 1] = w
  OBVIOUS
<1>2. \A i \in 1 .. (n + 1) : i \in 1 .. n \/ i = n + 1
  BY <1>1
<1>3. \A i \in 1 .. n : i \in 1 .. (n + 1)
  BY <1>1
<1>4. n + 1 \in 1 .. (n + 1)
  BY <1>1
<1> HIDE DEF n, s
<1>5. \A v \in Widgets : InList(v)' <=> InList(v) \/ v = w
  BY <1>1, <1>2, <1>3, <1>4 DEF InList, n, s
<1>6. ListedOnce /\ ~InList(w) => ListedOnce'
  BY <1>1, <1>2 DEF ListedOnce, InList, n, s
<1> QED BY <1>5, <1>6

\* Where the elements of a list go when one is removed.
LEMMA RemoveAtElements ==
    ASSUME NEW s \in Seq(Widgets), NEW k \in 1 .. Len(s)
    PROVE  /\ RemoveAt(s, k) \in Seq(Widgets)
           /\ Len(RemoveAt(s, k)) = Len(s) - 1
           /\ \A i \in 1 .. (Len(s) - 1) :
                  RemoveAt(s, k)[i] = s[IF i < k THEN i ELSE i + 1]
<1> DEFINE a == SubSeq(s, 1, k - 1)
           b == SubSeq(s, k + 1, Len(s))
<1>1. /\ a \in Seq(Widgets) /\ Len(a) = k - 1
      /\ \A i \in 1 .. (k - 1) : a[i] = s[i]
  OBVIOUS
<1>2. /\ b \in Seq(Widgets) /\ Len(b) = Len(s) - k
      /\ \A i \in 1 .. (Len(s) - k) : b[i] = s[i + k]
  OBVIOUS
<1>3. RemoveAt(s, k) = a \o b
  BY DEF RemoveAt
<1>4. Len(s) \in Nat /\ k \in Nat /\ k >= 1 /\ k <= Len(s)
  OBVIOUS
<1> HIDE DEF a, b
<1>5. a \o b \in Seq(Widgets) /\ Len(a \o b) = Len(s) - 1
  <2>1. a \o b \in Seq(Widgets) /\ Len(a \o b) = Len(a) + Len(b)
    BY <1>1, <1>2, ConcatProperties
  <2>2. Len(a) + Len(b) = Len(s) - 1
    BY <1>1, <1>2, <1>4
  <2> QED BY <2>1, <2>2
<1>6. ASSUME NEW i \in 1 .. (Len(s) - 1)
      PROVE  (a \o b)[i] = s[IF i < k THEN i ELSE i + 1]
  <2>1. CASE i < k
    BY <1>1, <1>2, <1>4, <2>1
  <2>2. CASE ~(i < k)
    <3>1. i - (k - 1) \in 1 .. (Len(s) - k) /\ (i - (k - 1)) + k = i + 1
      BY <1>4, <2>2
    <3>2. (a \o b)[i] = b[i - (k - 1)]
      BY <1>1, <1>2, <1>4, <2>2
    <3> QED BY <1>2, <2>2, <3>1, <3>2
  <2> QED BY <2>1, <2>2
<1> QED BY <1>3, <1>5, <1>6

LEMMA RemoveListed ==
    ASSUME mDisplayList \in Seq(Widgets), ListedOnce,
           NEW k \in 1 .. Len(mDisplayList),
           mDisplayList' = RemoveAt(mDisplayList, k)
    PROVE  /\ \A v \in Widgets : InList(v)' <=> InList(v) /\ v # mDisplayList[k]
           /\ ListedOnce'
<1> DEFINE s == mDisplayList
           n == Len(s)
           at(i) == IF i < k THEN i ELSE i + 1
<1>1. /\ n \in Nat /\ Len(mDisplayList') = n - 1
      /\ \A i \in 1 .. (n - 1) : mDisplayList'[i] = s[at(i)]
      /\ k \in Nat /\ k >= 1 /\ k <= n
  BY RemoveAtElements
<1>2. \A i \in 1 .. (n - 1) : at(i) \in 1 .. n /\ at(i) # k
  BY <1>1
<1>3. \A i \in 1 .. n : i # k => \E j \in 1 .. (n - 1) : at(j) = i
  <2> SUFFICES ASSUME NEW i \in 1 .. n, i # k
               PROVE  \E j \in 1 .. (n - 1) : at(j) = i
    OBVIOUS
  <2>1. CASE i < k
    <3>1. i \in 1 .. (n - 1) /\ at(i) = i
      BY <1>1, <2>1
    <3> QED BY <3>1
  <2>2. CASE ~(i < k)
    <3>1. i - 1 \in 1 .. (n - 1) /\ at(i - 1) = i
      BY <1>1, <2>2
    <3> QED BY <3>1
  <2> QED BY <2>1, <2>2
<1>4. \A i, j \in 1 .. (n - 1) : at(i) = at(j) => i = j
  BY <1>1
<1> HIDE DEF at, n, s
<1>5. ASSUME NEW v \in Widgets
      PROVE  InList(v)' <=> InList(v) /\ v # mDisplayList[k]
  <2>1. InList(v)' <=> \E i \in 1 .. (n - 1) : s[at(i)] = v
    BY <1>1 DEF InList
  <2>2. InList(v) <=> \E i \in 1 .. n : s[i] = v
    BY DEF InList, n, s
  <2>3. \A i, j \in 1 .. n : s[i] = s[j] => i = j
    BY DEF ListedOnce, n, s
  <2>4. k \in 1 .. n /\ mDisplayList[k] = s[k]
    BY DEF n, s
  <2> QED BY <1>2, <1>3, <2>1, <2>2, <2>3, <2>4
<1>6. ListedOnce'
  <2>1. \A i, j \in 1 .. n : s[i] = s[j] => i = j
    BY DEF ListedOnce, n, s
  <2> QED BY <1>1, <1>2, <1>4, <2>1 DEF ListedOnce
<1> QED BY <1>5, <1>6

\* The operators on a KmreDisplay leave its id and its delay alone; only a
\* frame that is handed over changes the last one.
LEMMA SameIdentity ==
    ASSUME NEW d \in KmreDisplay, NEW b \in BOOLEAN, NEW f \in Frame
    PROVE  /\ \A e \in {EnableUpdate(d, b), EnablePending(d), FirstUpdate(d),
                        Forward(d, f), Store(d, f), Update(d, f)} :
                  e.mDisplayId = d.mDisplayId /\ e.mDelayed = d.mDelayed
           /\ \A e \in {EnableUpdate(d, b), EnablePending(d), FirstUpdate(d),
                        Store(d, f)} :
                  e.last = d.last
<1>1. /\ EnableUpdate(d, b).mDisplayId = d.mDisplayId
      /\ EnableUpdate(d, b).mDelayed = d.mDelayed
      /\ EnableUpdate(d, b).last = d.last
  BY DEF EnableUpdate, KmreDisplay
<1>2. ASSUME NEW x \in KmreDisplay
      PROVE  /\ EnablePending(x).mDisplayId = x.mDisplayId
             /\ EnablePending(x).mDelayed = x.mDelayed
             /\ EnablePending(x).last = x.last
  BY DEF EnablePending, KmreDisplay
<1>3. /\ FirstUpdate(d).mDisplayId = d.mDisplayId
      /\ FirstUpdate(d).mDelayed = d.mDelayed
      /\ FirstUpdate(d).last = d.last
  BY DEF FirstUpdate, ReadyUpdate, EnablePending, KmreDisplay
<1>4. ASSUME NEW x \in KmreDisplay
      PROVE  /\ Forward(x, f).mDisplayId = x.mDisplayId
             /\ Forward(x, f).mDelayed = x.mDelayed
             /\ Store(x, f).mDisplayId = x.mDisplayId
             /\ Store(x, f).mDelayed = x.mDelayed
             /\ Store(x, f).last = x.last
  BY DEF Forward, Store, KmreDisplay
<1>5. FirstUpdate(d) \in KmreDisplay
  BY FirstUpdateType
<1>6. /\ Update(d, f).mDisplayId = d.mDisplayId
      /\ Update(d, f).mDelayed = d.mDelayed
  BY <1>3, <1>4, <1>5 DEF Update, Present
<1> QED BY <1>1, <1>2, <1>3, <1>4, <1>6

-----------------------------------------------------------------------------
(* Every step keeps the identities.                                         *)

SameIds == \A w \in Widgets : display'[w].mDisplayId = display[w].mDisplayId

\* Most steps touch neither the list nor an id nor who is being registered.
LEMMA IdsKept ==
    ASSUME IdInv, SameIds, UNCHANGED <<life, widgetId, mDisplayList>>,
           \A w \in Widgets : Pending(w)' <=> Pending(w),
           gui'.pc \in {"find", "replayNew", "append"} =>
               gui'.w \in Widgets /\ life[gui'.w] = "live"
    PROVE  IdInv'
<1>1. \A w \in Widgets : InList(w)' <=> InList(w)
  BY DEF InList
<1>2. ListedOnce' /\ IdsApart'
  BY DEF IdInv, ListedOnce, IdsApart
<1>3. IdFollows'
  BY <1>1 DEF IdInv, IdFollows, SameIds
<1> QED BY <1>1, <1>2, <1>3 DEF IdInv

LEMMA RedrawIds ==
    ASSUME TypeOK, NEW w \in Widgets, RedrawMissedUpdating(w)
    PROVE  SameIds
<1> DEFINE id == display[w].mDisplayId
           e == Update(display[w], mUnupdatedDisplays[id])
<1>1. display[w] \in KmreDisplay /\ id \in Ids \cup {NoId}
  BY DEF TypeOK, KmreDisplay
<1>2. CASE mUnupdatedDisplays[id] = 0
  BY <1>2 DEF RedrawMissedUpdating, SameIds
<1>3. CASE mUnupdatedDisplays[id] # 0
  <2>1. e.mDisplayId = id
    <3>1. CASE id \in Ids
      BY <1>1, <3>1, SameIdentity DEF TypeOK
    <3>2. CASE id = NoId
      BY <3>2 DEF Update, NoId
    <3> QED BY <1>1, <3>1, <3>2
  <2>2. display' = [display EXCEPT ![w] = e]
    BY <1>3 DEF RedrawMissedUpdating
  <2> HIDE DEF e
  <2> QED BY <2>1, <2>2 DEF TypeOK, SameIds
<1> QED BY <1>2, <1>3

LEMMA RegisterIds ==
    ASSUME TypeOK, IdInv, NEW w \in Widgets, NEW id \in Ids \cup {NoId},
           NEW delayed \in BOOLEAN, RegisterDisplay(w, id, delayed)
    PROVE  IdInv'
<1>1. /\ gui.pc = "idle" /\ life[w] = "new" /\ (id # NoId => Unused(id))
      /\ life' = [life EXCEPT ![w] = "live"]
      /\ widgetId' = [widgetId EXCEPT ![w] = id]
      /\ display' = [display EXCEPT ![w] = NewDisplay(id, delayed)]
      /\ gui'.w = w /\ gui'.pc \in {"append", "replayNew"}
      /\ mDisplayList' = mDisplayList
  BY DEF RegisterDisplay, GuiIdle
<1>2. ~InList(w) /\ \A v \in Widgets : ~Pending(v) /\ (InList(v)' <=> InList(v))
  BY <1>1 DEF IdInv, InList, Pending
<1>3. \A v \in Widgets : Pending(v)' <=> v = w
  BY <1>1 DEF Pending
<1>4. display'[w].mDisplayId = id
  BY <1>1 DEF NewDisplay, TypeOK
<1>5. ListedOnce'
  BY <1>1 DEF IdInv, ListedOnce
<1>6. IdsApart'
  BY <1>1 DEF IdInv, IdsApart, Unused, TypeOK
<1>7. IdFollows'
  BY <1>1, <1>2, <1>3, <1>4 DEF IdInv, IdFollows, TypeOK
<1> QED BY <1>1, <1>2, <1>3, <1>5, <1>6, <1>7 DEF IdInv, TypeOK

LEMMA AppendIds ==
    ASSUME TypeOK, IdInv, NEW w \in Widgets, RegisterAppend(w)
    PROVE  IdInv'
<1>1. /\ gui.pc = "append" /\ gui.w = w /\ gui'.pc = "idle"
      /\ mDisplayList' = Append(mDisplayList, w)
      /\ UNCHANGED <<life, widgetId, display>>
  BY DEF RegisterAppend, GuiIdle
<1>2. Pending(w) /\ ~InList(w) /\ life[w] = "live"
  BY <1>1 DEF Pending, IdInv
<1>3. /\ \A v \in Widgets : InList(v)' <=> InList(v) \/ v = w
      /\ ListedOnce'
  BY <1>1, <1>2, AppendListed DEF TypeOK, IdInv
<1>4. \A v \in Widgets : ~Pending(v)' /\ (Pending(v) => v = w)
  BY <1>1 DEF Pending
<1>5. IdsApart'
  BY <1>1 DEF IdInv, IdsApart
<1>6. IdFollows'
  BY <1>1, <1>3, <1>4 DEF IdInv, IdFollows
<1> QED BY <1>1, <1>2, <1>3, <1>4, <1>5, <1>6 DEF IdInv

LEMMA ConnectWidgetIds ==
    ASSUME TypeOK, IdInv, NEW w \in Widgets, NEW id \in Ids, ConnectWidget(w, id)
    PROVE  IdInv'
<1>1. /\ gui.pc = "idle" /\ life[w] = "live" /\ widgetId[w] = NoId /\ Unused(id)
      /\ widgetId' = [widgetId EXCEPT ![w] = id]
      /\ gui'.pc = "find" /\ gui'.w = w
      /\ UNCHANGED <<life, display, mDisplayList>>
  BY DEF ConnectWidget, GuiIdle
<1>2. \A v \in Widgets : ~Pending(v) /\ ~Pending(v)' /\ (InList(v)' <=> InList(v))
  BY <1>1 DEF Pending, InList
<1>3. display[w].mDisplayId = NoId
  BY <1>1 DEF IdInv, IdFollows
<1>4. IdsApart' /\ ListedOnce'
  BY <1>1 DEF IdInv, IdsApart, ListedOnce, Unused, TypeOK
<1>5. IdFollows'
  BY <1>1, <1>2, <1>3 DEF IdInv, IdFollows, TypeOK
<1> QED BY <1>1, <1>2, <1>4, <1>5 DEF IdInv

LEMMA ConnectDisplayIds ==
    ASSUME TypeOK, IdInv, NEW w \in Widgets, ConnectDisplay(w)
    PROVE  IdInv'
<1>1. /\ gui.pc = "find" /\ gui.w = w /\ gui'.pc \in {"idle", "replay"}
      /\ UNCHANGED <<life, widgetId, mDisplayList>>
  BY DEF ConnectDisplay, GuiIdle
<1>2. \A v \in Widgets : ~Pending(v) /\ ~Pending(v)' /\ (InList(v)' <=> InList(v))
  BY <1>1 DEF Pending, InList
<1>3. CASE ~InList(w)
  <2>1. display' = display
    BY <1>3 DEF ConnectDisplay
  <2> QED BY <1>1, <1>2, <2>1, IdsKept DEF SameIds
<1>4. CASE InList(w)
  <2>1. display' = [display EXCEPT
                       ![w] = [display[w] EXCEPT !.mDisplayId = widgetId[w]]]
    BY <1>4 DEF ConnectDisplay
  <2>2. display'[w].mDisplayId = widgetId[w]
    BY <2>1 DEF TypeOK, KmreDisplay
  <2>3. IdsApart' /\ ListedOnce'
    BY <1>1 DEF IdInv, IdsApart, ListedOnce
  <2>4. life[w] = "live"
    BY <1>1 DEF IdInv
  <2>5. \A v \in Widgets : v # w => display'[v] = display[v]
    BY <2>1 DEF TypeOK
  <2>6. IdFollows'
    BY <1>1, <1>2, <1>4, <2>2, <2>4, <2>5 DEF IdInv, IdFollows
  <2> QED BY <1>1, <1>2, <2>3, <2>6 DEF IdInv
<1> QED BY <1>3, <1>4

\* What leaves the list with a widget is its own display, or one without id.
LEMMA UnregisterIds ==
    ASSUME TypeOK, IdInv, NEW w \in Widgets, UnregisterDisplay(w)
    PROVE  /\ IdInv'
           /\ \A v \in Widgets :
                  /\ InList(v) /\ display[v].mDisplayId # NoId
                  /\ life'[v] = "live"
                  => InList(v)'
<1>1. /\ gui.pc = "idle" /\ life[w] = "live" /\ gui' = gui
      /\ life' = [life EXCEPT ![w] = "dead"]
      /\ widgetId' = widgetId
  BY DEF UnregisterDisplay, GuiIdle
<1>2. \A v \in Widgets : ~Pending(v) /\ ~Pending(v)'
  BY <1>1 DEF Pending
<1>3. \A v \in Widgets : life'[v] = "live" => v # w /\ life[v] = "live"
  BY <1>1 DEF TypeOK
<1>4. IdsApart'
  BY <1>1, <1>3 DEF IdInv, IdsApart
<1>5. CASE NoneWithId(widgetId[w]) /\ UNCHANGED <<display, asked, mDisplayList>>
  <2>1. \A v \in Widgets : InList(v)' <=> InList(v)
    BY <1>5 DEF InList
  <2>2. InList(w) => display[w].mDisplayId # widgetId[w]
    BY <1>5 DEF InList, NoneWithId, HasId
  <2>3. display[w].mDisplayId = NoId
    BY <1>2, <2>2 DEF IdInv, IdFollows
  <2>4. ListedOnce'
    BY <1>5 DEF IdInv, ListedOnce
  <2>5. IdFollows'
    BY <1>1, <1>2, <1>5, <2>1, <2>3 DEF IdInv, IdFollows, TypeOK
  <2> QED BY <1>1, <1>2, <1>4, <2>1, <2>4, <2>5 DEF IdInv, TypeOK
<1>6. ASSUME NEW i \in 1 .. Len(mDisplayList), FirstWithId(i, widgetId[w]),
             display' = [display EXCEPT
                            ![mDisplayList[i]] = NewDisplay(NoId, FALSE)],
             mDisplayList' = RemoveAt(mDisplayList, i)
      PROVE  /\ IdInv'
             /\ \A v \in Widgets :
                    /\ InList(v) /\ display[v].mDisplayId # NoId
                    /\ life'[v] = "live"
                    => InList(v)'
  <2> DEFINE u == mDisplayList[i]
  <2>1. u \in Widgets /\ InList(u) /\ display[u].mDisplayId = widgetId[w]
    BY <1>6, ListTyped DEF InList, FirstWithId, HasId
  <2>2. /\ \A v \in Widgets : InList(v)' <=> InList(v) /\ v # u
        /\ ListedOnce'
    BY <1>6, RemoveListed DEF TypeOK, IdInv
  <2>3. display[u].mDisplayId # NoId => u = w
    BY <1>1, <2>1 DEF IdInv, IdFollows, IdsApart
  <2>4. display'[u].mDisplayId = NoId
    BY <1>6, <2>1 DEF TypeOK, NewDisplay
  <2>5. \A v \in Widgets : v # u => display'[v] = display[v]
    BY <1>6 DEF TypeOK
  <2>6. display'[w].mDisplayId = NoId
    <3>1. CASE u = w
      BY <2>4, <3>1
    <3>2. CASE u # w
      <4>1. widgetId[w] = NoId
        BY <2>1, <2>3, <3>2
      <4>2. display[w].mDisplayId = NoId
        BY <4>1 DEF IdInv, IdFollows
      <4> QED BY <2>5, <3>2, <4>2
    <3> QED BY <3>1, <3>2
  <2> HIDE DEF u
  <2>7. IdFollows'
    BY <1>1, <1>2, <2>2, <2>4, <2>5, <2>6 DEF IdInv, IdFollows, TypeOK
  <2>8. IdInv'
    BY <1>1, <1>2, <1>4, <2>2, <2>7 DEF IdInv, TypeOK
  <2> QED BY <1>3, <2>2, <2>3, <2>8
<1> QED BY <1>5, <1>6 DEF UnregisterDisplay

\* Every other step leaves the list alone or makes it longer.
ConnectedStay == \A w \in Widgets :
                     /\ InList(w) /\ display[w].mDisplayId # NoId
                     /\ life'[w] = "live"
                     => InList(w)'

LEMMA IdInit == Init => IdInv
<1> SUFFICES ASSUME Init PROVE IdInv
  OBVIOUS
<1>1. \A w \in Widgets : ~InList(w) /\ ~Pending(w) /\ life[w] = "new"
  BY DEF Init, InList, Pending, GuiIdle
<1>2. ListedOnce /\ IdsApart
  BY DEF Init, ListedOnce, IdsApart
<1>3. IdFollows
  BY DEF Init, IdFollows, NewDisplay
<1>4. gui.pc = "idle"
  BY DEF Init, GuiIdle
<1> QED BY <1>1, <1>2, <1>3, <1>4 DEF IdInv

\* The steps in which the same displays are listed under the same ids.
LEMMA OtherIds ==
    ASSUME TypeInv, IdInv,
           \/ \E w \in Widgets :
                  \/ \E b \in BOOLEAN : EnableDisplayUpdate(w, b)
                  \/ RegisterReplay(w) \/ ConnectReplay(w) \/ TimerReady(w)
                  \/ TimerEnablePending(w) \/ TimerReplay(w)
           \/ \E id \in Ids : AddDirtyDisplay(id)
           \/ DecoderStep
           \/ UNCHANGED vars
    PROVE  IdInv' /\ mDisplayList' = mDisplayList
<1> TypeOK
  BY DEF TypeInv
<1>typed. ASSUME NEW w \in Widgets PROVE display[w] \in KmreDisplay
  BY DEF TypeOK
<1>frame. 0 \in Frame
  BY FramesAssumption DEF Frame
<1>one. ASSUME NEW w \in Widgets, NEW e,
               display' = [display EXCEPT ![w] = e],
               e.mDisplayId = display[w].mDisplayId
        PROVE  SameIds
  BY <1>one DEF TypeOK, SameIds
<1>1. ASSUME NEW w \in Widgets, NEW b \in BOOLEAN, EnableDisplayUpdate(w, b)
      PROVE  IdInv' /\ mDisplayList' = mDisplayList
  <2>1. PICK i \in 1 .. Len(mDisplayList) :
            display' = [display EXCEPT ![mDisplayList[i]] = EnableUpdate(@, b)]
    BY <1>1 DEF EnableDisplayUpdate
  <2>2. SameIds
    BY <2>1, <1>one, <1>typed, <1>frame, ListTyped, SameIdentity
  <2>3. UNCHANGED <<life, widgetId, mDisplayList, gui>>
    BY <1>1 DEF EnableDisplayUpdate
  <2> QED BY <2>2, <2>3, IdsKept DEF Pending, IdInv
<1>2. ASSUME NEW w \in Widgets, RegisterReplay(w)
      PROVE  IdInv' /\ mDisplayList' = mDisplayList
  <2>1. SameIds
    BY <1>2, RedrawIds DEF RegisterReplay
  <2>2. /\ UNCHANGED <<life, widgetId, mDisplayList>>
        /\ gui.pc = "replayNew" /\ gui'.pc = "append" /\ gui'.w = gui.w
    BY <1>2 DEF RegisterReplay, TypeOK
  <2> QED BY <2>1, <2>2, IdsKept DEF Pending, IdInv
<1>3. ASSUME NEW w \in Widgets, ConnectReplay(w)
      PROVE  IdInv' /\ mDisplayList' = mDisplayList
  <2>1. SameIds
    BY <1>3, RedrawIds DEF ConnectReplay
  <2>2. /\ UNCHANGED <<life, widgetId, mDisplayList>>
        /\ gui.pc = "replay" /\ gui'.pc = "idle"
    BY <1>3 DEF ConnectReplay, GuiIdle
  <2> QED BY <2>1, <2>2, IdsKept DEF Pending
<1>4. ASSUME NEW w \in Widgets, TimerReady(w)
      PROVE  IdInv' /\ mDisplayList' = mDisplayList
  <2> DEFINE e == [display[w] EXCEPT !.timer = FALSE, !.mUpdateReady = TRUE]
  <2>1. display' = [display EXCEPT ![w] = e]
    BY <1>4 DEF TimerReady
  <2>2. e.mDisplayId = display[w].mDisplayId
    BY <1>typed DEF KmreDisplay
  <2> HIDE DEF e
  <2>3. SameIds
    BY <2>1, <2>2, <1>one
  <2>4. /\ UNCHANGED <<life, widgetId, mDisplayList>>
        /\ gui.pc = "idle" /\ gui'.pc = "enablePending"
    BY <1>4 DEF TimerReady, GuiIdle
  <2> QED BY <2>3, <2>4, IdsKept DEF Pending
<1>5. ASSUME NEW w \in Widgets, TimerEnablePending(w)
      PROVE  IdInv' /\ mDisplayList' = mDisplayList
  <2>1. SameIds
    BY <1>5, <1>one, <1>typed, <1>frame, SameIdentity DEF TimerEnablePending
  <2>2. /\ UNCHANGED <<life, widgetId, mDisplayList>>
        /\ gui.pc = "enablePending" /\ gui'.pc = "replayMissed"
    BY <1>5 DEF TimerEnablePending, TypeOK
  <2> QED BY <2>1, <2>2, IdsKept DEF Pending
<1>6. ASSUME NEW w \in Widgets, TimerReplay(w)
      PROVE  IdInv' /\ mDisplayList' = mDisplayList
  <2>1. display[w].mMissed \in Frame
    BY <1>typed DEF KmreDisplay
  <2>2. SameIds
    BY <1>6, <2>1, <1>one, <1>typed, SameIdentity DEF TimerReplay
  <2>3. /\ UNCHANGED <<life, widgetId, mDisplayList>>
        /\ gui.pc = "replayMissed" /\ gui'.pc = "idle"
    BY <1>6 DEF TimerReplay, GuiIdle
  <2> QED BY <2>2, <2>3, IdsKept DEF Pending
<1>7. ASSUME UNCHANGED guiVars, SameIds
      PROVE  IdInv' /\ mDisplayList' = mDisplayList
  BY <1>7, IdsKept DEF guiVars, Pending, IdInv
<1>8. ASSUME NEW id \in Ids, AddDirtyDisplay(id)
      PROVE  IdInv' /\ mDisplayList' = mDisplayList
  BY <1>7, <1>8 DEF AddDirtyDisplay, SameIds
<1>9. CASE UpdateDisplays \/ UpdateDisplaysDone \/ ParkFrame
  BY <1>7, <1>9 DEF UpdateDisplays, UpdateDisplaysDone, ParkFrame, SameIds
<1>10. CASE LookUpDisplay
  <2>1. UNCHANGED guiVars
    BY <1>10 DEF LookUpDisplay
  <2>2. ASSUME NEW i \in 1 .. Len(mDisplayList),
               display' = [display EXCEPT ![mDisplayList[i]] =
                               FirstUpdate(display[mDisplayList[i]])]
        PROVE  SameIds
    BY <2>2, <1>one, <1>typed, <1>frame, ListTyped, SameIdentity
  <2>3. SameIds
    BY <1>10, <2>2 DEF LookUpDisplay, SameIds
  <2> QED BY <1>7, <2>1, <2>3
<1>11. ASSUME NEW w \in Widgets, ForwardFrame(w) \/ StoreFrame(w)
       PROVE  IdInv' /\ mDisplayList' = mDisplayList
  <2>1. Head(mDirtyDisplays).frame \in Frame
    BY <1>11, HeadTyped DEF ForwardFrame, StoreFrame, TypeInv, DecHasFrame
  <2>2. SameIds
    BY <1>11, <2>1, <1>one, <1>typed, SameIdentity DEF ForwardFrame, StoreFrame
  <2>3. UNCHANGED guiVars
    BY <1>11 DEF ForwardFrame, StoreFrame
  <2> QED BY <1>7, <2>2, <2>3
<1>12. CASE UNCHANGED vars
  BY <1>7, <1>12 DEF vars, guiVars, SameIds
<1> QED BY <1>1, <1>2, <1>3, <1>4, <1>5, <1>6, <1>8, <1>9, <1>10, <1>11, <1>12
        DEF DecoderStep

LEMMA IdStep == TypeInv /\ IdInv /\ [Next]_vars => IdInv' /\ ConnectedStay
<1> SUFFICES ASSUME TypeInv, IdInv, [Next]_vars PROVE IdInv' /\ ConnectedStay
  OBVIOUS
<1> TypeOK
  BY DEF TypeInv
<1>same. ASSUME mDisplayList' = mDisplayList PROVE ConnectedStay
  BY <1>same DEF ConnectedStay, InList
<1>1. ASSUME NEW w \in Widgets, NEW id \in Ids \cup {NoId},
             NEW delayed \in BOOLEAN, RegisterDisplay(w, id, delayed)
      PROVE  IdInv' /\ ConnectedStay
  BY <1>1, <1>same, RegisterIds DEF RegisterDisplay
<1>2. ASSUME NEW w \in Widgets, RegisterAppend(w)
      PROVE  IdInv' /\ ConnectedStay
  BY <1>2, AppendIds, AppendListed DEF RegisterAppend, ConnectedStay, TypeOK
<1>3. ASSUME NEW w \in Widgets, NEW id \in Ids, ConnectWidget(w, id)
      PROVE  IdInv' /\ ConnectedStay
  BY <1>3, <1>same, ConnectWidgetIds DEF ConnectWidget
<1>4. ASSUME NEW w \in Widgets, ConnectDisplay(w)
      PROVE  IdInv' /\ ConnectedStay
  BY <1>4, <1>same, ConnectDisplayIds DEF ConnectDisplay
<1>5. ASSUME NEW w \in Widgets, UnregisterDisplay(w)
      PROVE  IdInv' /\ ConnectedStay
  BY <1>5, UnregisterIds DEF ConnectedStay
<1> QED BY <1>1, <1>2, <1>3, <1>4, <1>5, <1>same, OtherIds
        DEF Next, GuiCall, GuiStep

\* What is known of the list in every reachable state.
LEMMA SpecIds == Spec => [](TypeInv /\ IdInv)
<1>1. TypeInv /\ IdInv /\ [Next]_vars => TypeInv' /\ IdInv'
  BY TypeStep, IdStep
<1> QED BY <1>1, TypeInit, IdInit, PTL DEF Spec

\* The first display with an id is the only one, and it is the one of the
\* living widget that has the id: registering, connecting and destroying, of
\* any number of windows in any order, keep it so.
THEOREM IdsAreUnique == Spec => []OneDisplayPerId
<1>1. TypeInv /\ IdInv => OneDisplayPerId
  <2> SUFFICES ASSUME TypeOK, IdInv,
                      NEW i \in 1 .. Len(mDisplayList),
                      NEW j \in 1 .. Len(mDisplayList),
                      display[mDisplayList[i]].mDisplayId # NoId
               PROVE  /\ HasId(j, display[mDisplayList[i]].mDisplayId) => i = j
                      /\ life[mDisplayList[i]] = "live"
                      /\ widgetId[mDisplayList[i]] =
                             display[mDisplayList[i]].mDisplayId
    BY DEF OneDisplayPerId, TypeInv
  <2>1. mDisplayList[i] \in Widgets /\ mDisplayList[j] \in Widgets
    BY ListTyped
  <2> QED BY <2>1 DEF IdInv, IdFollows, IdsApart, ListedOnce, HasId
<1> QED BY <1>1, SpecIds, PTL

\* No other window's end takes a connected display out of the list.
THEOREM ConnectedStays == Spec => ConnectedStaysListed
<1>1. TypeInv /\ IdInv /\ [Next]_vars =>
        [\A w \in Widgets :
            /\ InList(w)
            /\ display[w].mDisplayId # NoId
            /\ life'[w] = "live"
            => InList(w)']_vars
  BY IdStep DEF ConnectedStay
<1> QED BY <1>1, SpecIds, PTL DEF Spec, ConnectedStaysListed

-----------------------------------------------------------------------------
(* The order of the frames.                                                 *)

\* The thread that holds the lock of the list is where it needs it, and the
\* decoder works on a display of the list.
LockInv == /\ listLock = "gui" <=> gui.pc = "replay"
           /\ listLock = "decoder" <=> dec.pc \in {"forward", "store"}
           /\ dec.pc \in {"forward", "store"} =>
                  /\ dec.w \in Widgets /\ InList(dec.w)
                  /\ display[dec.w].mDisplayId # NoId

\* Frame f was posted before all that are still queued.
Behind(f) == /\ f <= posted
             /\ \A i \in 1 .. Len(mDirtyDisplays) : f < mDirtyDisplays[i].frame

QueueInOrder == /\ \A i \in 1 .. Len(mDirtyDisplays) :
                       mDirtyDisplays[i].frame <= posted
                /\ \A i, j \in 1 .. Len(mDirtyDisplays) :
                       i < j => mDirtyDisplays[i].frame < mDirtyDisplays[j].frame

\* What was shown, missed or parked was posted before what is queued.
FramesBehind == /\ Behind(0)
                /\ \A w \in Widgets : /\ Behind(display[w].last)
                                      /\ Behind(display[w].mMissed)
                /\ \A id \in Ids : Behind(mUnupdatedDisplays[id])

\* A display without id has shown nothing, and only delayed displays have a
\* timer.
FirstFrame == \A w \in Widgets :
                  /\ display[w].mDisplayId = NoId => display[w].last = 0
                  /\ display[w].timer => display[w].mDelayed

\* Where the GUI thread replays a parked frame it is the display's first;
\* frames that were missed are replayed to delayed displays.
ReplayInv ==
    /\ gui.pc \in {"replayNew", "find", "replay", "enablePending",
                   "replayMissed"} => gui.w \in Widgets
    /\ gui.pc = "find" => display[gui.w].mDisplayId = NoId
    /\ gui.pc \in {"replayNew", "replay"} => display[gui.w].last = 0
    /\ gui.pc \in {"enablePending", "replayMissed"} => display[gui.w].mDelayed

OrderInv == QueueInOrder /\ FramesBehind /\ FirstFrame /\ ReplayInv

LEMMA LockInit == Init => LockInv
BY DEF Init, LockInv, GuiIdle, DecAt

LEMMA LockKept ==
    ASSUME LockInv, SameIds, UNCHANGED <<listLock, mDisplayList, dec>>,
           gui.pc # "replay", gui'.pc # "replay"
    PROVE  LockInv'
BY DEF LockInv, SameIds, InList

LEMMA LockStep == TypeInv /\ IdInv /\ LockInv /\ [Next]_vars => LockInv'
<1> SUFFICES ASSUME TypeInv, IdInv, LockInv, [Next]_vars PROVE LockInv'
  OBVIOUS
<1> TypeOK
  BY DEF TypeInv
<1>typed. ASSUME NEW w \in Widgets PROVE display[w] \in KmreDisplay
  BY DEF TypeOK
<1>frame. 0 \in Frame
  BY FramesAssumption DEF Frame
<1>one. ASSUME NEW w \in Widgets, NEW e,
               display' = [display EXCEPT ![w] = e],
               e.mDisplayId = display[w].mDisplayId
        PROVE  SameIds
  BY <1>one DEF TypeOK, SameIds
<1>free. listLock = "free" => dec.pc \notin {"forward", "store"} /\ gui.pc # "replay"
  BY DEF LockInv
<1>1. ASSUME NEW w \in Widgets, NEW id \in Ids \cup {NoId},
             NEW delayed \in BOOLEAN, RegisterDisplay(w, id, delayed)
      PROVE  LockInv'
  <2>1. /\ gui.pc = "idle" /\ life[w] = "new"
        /\ display' = [display EXCEPT ![w] = NewDisplay(id, delayed)]
        /\ gui'.pc \in {"append", "replayNew"}
        /\ UNCHANGED <<mDisplayList, listLock, dec>>
    BY <1>1 DEF RegisterDisplay, GuiIdle
  <2>2. ~InList(w)
    BY <2>1 DEF IdInv
  <2>3. \A v \in Widgets : InList(v) => display'[v] = display[v]
    BY <2>1, <2>2 DEF TypeOK
  <2>4. \A v : InList(v)' <=> InList(v)
    BY <2>1 DEF InList
  <2> QED BY <2>1, <2>3, <2>4 DEF LockInv
<1>2. ASSUME NEW w \in Widgets, RegisterReplay(w)
      PROVE  LockInv'
  BY <1>2, LockKept, RedrawIds DEF RegisterReplay
<1>3. ASSUME NEW w \in Widgets, RegisterAppend(w)
      PROVE  LockInv'
  BY <1>3, <1>free DEF RegisterAppend, GuiIdle, LockInv
<1>4. ASSUME NEW w \in Widgets, NEW id \in Ids, ConnectWidget(w, id)
      PROVE  LockInv'
  BY <1>4, LockKept DEF ConnectWidget, GuiIdle, SameIds
<1>5. ASSUME NEW w \in Widgets, ConnectDisplay(w)
      PROVE  LockInv'
  BY <1>5, <1>free DEF ConnectDisplay, GuiIdle, LockInv
<1>6. ASSUME NEW w \in Widgets, ConnectReplay(w)
      PROVE  LockInv'
  BY <1>6 DEF ConnectReplay, GuiIdle, LockInv
<1>7. ASSUME NEW w \in Widgets, NEW b \in BOOLEAN, EnableDisplayUpdate(w, b)
      PROVE  LockInv'
  BY <1>7, <1>free DEF EnableDisplayUpdate, LockInv
<1>8. ASSUME NEW w \in Widgets, UnregisterDisplay(w)
      PROVE  LockInv'
  BY <1>8, <1>free DEF UnregisterDisplay, LockInv
<1>9. ASSUME NEW w \in Widgets, TimerReady(w)
      PROVE  LockInv'
  <2> DEFINE e == [display[w] EXCEPT !.timer = FALSE, !.mUpdateReady = TRUE]
  <2>1. display' = [display EXCEPT ![w] = e]
    BY <1>9 DEF TimerReady
  <2>2. e.mDisplayId = display[w].mDisplayId
    BY <1>typed DEF KmreDisplay
  <2> HIDE DEF e
  <2>3. SameIds
    BY <2>1, <2>2, <1>one
  <2> QED BY <1>9, <2>3, LockKept DEF TimerReady, GuiIdle
<1>10. ASSUME NEW w \in Widgets, TimerEnablePending(w)
       PROVE  LockInv'
  <2>1. SameIds
    BY <1>10, <1>one, <1>typed, <1>frame, SameIdentity DEF TimerEnablePending
  <2>2. gui.pc = "enablePending" /\ gui'.pc = "replayMissed"
    BY <1>10 DEF TimerEnablePending, TypeOK
  <2> QED BY <1>10, <2>1, <2>2, LockKept DEF TimerEnablePending
<1>11. ASSUME NEW w \in Widgets, TimerReplay(w)
       PROVE  LockInv'
  <2>1. display[w].mMissed \in Frame
    BY <1>typed DEF KmreDisplay
  <2>2. SameIds
    BY <1>11, <2>1, <1>one, <1>typed, SameIdentity DEF TimerReplay
  <2> QED BY <1>11, <2>2, LockKept DEF TimerReplay, GuiIdle
<1>12. ASSUME NEW id \in Ids, AddDirtyDisplay(id)
       PROVE  LockInv'
  BY <1>12 DEF AddDirtyDisplay, LockInv, guiVars, InList
<1>13. CASE UpdateDisplays \/ UpdateDisplaysDone \/ ParkFrame
  BY <1>13 DEF UpdateDisplays, UpdateDisplaysDone, ParkFrame, LockInv, guiVars,
               DecAt
<1>14. CASE LookUpDisplay
  <2> DEFINE id == Head(mDirtyDisplays).id
  <2>1. /\ dec.pc = "lookup" /\ listLock = "free" /\ mDirtyDisplays # <<>>
        /\ UNCHANGED <<gui, mDisplayList>>
    BY <1>14 DEF LookUpDisplay, guiVars
  <2>2. id # NoId
    BY <2>1, HeadTyped, IdsAssumption DEF NoId
  <2>3. CASE dec' = DecAt("park") /\ UNCHANGED <<display, listLock>>
    BY <2>1, <2>3, <1>free DEF LockInv, DecAt
  <2>4. ASSUME NEW i \in 1 .. Len(mDisplayList), FirstWithId(i, id),
               display' = [display EXCEPT ![mDisplayList[i]] =
                               FirstUpdate(display[mDisplayList[i]])],
               dec'.pc \in {"forward", "store"}, dec'.w = mDisplayList[i],
               listLock' = "decoder"
        PROVE  LockInv'
    <3> DEFINE w == mDisplayList[i]
    <3>1. w \in Widgets /\ InList(w) /\ display[w].mDisplayId = id
      BY <2>4, ListTyped DEF InList, FirstWithId, HasId
    <3>2. SameIds
      BY <2>4, <3>1, <1>one, <1>typed, <1>frame, SameIdentity
    <3>3. InList(w)' /\ display'[w].mDisplayId # NoId
      BY <2>1, <2>2, <3>1, <3>2 DEF SameIds, InList
    <3> QED BY <2>1, <2>4, <3>1, <3>3, <1>free DEF LockInv
  <2> QED BY <1>14, <2>3, <2>4 DEF LookUpDisplay
<1>15. ASSUME NEW w \in Widgets, ForwardFrame(w) \/ StoreFrame(w)
       PROVE  LockInv'
  BY <1>15 DEF ForwardFrame, StoreFrame, FrameDone, LockInv, guiVars, DecAt
<1>16. CASE UNCHANGED vars
  BY <1>16 DEF vars, LockInv, InList
<1> QED BY <1>1, <1>2, <1>3, <1>4, <1>5, <1>6, <1>7, <1>8, <1>9, <1>10, <1>11,
           <1>12, <1>13, <1>14, <1>15, <1>16
        DEF Next, GuiCall, GuiStep, DecoderStep

-----------------------------------------------------------------------------
(* The queue grows at its end and is taken from its head.                   *)

Enqueue == \E id \in Ids :
               /\ posted < MaxFrames /\ posted' = posted + 1
               /\ mDirtyDisplays' =
                      Append(mDirtyDisplays, [id |-> id, frame |-> posted + 1])

Dequeue == /\ mDirtyDisplays # <<>> /\ mDirtyDisplays' = Tail(mDirtyDisplays)
           /\ posted' = posted

LEMMA QueueMoves ==
    ASSUME TypeInv, [Next]_vars
    PROVE  Enqueue \/ Dequeue \/ UNCHANGED <<mDirtyDisplays, posted>>
<1>1. ASSUME NEW w \in Widgets, GuiCall(w)
      PROVE  UNCHANGED <<mDirtyDisplays, posted>>
  BY <1>1 DEF GuiCall, RegisterDisplay, ConnectWidget, EnableDisplayUpdate,
              UnregisterDisplay, queueVars
<1>2. ASSUME NEW w \in Widgets, GuiStep(w)
      PROVE  UNCHANGED <<mDirtyDisplays, posted>>
  BY <1>2 DEF GuiStep, RegisterReplay, RegisterAppend, ConnectDisplay,
              ConnectReplay, TimerReady, TimerEnablePending, TimerReplay,
              queueVars
<1>3. ASSUME NEW id \in Ids, AddDirtyDisplay(id)
      PROVE  Enqueue
  BY <1>3 DEF AddDirtyDisplay, Enqueue
<1>4. CASE UpdateDisplays \/ UpdateDisplaysDone \/ LookUpDisplay
  BY <1>4 DEF UpdateDisplays, UpdateDisplaysDone, LookUpDisplay, queueVars
<1>5. ASSUME NEW w \in Widgets, ForwardFrame(w) \/ StoreFrame(w)
      PROVE  Dequeue
  BY <1>5 DEF ForwardFrame, StoreFrame, FrameDone, Dequeue, TypeInv, DecHasFrame
<1>6. CASE ParkFrame
  BY <1>6 DEF ParkFrame, Dequeue, TypeInv, DecHasFrame
<1>7. CASE UNCHANGED vars
  BY <1>7 DEF vars
<1> QED BY <1>1, <1>2, <1>3, <1>4, <1>5, <1>6, <1>7 DEF Next, DecoderStep

\* Frame f is behind the queue after the step.
BehindNext(f) == /\ f <= posted'
                 /\ \A i \in 1 .. Len(mDirtyDisplays') :
                        f < mDirtyDisplays'[i].frame

StaysBehind == \A f \in Frame : Behind(f) => BehindNext(f)

LEMMA EnqueueKeeps ==
    ASSUME TypeInv, QueueInOrder, Enqueue
    PROVE  QueueInOrder' /\ StaysBehind
<1> DEFINE q == mDirtyDisplays
           n == Len(q)
<1>1. PICK id \in Ids : /\ posted' = posted + 1
                        /\ q' = Append(q, [id |-> id, frame |-> posted + 1])
  BY DEF Enqueue
<1>2. q \in Seq([id : Ids, frame : Frame]) /\ posted \in Nat
  BY FramesAssumption DEF TypeInv, TypeOK, Frame
<1>3. /\ n \in Nat /\ Len(q') = n + 1
      /\ \A i \in 1 .. n : q'[i] = q[i]
      /\ q'[n + 1] = [id |-> id, frame |-> posted + 1]
  BY <1>1, <1>2
<1>4. \A i \in 1 .. n : q[i].frame \in Nat /\ q[i].frame <= posted
  <2> SUFFICES ASSUME NEW i \in 1 .. n
               PROVE  q[i].frame \in Nat /\ q[i].frame <= posted
    OBVIOUS
  <2>1. q[i] \in [id : Ids, frame : Frame]
    BY <1>2, ElementOfSeq
  <2>2. q[i].frame <= posted
    BY DEF QueueInOrder
  <2> QED BY <2>1, <2>2, FramesAssumption DEF Frame
<1>5. \A i \in 1 .. n : q'[i].frame = q[i].frame
  BY <1>3
<1>6. q'[n + 1].frame = posted + 1
  BY <1>3
<1>7. \A i, j \in 1 .. n : i < j => q[i].frame < q[j].frame
  BY DEF QueueInOrder
<1>8. \A f \in Frame : Behind(f) =>
          f <= posted /\ \A i \in 1 .. n : f < q[i].frame
  BY DEF Behind
<1>9. \A i \in 1 .. (n + 1) : i \in 1 .. n \/ i = n + 1
  BY <1>3
<1>10. Frame \subseteq Nat
  BY FramesAssumption DEF Frame
<1> HIDE DEF q, n
<1>11. StaysBehind
  BY <1>1, <1>2, <1>3, <1>5, <1>6, <1>8, <1>9, <1>10
     DEF StaysBehind, BehindNext, q
<1>12. QueueInOrder'
  BY <1>1, <1>2, <1>3, <1>4, <1>5, <1>6, <1>7, <1>9 DEF QueueInOrder, q
<1> QED BY <1>11, <1>12

\* The frame that is taken is behind the rest of the queue, and every frame
\* that was behind the queue is older.
LEMMA DequeueKeeps ==
    ASSUME TypeInv, QueueInOrder, Dequeue
    PROVE  /\ QueueInOrder' /\ StaysBehind
           /\ BehindNext(Head(mDirtyDisplays).frame)
           /\ \A f \in Frame : Behind(f) => f < Head(mDirtyDisplays).frame
<1> DEFINE q == mDirtyDisplays
           n == Len(q)
<1>1. q # <<>> /\ q' = Tail(q) /\ posted' = posted
  BY DEF Dequeue
<1>2. q \in Seq([id : Ids, frame : Frame])
  BY DEF TypeInv, TypeOK
<1>3. /\ n \in Nat /\ n >= 1 /\ Len(q') = n - 1
      /\ \A i \in 1 .. (n - 1) : q'[i] = q[i + 1]
      /\ Head(q) = q[1]
  BY <1>1, <1>2
<1>4. /\ 1 \in 1 .. n
      /\ \A i \in 1 .. (n - 1) : i + 1 \in 1 .. n /\ 1 < i + 1
      /\ \A i, j \in 1 .. (n - 1) : i < j => i + 1 < j + 1
  BY <1>3
<1>5. \A i \in 1 .. n : q[i].frame <= posted
  BY DEF QueueInOrder
<1>6. \A i, j \in 1 .. n : i < j => q[i].frame < q[j].frame
  BY DEF QueueInOrder
<1> HIDE DEF n, q
<1>7. QueueInOrder'
  BY <1>1, <1>3, <1>4, <1>5, <1>6 DEF QueueInOrder, q
<1>8. \A f \in Frame : Behind(f) => BehindNext(f) /\ f < q[1].frame
  BY <1>1, <1>3, <1>4 DEF Behind, BehindNext, q, n
<1>9. BehindNext(q[1].frame)
  <2>1. q[1].frame <= posted'
    BY <1>1, <1>4, <1>5
  <2>2. \A i \in 1 .. (n - 1) : q[1].frame < q[i + 1].frame
    BY <1>4, <1>6
  <2>3. \A i \in 1 .. (n - 1) : q[1].frame < q'[i].frame
    BY <1>3, <2>2
  <2> QED BY <1>3, <2>1, <2>3 DEF BehindNext, q
<1> QED BY <1>3, <1>7, <1>8, <1>9 DEF q, StaysBehind

LEMMA QueueStep ==
    ASSUME TypeInv, QueueInOrder, [Next]_vars
    PROVE  QueueInOrder' /\ StaysBehind
<1>1. CASE UNCHANGED <<mDirtyDisplays, posted>>
  BY <1>1 DEF QueueInOrder, StaysBehind, Behind, BehindNext
<1> QED BY <1>1, QueueMoves, EnqueueKeeps, DequeueKeeps

-----------------------------------------------------------------------------
(* What a step may do to a display without spoiling the order.              *)

InOrder == \A w \in Widgets :
               ~display[w].mDelayed /\ display'[w].last # 0
               => display'[w].last >= display[w].last

KeepsOrder(d, e) == /\ e \in KmreDisplay
                    /\ BehindNext(e.last) /\ BehindNext(e.mMissed)
                    /\ e.mDisplayId = NoId => e.last = 0
                    /\ e.timer => e.mDelayed
                    /\ d.mDelayed \/ e.last = 0 \/ e.last >= d.last

ParkedBehind == \A id \in Ids : BehindNext(mUnupdatedDisplays'[id])

\* The fields the order is about, after each operator on a KmreDisplay.
LEMMA OrderFields ==
    ASSUME NEW d \in KmreDisplay, NEW b \in BOOLEAN, NEW f \in Frame,
           d.timer => d.mDelayed
    PROVE  /\ \A e \in {EnableUpdate(d, b), EnablePending(d), FirstUpdate(d),
                        Forward(d, f), Store(d, f), Update(d, f)} :
                  /\ e.last \in {d.last, f} /\ e.mMissed \in {d.mMissed, f}
                  /\ e.timer => e.mDelayed
           /\ \A e \in {EnableUpdate(d, b), EnablePending(d), FirstUpdate(d)} :
                  e.mMissed = d.mMissed
           /\ d.mDisplayId = NoId => Update(d, f) = d
<1>1. /\ EnableUpdate(d, b).last = d.last
      /\ EnableUpdate(d, b).mMissed = d.mMissed
      /\ EnableUpdate(d, b).timer <=> d.timer
      /\ EnableUpdate(d, b).mDelayed <=> d.mDelayed
  BY DEF EnableUpdate, KmreDisplay
<1>2. /\ EnablePending(d).last = d.last
      /\ EnablePending(d).mMissed = d.mMissed
      /\ EnablePending(d).timer <=> d.timer
      /\ EnablePending(d).mDelayed <=> d.mDelayed
  BY DEF EnablePending, KmreDisplay
<1>3. /\ FirstUpdate(d).last = d.last
      /\ FirstUpdate(d).mMissed = d.mMissed
      /\ FirstUpdate(d).timer => FirstUpdate(d).mDelayed
  BY DEF FirstUpdate, ReadyUpdate, EnablePending, KmreDisplay
<1>4. ASSUME NEW x \in KmreDisplay, x.timer => x.mDelayed
      PROVE  \A e \in {Forward(x, f), Store(x, f)} :
                 /\ e.last \in {x.last, f} /\ e.mMissed \in {x.mMissed, f}
                 /\ e.timer => e.mDelayed
  BY <1>4 DEF Forward, Store, KmreDisplay
<1>5. FirstUpdate(d) \in KmreDisplay
  BY FirstUpdateType
<1>6. d.mDisplayId = NoId => Update(d, f) = d
  BY DEF Update, NoId
<1>7. /\ Update(d, f).last \in {d.last, f}
      /\ Update(d, f).mMissed \in {d.mMissed, f}
      /\ Update(d, f).timer => Update(d, f).mDelayed
  BY <1>3, <1>4, <1>5 DEF Update, Present
<1>8. /\ EnableUpdate(d, b).timer => EnableUpdate(d, b).mDelayed
      /\ EnablePending(d).timer => EnablePending(d).mDelayed
  BY <1>1, <1>2
<1>9. \A e \in {EnableUpdate(d, b), EnablePending(d), FirstUpdate(d)} :
          /\ e.last = d.last /\ e.mMissed = d.mMissed
          /\ e.timer => e.mDelayed
  BY <1>1, <1>2, <1>3, <1>8
<1>10. \A e \in {Forward(d, f), Store(d, f)} :
          /\ e.last \in {d.last, f} /\ e.mMissed \in {d.mMissed, f}
          /\ e.timer => e.mDelayed
  BY <1>4
<1> QED BY <1>6, <1>7, <1>9, <1>10

LEMMA DisplayStep ==
    ASSUME TypeOK, FramesBehind, FirstFrame, StaysBehind, BehindNext(0),
           ParkedBehind, NEW w \in Widgets, NEW e, KeepsOrder(display[w], e),
           display' = [display EXCEPT ![w] = e]
    PROVE  FramesBehind' /\ FirstFrame' /\ InOrder
<1>1. /\ display'[w] = e
      /\ \A v \in Widgets \ {w} : display'[v] = display[v]
  BY DEF TypeOK
<1>2. ASSUME NEW v \in Widgets
      PROVE  BehindNext(display'[v].last) /\ BehindNext(display'[v].mMissed)
  <2>1. display[v].last \in Frame /\ display[v].mMissed \in Frame
    BY DEF TypeOK, KmreDisplay
  <2> QED BY <1>1, <2>1 DEF KeepsOrder, FramesBehind, StaysBehind
<1>3. FramesBehind'
  BY <1>2 DEF FramesBehind, Behind, BehindNext, ParkedBehind
<1>4. FirstFrame'
  BY <1>1 DEF FirstFrame, KeepsOrder
<1>5. InOrder
  <2> SUFFICES ASSUME NEW v \in Widgets, ~display[v].mDelayed,
                      display'[v].last # 0
               PROVE  display'[v].last >= display[v].last
    BY DEF InOrder
  <2>1. CASE v = w
    BY <2>1, <1>1 DEF KeepsOrder
  <2>2. CASE v # w
    <3>1. display'[v].last = display[v].last /\ display[v].last \in Frame
      BY <2>2, <1>1 DEF TypeOK, KmreDisplay
    <3> QED BY <3>1, FramesAssumption DEF Frame
  <2> QED BY <2>1, <2>2
<1> QED BY <1>3, <1>4, <1>5

LEMMA DisplaysKept ==
    ASSUME TypeOK, FramesBehind, FirstFrame, StaysBehind, BehindNext(0),
           ParkedBehind, display' = display
    PROVE  FramesBehind' /\ FirstFrame' /\ InOrder
<1>1. ASSUME NEW v \in Widgets
      PROVE  /\ BehindNext(display[v].last) /\ BehindNext(display[v].mMissed)
             /\ display[v].last >= display[v].last
  <2>1. display[v].last \in Frame /\ display[v].mMissed \in Frame
    BY DEF TypeOK, KmreDisplay
  <2> QED BY <2>1, FramesAssumption DEF FramesBehind, StaysBehind, Frame
<1>2. FramesBehind'
  BY <1>1 DEF FramesBehind, Behind, BehindNext, ParkedBehind
<1> QED BY <1>1, <1>2 DEF FirstFrame, InOrder

\* A frame that is behind what is queued may go to a display that is delayed,
\* that has shown nothing, or that has shown only older frames.
LEMMA UpdateKeepsOrder ==
    ASSUME TypeOK, FramesBehind, FirstFrame, StaysBehind, NEW w \in Widgets,
           NEW f \in Frame, BehindNext(f),
           display[w].mDelayed \/ display[w].last = 0 \/ f >= display[w].last
    PROVE  KeepsOrder(display[w], Update(display[w], f))
<1> DEFINE d == display[w]
           e == Update(d, f)
<1>1. d \in KmreDisplay /\ (d.timer => d.mDelayed)
      /\ (d.mDisplayId = NoId => d.last = 0)
  BY DEF TypeOK, FirstFrame
<1>2. d.last \in Frame /\ d.mMissed \in Frame
  BY <1>1 DEF KmreDisplay
<1>3. BehindNext(d.last) /\ BehindNext(d.mMissed)
  BY <1>2 DEF FramesBehind, StaysBehind
<1>4. e \in KmreDisplay /\ e.mDisplayId = d.mDisplayId
  BY <1>1, UpdateType, SameIdentity
<1>5. /\ e.last \in {d.last, f} /\ e.mMissed \in {d.mMissed, f}
      /\ e.timer => e.mDelayed
      /\ d.mDisplayId = NoId => e = d
  BY <1>1, OrderFields
<1> HIDE DEF d, e
<1>6. e.mDisplayId = NoId => e.last = 0
  BY <1>1, <1>4, <1>5
<1>7. d.mDelayed \/ e.last = 0 \/ e.last >= d.last
  <2>1. d.last \in Nat /\ f \in Nat
    BY <1>2, FramesAssumption DEF Frame
  <2>2. d.last >= d.last
    BY <2>1
  <2>3. d.last = 0 => e.last = 0 \/ e.last >= d.last
    BY <1>5, <2>1
  <2> QED BY <1>5, <2>2, <2>3 DEF d
<1> QED BY <1>3, <1>4, <1>5, <1>6, <1>7 DEF KeepsOrder, d, e

LEMMA RedrawKeepsOrder ==
    ASSUME TypeOK, FramesBehind, FirstFrame, StaysBehind, BehindNext(0),
           NEW w \in Widgets, display[w].last = 0, RedrawMissedUpdating(w)
    PROVE  FramesBehind' /\ FirstFrame' /\ InOrder
<1> DEFINE id == display[w].mDisplayId
           f == mUnupdatedDisplays[id]
<1>1. display[w] \in KmreDisplay /\ id \in Ids \cup {NoId}
  BY DEF TypeOK, KmreDisplay
<1>2. \A i \in Ids : /\ mUnupdatedDisplays[i] \in Frame
                     /\ BehindNext(mUnupdatedDisplays[i])
  BY DEF TypeOK, FramesBehind, StaysBehind
<1>3. CASE f = 0
  BY <1>2, <1>3, DisplaysKept DEF RedrawMissedUpdating, ParkedBehind
<1>4. CASE f # 0
  <2> DEFINE e == Update(display[w], f)
  <2>1. /\ display' = [display EXCEPT ![w] = e]
        /\ mUnupdatedDisplays' = [mUnupdatedDisplays EXCEPT ![id] = 0]
    BY <1>4 DEF RedrawMissedUpdating
  <2>2. ParkedBehind
    BY <1>2, <2>1 DEF ParkedBehind, TypeOK
  <2>3. KeepsOrder(display[w], e)
    <3>1. CASE id \in Ids
      BY <1>2, <3>1, UpdateKeepsOrder
    <3>2. CASE id = NoId
      <4>1. e = display[w]
        BY <3>2 DEF Update, NoId
      <4>2. display[w].mMissed \in Frame
        BY <1>1 DEF KmreDisplay
      <4>3. BehindNext(display[w].mMissed)
        BY <4>2 DEF FramesBehind, StaysBehind
      <4> HIDE DEF e
      <4> QED BY <1>1, <4>1, <4>3 DEF KeepsOrder, FirstFrame
    <3> QED BY <1>1, <3>1, <3>2
  <2> HIDE DEF e
  <2> QED BY <2>1, <2>2, <2>3, DisplayStep
<1> QED BY <1>3, <1>4

-----------------------------------------------------------------------------
(* Every step keeps the order.                                              *)

LEMMA OrderInit == Init => OrderInv
<1> SUFFICES ASSUME Init PROVE OrderInv
  OBVIOUS
<1>1. Len(mDirtyDisplays) = 0 /\ posted = 0
  BY DEF Init
<1>2. Behind(0) /\ QueueInOrder
  BY <1>1 DEF Behind, QueueInOrder
<1>3. \A w \in Widgets : /\ display[w].last = 0 /\ display[w].mMissed = 0
                         /\ display[w].timer = FALSE
  BY DEF Init, NewDisplay
<1>4. \A id \in Ids : mUnupdatedDisplays[id] = 0
  BY DEF Init
<1>5. FramesBehind
  BY <1>2, <1>3, <1>4 DEF FramesBehind
<1>6. FirstFrame
  BY <1>3 DEF FirstFrame
<1>7. ReplayInv
  BY DEF ReplayInv, Init, GuiIdle
<1> QED BY <1>2, <1>5, <1>6, <1>7 DEF OrderInv

\* Steps of the decoder: the display the GUI thread is replaying to keeps its
\* last frame.
LEMMA ReplayKept ==
    ASSUME TypeOK, ReplayInv, SameIds, gui' = gui,
           \A w \in Widgets : display'[w].mDelayed = display[w].mDelayed,
           gui.pc \in {"replayNew", "replay"} =>
               display'[gui.w].last = display[gui.w].last
    PROVE  ReplayInv'
BY DEF ReplayInv, SameIds

LEMMA OrderStep ==
    TypeInv /\ IdInv /\ LockInv /\ OrderInv /\ [Next]_vars => OrderInv' /\ InOrder
<1> SUFFICES ASSUME TypeInv, IdInv, LockInv, OrderInv, [Next]_vars
             PROVE  OrderInv' /\ InOrder
  OBVIOUS
<1> TypeOK /\ FramesBehind /\ FirstFrame /\ ReplayInv /\ QueueInOrder
  BY DEF TypeInv, OrderInv
<1>queue. QueueInOrder' /\ StaysBehind
  BY QueueStep
<1>zero. 0 \in Frame /\ BehindNext(0)
  BY <1>queue, FramesAssumption DEF Frame, FramesBehind, StaysBehind
<1>typed. ASSUME NEW w \in Widgets
          PROVE  /\ display[w] \in KmreDisplay
                 /\ display[w].last \in Frame /\ display[w].mMissed \in Frame
                 /\ BehindNext(display[w].last)
                 /\ BehindNext(display[w].mMissed)
                 /\ display[w].timer => display[w].mDelayed
                 /\ display[w].mDisplayId = NoId => display[w].last = 0
                 /\ display[w].last >= display[w].last
  <2>1. /\ display[w] \in KmreDisplay
        /\ display[w].last \in Frame /\ display[w].mMissed \in Frame
    BY DEF TypeOK, KmreDisplay
  <2> QED BY <2>1, <1>queue, FramesAssumption
          DEF FramesBehind, FirstFrame, StaysBehind, Frame
<1>parked. UNCHANGED mUnupdatedDisplays => ParkedBehind
  BY <1>queue DEF ParkedBehind, TypeOK, FramesBehind, StaysBehind
<1> DEFINE Goal == FramesBehind' /\ FirstFrame' /\ InOrder
<1>kept. ASSUME NEW w \in Widgets, NEW e, KeepsOrder(display[w], e),
                display' = [display EXCEPT ![w] = e],
                UNCHANGED mUnupdatedDisplays
         PROVE  Goal
  BY <1>kept, <1>queue, <1>zero, <1>parked, DisplayStep
<1>same. ASSUME display' = display, UNCHANGED mUnupdatedDisplays
         PROVE  Goal
  BY <1>same, <1>queue, <1>zero, <1>parked, DisplaysKept
\* An operator that shows no frame and misses none.
<1>quiet. ASSUME NEW w \in Widgets, NEW e \in KmreDisplay,
                 e.last = display[w].last, e.mMissed = display[w].mMissed,
                 e.mDisplayId = display[w].mDisplayId \/ e.last = 0,
                 e.timer => e.mDelayed
          PROVE  KeepsOrder(display[w], e)
  BY <1>quiet, <1>typed DEF KeepsOrder
<1>fresh. ASSUME NEW w \in Widgets, NEW id \in Ids \cup {NoId},
                 NEW delayed \in BOOLEAN
          PROVE  KeepsOrder(display[w], NewDisplay(id, delayed))
  <2>1. NewDisplay(id, delayed) \in KmreDisplay
    BY NewDisplayType
  <2> QED BY <2>1, <1>zero DEF KeepsOrder, NewDisplay
<1> HIDE DEF Goal
<1>1. ASSUME NEW w \in Widgets, NEW id \in Ids \cup {NoId},
             NEW delayed \in BOOLEAN, RegisterDisplay(w, id, delayed)
      PROVE  Goal /\ ReplayInv'
  <2>1. Goal
    BY <1>1, <1>fresh, <1>kept DEF RegisterDisplay, queueVars
  <2>2. display'[w].last = 0 /\ gui'.w = w /\ gui'.pc \in {"append", "replayNew"}
    BY <1>1 DEF RegisterDisplay, NewDisplay, TypeOK
  <2> QED BY <2>1, <2>2 DEF ReplayInv
<1>2. ASSUME NEW w \in Widgets, RegisterReplay(w)
      PROVE  Goal /\ ReplayInv'
  <2>1. display[w].last = 0 /\ gui'.pc = "append"
    BY <1>2 DEF RegisterReplay, ReplayInv
  <2>2. Goal
    BY <1>2, <2>1, <1>queue, <1>zero, RedrawKeepsOrder DEF RegisterReplay, Goal
  <2> QED BY <2>1, <2>2 DEF ReplayInv
<1>3. ASSUME NEW w \in Widgets, RegisterAppend(w)
      PROVE  Goal /\ ReplayInv'
  BY <1>3, <1>same DEF RegisterAppend, GuiIdle, ReplayInv, queueVars
<1>4. ASSUME NEW w \in Widgets, NEW id \in Ids, ConnectWidget(w, id)
      PROVE  Goal /\ ReplayInv'
  <2>1. display[w].mDisplayId = NoId
    BY <1>4 DEF ConnectWidget, IdInv, IdFollows
  <2>2. Goal
    BY <1>4, <1>same DEF ConnectWidget, queueVars
  <2> QED BY <1>4, <2>1, <2>2 DEF ConnectWidget, ReplayInv
<1>5. ASSUME NEW w \in Widgets, ConnectDisplay(w)
      PROVE  Goal /\ ReplayInv'
  <2> DEFINE e == [display[w] EXCEPT !.mDisplayId = widgetId[w]]
  <2>1. display[w].last = 0
    BY <1>5, <1>typed DEF ConnectDisplay, ReplayInv
  <2>2. CASE InList(w)
    <3>1. display' = [display EXCEPT ![w] = e] /\ gui' = [pc |-> "replay", w |-> w]
      BY <1>5, <2>2 DEF ConnectDisplay
    <3>2. /\ e \in KmreDisplay /\ e.last = 0
          /\ e.mMissed = display[w].mMissed /\ (e.timer => e.mDelayed)
      <4>1. /\ e.last = display[w].last /\ e.mMissed = display[w].mMissed
            /\ e.timer = display[w].timer /\ e.mDelayed = display[w].mDelayed
        BY <1>typed DEF KmreDisplay
      <4>2. e \in KmreDisplay
        BY <1>typed, FieldsType DEF TypeOK
      <4> QED BY <2>1, <4>1, <4>2, <1>typed
    <3> HIDE DEF e
    <3>3. Goal
      BY <1>5, <2>1, <3>1, <3>2, <1>quiet, <1>kept DEF ConnectDisplay, queueVars
    <3>4. display'[w].last = 0
      BY <3>1, <3>2 DEF TypeOK
    <3> QED BY <3>1, <3>3, <3>4 DEF ReplayInv
  <2>3. CASE ~InList(w)
    BY <1>5, <2>3, <1>same DEF ConnectDisplay, GuiIdle, ReplayInv, queueVars
  <2> QED BY <2>2, <2>3
<1>6. ASSUME NEW w \in Widgets, ConnectReplay(w)
      PROVE  Goal /\ ReplayInv'
  <2>1. display[w].last = 0 /\ gui'.pc = "idle"
    BY <1>6 DEF ConnectReplay, ReplayInv, GuiIdle
  <2>2. Goal
    BY <1>6, <2>1, <1>queue, <1>zero, RedrawKeepsOrder DEF ConnectReplay, Goal
  <2> QED BY <2>1, <2>2 DEF ReplayInv
<1>7. ASSUME NEW w \in Widgets, NEW b \in BOOLEAN, EnableDisplayUpdate(w, b)
      PROVE  Goal /\ ReplayInv'
  <2>1. PICK i \in 1 .. Len(mDisplayList) :
            display' = [display EXCEPT
                           ![mDisplayList[i]] = EnableUpdate(@, b)]
    BY <1>7 DEF EnableDisplayUpdate, FirstWithId
  <2>2. PICK u \in Widgets : u = mDisplayList[i]
    BY ListTyped
  <2>3. KeepsOrder(display[u], EnableUpdate(display[u], b))
    <3>1. /\ EnableUpdate(display[u], b).last = display[u].last
          /\ EnableUpdate(display[u], b).mDisplayId = display[u].mDisplayId
      BY <1>typed, <1>zero, SameIdentity
    <3>2. /\ EnableUpdate(display[u], b).mMissed = display[u].mMissed
          /\ EnableUpdate(display[u], b).timer =>
                 EnableUpdate(display[u], b).mDelayed
      BY <1>typed, <1>zero, OrderFields
    <3> QED BY <3>1, <3>2, <1>quiet, <1>typed, EnableUpdateType
  <2>4. Goal
    BY <1>7, <2>1, <2>2, <2>3, <1>kept DEF EnableDisplayUpdate, queueVars
  <2> QED BY <1>7, <2>4 DEF EnableDisplayUpdate, GuiIdle, ReplayInv
<1>8. ASSUME NEW w \in Widgets, UnregisterDisplay(w)
      PROVE  Goal /\ ReplayInv'
  <2>1. CASE display' = display
    BY <1>8, <2>1, <1>same DEF UnregisterDisplay, GuiIdle, ReplayInv, queueVars
  <2>2. ASSUME NEW i \in 1 .. Len(mDisplayList),
               display' = [display EXCEPT
                              ![mDisplayList[i]] = NewDisplay(NoId, FALSE)]
        PROVE  Goal /\ ReplayInv'
    <3>1. mDisplayList[i] \in Widgets
      BY ListTyped
    <3>2. Goal
      BY <1>8, <2>2, <3>1, <1>fresh, <1>kept DEF UnregisterDisplay, queueVars
    <3> QED BY <1>8, <3>2 DEF UnregisterDisplay, GuiIdle, ReplayInv
  <2> QED BY <1>8, <2>1, <2>2 DEF UnregisterDisplay, FirstWithId
<1>9. ASSUME NEW w \in Widgets, TimerReady(w)
      PROVE  Goal /\ ReplayInv'
  <2> DEFINE e == [display[w] EXCEPT !.timer = FALSE, !.mUpdateReady = TRUE]
  <2>1. display' = [display EXCEPT ![w] = e]
    BY <1>9 DEF TimerReady
  <2>2. /\ e.last = display[w].last /\ e.mMissed = display[w].mMissed
        /\ e.mDisplayId = display[w].mDisplayId
        /\ e.timer = FALSE /\ e.mDelayed = display[w].mDelayed
    BY <1>typed DEF KmreDisplay
  <2>3. e \in KmreDisplay
    BY <1>typed, FieldsType DEF TypeOK
  <2> HIDE DEF e
  <2>4. Goal
    BY <1>9, <2>1, <2>2, <2>3, <1>quiet, <1>kept DEF TimerReady, queueVars
  <2>5. display'[w].mDelayed
    BY <1>9, <2>1, <2>2, <1>typed DEF TimerReady, TypeOK
  <2> QED BY <1>9, <2>4, <2>5 DEF TimerReady, ReplayInv
<1>10. ASSUME NEW w \in Widgets, TimerEnablePending(w)
       PROVE  Goal /\ ReplayInv'
  <2> DEFINE e == EnablePending(display[w])
  <2>1. display' = [display EXCEPT ![w] = e]
    BY <1>10 DEF TimerEnablePending
  <2>2. /\ e.last = display[w].last /\ e.mDisplayId = display[w].mDisplayId
        /\ e.mDelayed = display[w].mDelayed
    BY <1>typed, <1>zero, SameIdentity
  <2>3. e.mMissed = display[w].mMissed /\ (e.timer => e.mDelayed)
    BY <1>typed, <1>zero, OrderFields
  <2>4. e \in KmreDisplay
    BY <1>typed, EnablePendingType
  <2> HIDE DEF e
  <2>5. Goal
    BY <1>10, <2>1, <2>2, <2>3, <2>4, <1>quiet, <1>kept
       DEF TimerEnablePending, queueVars
  <2>6. display'[w].mDelayed
    BY <1>10, <2>1, <2>2 DEF TimerEnablePending, TypeOK, ReplayInv
  <2>7. gui' = [pc |-> "replayMissed", w |-> w]
    BY <1>10 DEF TimerEnablePending
  <2> QED BY <2>5, <2>6, <2>7 DEF ReplayInv
<1>11. ASSUME NEW w \in Widgets, TimerReplay(w)
       PROVE  Goal /\ ReplayInv'
  <2>1. display[w].mDelayed
    BY <1>11 DEF TimerReplay, ReplayInv
  <2>2. KeepsOrder(display[w], Update(display[w], display[w].mMissed))
    BY <2>1, <1>queue, <1>typed, UpdateKeepsOrder
  <2>3. Goal
    BY <1>11, <2>2, <1>kept DEF TimerReplay, queueVars
  <2> QED BY <1>11, <2>3 DEF TimerReplay, GuiIdle, ReplayInv
<1>still. display' = display /\ gui' = gui => ReplayInv'
  BY ReplayKept DEF SameIds
<1>12. ASSUME NEW id \in Ids, AddDirtyDisplay(id)
       PROVE  Goal /\ ReplayInv'
  BY <1>12, <1>same, <1>still DEF AddDirtyDisplay, guiVars
<1>13. ASSUME UpdateDisplays \/ UpdateDisplaysDone
       PROVE  Goal /\ ReplayInv'
  BY <1>13, <1>same, <1>still
     DEF UpdateDisplays, UpdateDisplaysDone, guiVars, queueVars
<1> DEFINE f == Head(mDirtyDisplays).frame
\* The decoder hands on or puts aside the frame at the head of the queue.
<1>head. ASSUME mDirtyDisplays # <<>>, mDirtyDisplays' = Tail(mDirtyDisplays),
                posted' = posted
         PROVE  /\ f \in Frame /\ BehindNext(f)
                /\ \A w \in Widgets : f >= display[w].last
  <2>1. Dequeue
    BY <1>head DEF Dequeue
  <2>2. f \in Frame
    BY <1>head, HeadTyped
  <2>3. BehindNext(f) /\ \A g \in Frame : Behind(g) => g < f
    BY <2>1, DequeueKeeps
  <2>4. ASSUME NEW w \in Widgets PROVE f >= display[w].last
    <3>1. display[w].last < f
      BY <1>typed, <2>3 DEF FramesBehind
    <3> QED BY <3>1, <2>2, <1>typed, FramesAssumption DEF Frame
  <2> QED BY <2>2, <2>3, <2>4
<1> HIDE DEF f
<1>14. ASSUME ParkFrame
       PROVE  Goal /\ ReplayInv'
  <2>1. /\ mDirtyDisplays # <<>> /\ mDirtyDisplays' = Tail(mDirtyDisplays)
        /\ posted' = posted /\ display' = display /\ gui' = gui
        /\ mUnupdatedDisplays' = [mUnupdatedDisplays EXCEPT
                                     ![Head(mDirtyDisplays).id] = f]
    BY <1>14 DEF ParkFrame, guiVars, TypeInv, DecHasFrame, f
  <2>2. ParkedBehind
    <3> SUFFICES ASSUME NEW id \in Ids
                 PROVE  BehindNext(mUnupdatedDisplays'[id])
      BY DEF ParkedBehind
    <3>1. mUnupdatedDisplays'[id] \in {mUnupdatedDisplays[id], f}
      BY <2>1 DEF TypeOK
    <3>2. BehindNext(mUnupdatedDisplays[id])
      BY <1>queue DEF TypeOK, FramesBehind, StaysBehind
    <3> QED BY <3>1, <3>2, <2>1, <1>head
  <2>3. Goal
    BY <2>1, <2>2, <1>queue, <1>zero, DisplaysKept DEF Goal
  <2> QED BY <2>1, <2>3, <1>still
<1>15. ASSUME LookUpDisplay
       PROVE  Goal /\ ReplayInv'
  <2>1. gui' = gui /\ UNCHANGED mUnupdatedDisplays
    BY <1>15 DEF LookUpDisplay, guiVars, queueVars
  <2>2. CASE display' = display
    BY <2>1, <2>2, <1>same, <1>still
  <2>3. ASSUME NEW u \in Widgets,
               display' = [display EXCEPT ![u] = FirstUpdate(display[u])]
        PROVE  Goal /\ ReplayInv'
    <3> DEFINE e == FirstUpdate(display[u])
    <3>1. /\ e.last = display[u].last /\ e.mDisplayId = display[u].mDisplayId
          /\ e.mDelayed = display[u].mDelayed
      BY <1>typed, <1>zero, SameIdentity
    <3>2. e.mMissed = display[u].mMissed /\ (e.timer => e.mDelayed)
      BY <1>typed, <1>zero, OrderFields
    <3>3. e \in KmreDisplay
      BY <1>typed, FirstUpdateType
    <3> HIDE DEF e
    <3>4. display' = [display EXCEPT ![u] = e]
      BY <2>3 DEF e
    <3>5. Goal
      BY <2>1, <3>1, <3>2, <3>3, <3>4, <1>quiet, <1>kept
    <3>6. /\ SameIds
          /\ \A w \in Widgets : /\ display'[w].mDelayed = display[w].mDelayed
                                /\ display'[w].last = display[w].last
      BY <3>1, <3>4 DEF SameIds, TypeOK
    <3> QED BY <2>1, <3>5, <3>6, ReplayKept DEF ReplayInv
  <2>4. ASSUME NEW i \in 1 .. Len(mDisplayList),
               display' = [display EXCEPT ![mDisplayList[i]] =
                               FirstUpdate(display[mDisplayList[i]])]
        PROVE  Goal /\ ReplayInv'
    BY <2>3, <2>4, ListTyped
  <2> QED BY <1>15, <2>2, <2>4 DEF LookUpDisplay, FirstWithId
<1>16. ASSUME NEW w \in Widgets, StoreFrame(w)
       PROVE  Goal /\ ReplayInv'
  <2> DEFINE e == Store(display[w], f)
  <2>1. /\ mDirtyDisplays # <<>> /\ mDirtyDisplays' = Tail(mDirtyDisplays)
        /\ posted' = posted /\ gui' = gui /\ UNCHANGED mUnupdatedDisplays
        /\ display' = [display EXCEPT ![w] = e]
    BY <1>16 DEF StoreFrame, FrameDone, guiVars, TypeInv, DecHasFrame, f
  <2>2. f \in Frame /\ BehindNext(f)
    BY <2>1, <1>head
  <2>3. /\ e \in KmreDisplay /\ e.last = display[w].last
        /\ e.mDisplayId = display[w].mDisplayId
        /\ e.mDelayed = display[w].mDelayed
    BY <2>2, <1>typed, PresentType, SameIdentity
  <2>4. e.mMissed \in {display[w].mMissed, f} /\ (e.timer => e.mDelayed)
    BY <2>2, <1>typed, OrderFields
  <2> HIDE DEF e
  <2>5. KeepsOrder(display[w], e)
    BY <2>2, <2>3, <2>4, <1>typed DEF KeepsOrder
  <2>6. /\ SameIds
        /\ \A v \in Widgets : /\ display'[v].mDelayed = display[v].mDelayed
                              /\ display'[v].last = display[v].last
    BY <2>1, <2>3 DEF SameIds, TypeOK
  <2> QED BY <2>1, <2>5, <2>6, <1>kept, ReplayKept DEF ReplayInv
<1>17. ASSUME NEW w \in Widgets, ForwardFrame(w)
       PROVE  Goal /\ ReplayInv'
  <2> DEFINE e == Forward(display[w], f)
  <2>1. /\ mDirtyDisplays # <<>> /\ mDirtyDisplays' = Tail(mDirtyDisplays)
        /\ posted' = posted /\ gui' = gui /\ UNCHANGED mUnupdatedDisplays
        /\ display' = [display EXCEPT ![w] = e]
        /\ dec.pc = "forward" /\ dec.w = w
    BY <1>17 DEF ForwardFrame, FrameDone, guiVars, TypeInv, DecHasFrame, f
  <2>2. f \in Frame /\ BehindNext(f) /\ f >= display[w].last
    BY <2>1, <1>head
  <2>3. /\ e \in KmreDisplay /\ e.mDisplayId = display[w].mDisplayId
        /\ e.mDelayed = display[w].mDelayed
    BY <2>2, <1>typed, PresentType, SameIdentity
  <2>4. /\ e.last \in {display[w].last, f}
        /\ e.mMissed \in {display[w].mMissed, f} /\ (e.timer => e.mDelayed)
    BY <2>2, <1>typed, OrderFields
  <2> HIDE DEF e
  <2>5. display[w].mDisplayId # NoId /\ InList(w) /\ listLock = "decoder"
    BY <2>1 DEF LockInv
  <2>6. KeepsOrder(display[w], e)
    BY <2>2, <2>3, <2>4, <2>5, <1>typed DEF KeepsOrder
  <2>7. /\ SameIds
        /\ \A v \in Widgets : display'[v].mDelayed = display[v].mDelayed
    BY <2>1, <2>3 DEF SameIds, TypeOK
  \* The decoder has the lock that the GUI thread replays under, and a display
  \* that is being registered is not in the list yet.
  <2>8. gui.pc \in {"replayNew", "replay"} => gui.w \in Widgets /\ gui.w # w
    <3>1. gui.pc # "replay"
      BY <2>5 DEF LockInv
    <3>2. gui.pc = "replayNew" => gui.w \in Widgets /\ ~InList(gui.w)
      BY DEF IdInv, Pending
    <3> QED BY <2>5, <3>1, <3>2
  <2>9. gui.pc \in {"replayNew", "replay"} =>
            display'[gui.w].last = display[gui.w].last
    BY <2>1, <2>8 DEF TypeOK
  <2> QED BY <2>1, <2>6, <2>7, <2>9, <1>kept, ReplayKept
<1>18. ASSUME UNCHANGED vars
       PROVE  Goal /\ ReplayInv'
  BY <1>18, <1>same, <1>still DEF vars
<1>19. ASSUME NEW w \in Widgets, GuiCall(w)
       PROVE  Goal /\ ReplayInv'
  BY <1>19, <1>1, <1>4, <1>7, <1>8 DEF GuiCall
<1>20. ASSUME NEW w \in Widgets, GuiStep(w)
       PROVE  Goal /\ ReplayInv'
  BY <1>20, <1>2, <1>3, <1>5, <1>6, <1>9, <1>10, <1>11 DEF GuiStep
<1>21. ASSUME DecoderStep
       PROVE  Goal /\ ReplayInv'
  BY <1>21, <1>13, <1>14, <1>15, <1>16, <1>17 DEF DecoderStep
<1>22. Goal /\ ReplayInv'
  BY <1>12, <1>18, <1>19, <1>20, <1>21 DEF Next
<1> QED BY <1>22, <1>queue DEF OrderInv, Goal

\* What is known of the locks and of the frames in every reachable state.
LEMMA SpecOrder == Spec => [](TypeInv /\ IdInv /\ LockInv /\ OrderInv)
<1>1. TypeInv /\ IdInv /\ LockInv /\ OrderInv /\ [Next]_vars =>
          TypeInv' /\ IdInv' /\ LockInv' /\ OrderInv'
  BY TypeStep, IdStep, LockStep, OrderStep
<1> QED BY <1>1, TypeInit, IdInit, LockInit, OrderInit, PTL DEF Spec

\* mDisplayListLock excludes: the GUI thread replays a parked frame while it
\* has the lock, the decoder works on a display while it has the lock, and the
\* display it works on stays in the list and keeps an id until it lets go.
THEOREM ListLockExcludes == Spec => []LockInv
<1> QED BY SpecOrder, PTL

\* Frames are posted, queued, parked, missed and handed over in one order: no
\* display, no parking place and no missed frame is ahead of the queue.
THEOREM QueueIsNewest == Spec => [](QueueInOrder /\ FramesBehind)
<1>1. OrderInv => QueueInOrder /\ FramesBehind
  BY DEF OrderInv
<1> QED BY <1>1, SpecOrder, PTL

\* A display without delay never goes back to an older frame, although the
\* frame that waited for it is replayed by the GUI thread and the others come
\* from the decoder.
THEOREM UndelayedInOrder == Spec => FramesInOrder
<1>1. TypeInv /\ IdInv /\ LockInv /\ OrderInv /\ [Next]_vars =>
        [\A w \in Widgets :
            /\ ~display[w].mDelayed
            /\ display'[w].last # 0
            => display'[w].last >= display[w].last]_vars
  BY OrderStep DEF InOrder
<1> QED BY <1>1, SpecOrder, PTL DEF Spec, FramesInOrder

-----------------------------------------------------------------------------
(* What EveryBatchHandled and DelayEnds rest on, without fairness.          *)

DelayTimed(d) == d.mDisplayReady => d.mUpdateReady \/ d.timer

\* A display that got its first frame is ready, or its delay timer runs: there
\* is no third state in which it would wait for ever.
DelayIsTimed == \A w \in Widgets : DelayTimed(display[w])

\* In the middle of a batch the decoder has the frame it works on, and when the
\* lock of the list keeps it from the next one, the GUI thread has the lock
\* where it gives it back in one step.
BatchIsServed ==
    /\ dec.pc \in {"forward", "store", "park"} => mDirtyDisplays # <<>>
    /\ dec.pc \in {"forward", "store"} => dec.w \in Widgets
    /\ dec.pc = "lookup" /\ listLock # "free" =>
           gui.pc = "replay" /\ gui.w \in Widgets

\* What is left of a batch: two steps for each frame, or one for a frame that
\* was looked up, and one to return.
BatchWork == 2 * Len(mDirtyDisplays) + (IF dec.pc = "lookup" THEN 1 ELSE 0)

\* Every step of the decoder leaves less of the batch, and nothing adds to it.
BatchWindsDown ==
    [][dec.pc # "idle" => /\ BatchWork' \in Nat /\ BatchWork' <= BatchWork
                          /\ DecoderStep => BatchWork' < BatchWork]_vars

LEMMA UpdateTimed ==
    ASSUME NEW d \in KmreDisplay, DelayTimed(d), NEW f, NEW b \in BOOLEAN
    PROVE  /\ DelayTimed(EnableUpdate(d, b)) /\ DelayTimed(EnablePending(d))
           /\ DelayTimed(FirstUpdate(d)) /\ DelayTimed(Forward(d, f))
           /\ DelayTimed(Store(d, f)) /\ DelayTimed(Update(d, f))
<1>1. DelayTimed(EnableUpdate(d, b)) /\ DelayTimed(EnablePending(d))
  BY DEF DelayTimed, EnableUpdate, EnablePending, KmreDisplay
<1>2. FirstUpdate(d) \in KmreDisplay /\ DelayTimed(FirstUpdate(d))
  BY FirstUpdateType
     DEF DelayTimed, FirstUpdate, ReadyUpdate, EnablePending, KmreDisplay
<1>3. ASSUME NEW e \in KmreDisplay, DelayTimed(e)
      PROVE  DelayTimed(Forward(e, f)) /\ DelayTimed(Store(e, f))
  BY <1>3 DEF DelayTimed, Forward, Store, KmreDisplay
<1>4. DelayTimed(Update(d, f))
  BY <1>2, <1>3 DEF Update, Present
<1> QED BY <1>1, <1>2, <1>3, <1>4

LEMMA DelayInit == Init => DelayIsTimed
BY DEF Init, DelayIsTimed, DelayTimed, NewDisplay

\* A display that changes stays timed when its new state is.
LEMMA OneDisplayTimed ==
    ASSUME TypeOK, DelayIsTimed, NEW w \in Widgets, NEW e, DelayTimed(e),
           display' = [display EXCEPT ![w] = e]
    PROVE  DelayIsTimed'
<1>1. \A v \in Widgets : display'[v] = IF v = w THEN e ELSE display[v]
  BY DEF TypeOK
<1>2. \A v \in Widgets : DelayTimed(display'[v])
  BY <1>1 DEF DelayIsTimed
<1> QED BY <1>2 DEF DelayIsTimed, DelayTimed

LEMMA RedrawTimed ==
    ASSUME TypeOK, DelayIsTimed, NEW w \in Widgets, RedrawMissedUpdating(w)
    PROVE  DelayIsTimed'
<1> DEFINE f == mUnupdatedDisplays[display[w].mDisplayId]
           e == Update(display[w], f)
<1>1. display[w] \in KmreDisplay /\ DelayTimed(display[w])
  BY DEF TypeOK, DelayIsTimed
<1>2. DelayTimed(e)
  BY <1>1, UpdateTimed
<1>3. CASE UNCHANGED display
  BY <1>3 DEF DelayIsTimed, DelayTimed
<1>4. CASE display' = [display EXCEPT ![w] = e]
  <2> HIDE DEF e
  <2> QED BY <1>2, <1>4, OneDisplayTimed
<1> QED BY <1>3, <1>4 DEF RedrawMissedUpdating

LEMMA DelayStep == TypeInv /\ DelayIsTimed /\ [Next]_vars => DelayIsTimed'
<1> SUFFICES ASSUME TypeInv, DelayIsTimed, [Next]_vars PROVE DelayIsTimed'
  OBVIOUS
<1>typed. TypeOK /\ \A w \in Widgets : /\ display[w] \in KmreDisplay
                                       /\ DelayTimed(display[w])
  BY DEF TypeInv, TypeOK, DelayIsTimed
<1>same. UNCHANGED display => DelayIsTimed'
  BY DEF DelayIsTimed, DelayTimed
<1>new. \A id, delayed : DelayTimed(NewDisplay(id, delayed))
  BY DEF DelayTimed, NewDisplay
<1>1. ASSUME NEW w \in Widgets, GuiCall(w)
      PROVE  DelayIsTimed'
  <2>1. ASSUME NEW id \in Ids \cup {NoId}, NEW delayed \in BOOLEAN,
               RegisterDisplay(w, id, delayed)
        PROVE  DelayIsTimed'
    BY <2>1, <1>typed, <1>new, OneDisplayTimed DEF RegisterDisplay
  <2>2. ASSUME NEW id \in Ids, ConnectWidget(w, id)
        PROVE  DelayIsTimed'
    BY <2>2, <1>same DEF ConnectWidget
  <2>3. ASSUME NEW b \in BOOLEAN, EnableDisplayUpdate(w, b)
        PROVE  DelayIsTimed'
    <3>1. PICK i \in 1 .. Len(mDisplayList) :
              display' = [display EXCEPT ![mDisplayList[i]] =
                             EnableUpdate(display[mDisplayList[i]], b)]
      BY <2>3 DEF EnableDisplayUpdate
    <3>2. PICK v \in Widgets : v = mDisplayList[i]
      BY <1>typed, ListTyped
    <3>3. DelayTimed(EnableUpdate(display[v], b))
      BY <1>typed, UpdateTimed
    <3> QED BY <3>1, <3>2, <3>3, <1>typed, OneDisplayTimed
  <2>4. CASE UnregisterDisplay(w)
    <3>1. CASE UNCHANGED display
      BY <3>1, <1>same
    <3>2. CASE ~ UNCHANGED display
      <4>1. PICK i \in 1 .. Len(mDisplayList) :
                display' = [display EXCEPT ![mDisplayList[i]] =
                               NewDisplay(NoId, FALSE)]
        BY <2>4, <3>2 DEF UnregisterDisplay
      <4>2. mDisplayList[i] \in Widgets
        BY <1>typed, ListTyped
      <4> QED BY <4>1, <4>2, <1>typed, <1>new, OneDisplayTimed
    <3> QED BY <3>1, <3>2
  <2> QED BY <1>1, <2>1, <2>2, <2>3, <2>4 DEF GuiCall
<1>2. ASSUME NEW w \in Widgets, GuiStep(w)
      PROVE  DelayIsTimed'
  <2>1. CASE RegisterReplay(w) \/ ConnectReplay(w)
    BY <2>1, <1>typed, RedrawTimed DEF RegisterReplay, ConnectReplay
  <2>2. CASE RegisterAppend(w)
    BY <2>2, <1>same DEF RegisterAppend
  <2>3. CASE ConnectDisplay(w)
    <3> DEFINE e == [display[w] EXCEPT !.mDisplayId = widgetId[w]]
    <3>1. DelayTimed(e)
      BY <1>typed DEF DelayTimed, KmreDisplay
    <3>2. UNCHANGED display \/ display' = [display EXCEPT ![w] = e]
      BY <2>3 DEF ConnectDisplay
    <3> HIDE DEF e
    <3> QED BY <3>1, <3>2, <1>same, <1>typed, OneDisplayTimed
  <2>4. CASE TimerReady(w)
    <3> DEFINE e == [display[w] EXCEPT !.timer = FALSE, !.mUpdateReady = TRUE]
    <3>1. DelayTimed(e)
      BY <1>typed DEF DelayTimed, KmreDisplay
    <3>2. display' = [display EXCEPT ![w] = e]
      BY <2>4 DEF TimerReady
    <3> HIDE DEF e
    <3> QED BY <3>1, <3>2, <1>typed, OneDisplayTimed
  <2>5. CASE TimerEnablePending(w)
    <3>1. DelayTimed(EnablePending(display[w]))
      BY <1>typed, UpdateTimed
    <3> QED BY <2>5, <3>1, <1>typed, OneDisplayTimed DEF TimerEnablePending
  <2>6. CASE TimerReplay(w)
    <3>1. DelayTimed(Update(display[w], display[w].mMissed))
      BY <1>typed, UpdateTimed
    <3> QED BY <2>6, <3>1, <1>typed, OneDisplayTimed DEF TimerReplay
  <2> QED BY <1>2, <2>1, <2>2, <2>3, <2>4, <2>5, <2>6 DEF GuiStep
<1>3. ASSUME NEW id \in Ids, AddDirtyDisplay(id)
      PROVE  DelayIsTimed'
  BY <1>3, <1>same DEF AddDirtyDisplay
<1>4. CASE DecoderStep
  <2>1. CASE UpdateDisplays \/ UpdateDisplaysDone \/ ParkFrame
    BY <2>1, <1>same DEF UpdateDisplays, UpdateDisplaysDone, ParkFrame
  <2>2. CASE LookUpDisplay
    <3>1. CASE UNCHANGED display
      BY <3>1, <1>same
    <3>2. CASE ~ UNCHANGED display
      <4>1. PICK i \in 1 .. Len(mDisplayList) :
                display' = [display EXCEPT ![mDisplayList[i]] =
                               FirstUpdate(display[mDisplayList[i]])]
        BY <2>2, <3>2 DEF LookUpDisplay
      <4>2. PICK v \in Widgets : v = mDisplayList[i]
        BY <1>typed, ListTyped
      <4>3. DelayTimed(FirstUpdate(display[v]))
        BY <1>typed, UpdateTimed
      <4> QED BY <4>1, <4>2, <4>3, <1>typed, OneDisplayTimed
    <3> QED BY <3>1, <3>2
  <2>3. ASSUME NEW w \in Widgets, ForwardFrame(w) \/ StoreFrame(w)
        PROVE  DelayIsTimed'
    <3> DEFINE f == Head(mDirtyDisplays).frame
    <3>1. /\ DelayTimed(Forward(display[w], f))
          /\ DelayTimed(Store(display[w], f))
      BY <1>typed, UpdateTimed
    <3> QED BY <2>3, <3>1, <1>typed, OneDisplayTimed
            DEF ForwardFrame, StoreFrame
  <2> QED BY <1>4, <2>1, <2>2, <2>3 DEF DecoderStep
<1>5. CASE UNCHANGED vars
  BY <1>5, <1>same DEF vars
<1> QED BY <1>1, <1>2, <1>3, <1>4, <1>5 DEF Next

\* The delay of a display that got its first frame is over or its timer runs,
\* whatever the decoder and the GUI thread do to the display meanwhile: the
\* part of DelayEnds that needs no fairness.
THEOREM DelaysAreTimed == Spec => []DelayIsTimed
<1>1. TypeInv /\ DelayIsTimed /\ [Next]_vars => TypeInv' /\ DelayIsTimed'
  BY TypeStep, DelayStep
<1> QED BY <1>1, TypeInit, DelayInit, PTL DEF Spec

\* The decoder is never kept from a batch by a lock that nobody gives back, and
\* never without the frame or the display it is about to work on: the deadlock
\* that would keep EveryBatchHandled from being true does not exist.
THEOREM BatchesAreServed == Spec => []BatchIsServed
<1>1. TypeInv /\ LockInv /\ OrderInv => BatchIsServed
  BY DEF TypeInv, TypeOK, DecHasFrame, LockInv, OrderInv, ReplayInv,
         BatchIsServed
<1> QED BY <1>1, SpecOrder, PTL

LEMMA BatchStep ==
    TypeInv /\ [Next]_vars =>
        (dec.pc # "idle" => /\ BatchWork' \in Nat /\ BatchWork' <= BatchWork
                            /\ DecoderStep => BatchWork' < BatchWork)
<1> SUFFICES ASSUME TypeInv, [Next]_vars, dec.pc # "idle"
             PROVE  /\ BatchWork' \in Nat /\ BatchWork' <= BatchWork
                    /\ DecoderStep => BatchWork' < BatchWork
  OBVIOUS
<1>queue. /\ mDirtyDisplays \in Seq([id : Ids, frame : Frame])
          /\ Len(mDirtyDisplays) \in Nat
          /\ mDirtyDisplays # <<>> =>
                 /\ Len(mDirtyDisplays) > 0
                 /\ Len(Tail(mDirtyDisplays)) = Len(mDirtyDisplays) - 1
  BY DEF TypeInv, TypeOK
<1>1. CASE DecoderStep
  <2>1. CASE UpdateDisplaysDone
    BY <1>queue, <2>1 DEF UpdateDisplaysDone, BatchWork, DecAt, queueVars
  <2>2. CASE LookUpDisplay
    <3>1. dec.pc = "lookup" /\ dec'.pc # "lookup"
      BY <2>2 DEF LookUpDisplay, DecAt
    <3> QED BY <2>2, <3>1, <1>queue
            DEF LookUpDisplay, BatchWork, queueVars
  <2>3. ASSUME ParkFrame \/ \E w \in Widgets : ForwardFrame(w) \/ StoreFrame(w)
        PROVE  BatchWork' \in Nat /\ BatchWork' < BatchWork
    <3>1. /\ mDirtyDisplays # <<>> /\ mDirtyDisplays' = Tail(mDirtyDisplays)
          /\ dec.pc # "lookup"
      BY <2>3 DEF ParkFrame, ForwardFrame, StoreFrame, FrameDone, TypeInv,
                  DecHasFrame
    <3> QED BY <3>1, <1>queue DEF BatchWork
  <2>4. ~UpdateDisplays
    BY DEF UpdateDisplays
  <2> QED BY <1>1, <1>queue, <2>1, <2>2, <2>3, <2>4 DEF DecoderStep, BatchWork
<1>2. ASSUME ~DecoderStep
      PROVE  UNCHANGED <<mDirtyDisplays, dec>>
  <2>1. ASSUME NEW w \in Widgets, GuiCall(w)
        PROVE  UNCHANGED <<mDirtyDisplays, dec>>
    BY <2>1 DEF GuiCall, RegisterDisplay, ConnectWidget, EnableDisplayUpdate,
                UnregisterDisplay, queueVars
  <2>2. ASSUME NEW w \in Widgets, GuiStep(w)
        PROVE  UNCHANGED <<mDirtyDisplays, dec>>
    BY <2>2 DEF GuiStep, RegisterReplay, RegisterAppend, ConnectDisplay,
                ConnectReplay, TimerReady, TimerEnablePending, TimerReplay,
                queueVars
  <2>3. \A id \in Ids : ~AddDirtyDisplay(id)
    BY DEF AddDirtyDisplay
  <2>4. CASE UNCHANGED vars
    BY <2>4 DEF vars
  <2> QED BY <1>2, <2>1, <2>2, <2>3, <2>4 DEF Next
<1> QED BY <1>1, <1>2, <1>queue DEF BatchWork

\* A batch ends after a bounded number of steps of the decoder, because nobody
\* posts a frame while updateDisplays holds mDirtyDisplaysLock: the part of
\* EveryBatchHandled that needs no fairness.
THEOREM BatchesWindDown == Spec => BatchWindsDown
<1> QED BY BatchStep, SpecOrder, PTL DEF Spec, BatchWindsDown
=============================================================================
