--------------------------- MODULE DisplayBackend ---------------------------
(***************************************************************************)
(* The display backend of kylin-kmre-window: the frames Android posts for  *)
(* its virtual displays, on the way from the decoder thread to the         *)
(* renderer of the window that shows the display.                          *)
(*                                                                         *)
(*   src/window/display/displaybackend/displaybackend.{h,cpp}              *)
(*   src/window/display/displaybackend/kmredisplay.{h,cpp}                 *)
(*                                                                         *)
(* Threads.  The decoder (libDisplayControl) calls addDirtyDisplay and     *)
(* updateDisplays.  The GUI thread runs one call of the backend at a time: *)
(* it registers, connects, enables and unregisters displays, and fires the *)
(* delay timers of KmreDisplay, whose lambda takes no lock.                *)
(*                                                                         *)
(* Locks.  mDisplayListLock is listLock.  mDirtyDisplaysLock is held from  *)
(* the first to the last line of updateDisplays, that is while dec.pc is   *)
(* not "idle".  mUnupdatedDisplaysLock is innermost and guards single      *)
(* steps, which makes it implicit in their atomicity.                      *)
(***************************************************************************)
EXTENDS Integers, Sequences, SequencesExt

CONSTANTS Widgets,   \* DisplayWidget objects; each lives once
          NoWidget,  \* no widget: the GUI thread or the decoder is on none
          Ids,       \* the ids Android gives its virtual displays
          MaxFrames  \* bound: how many frames Android posts

ASSUME IdsAssumption    == Ids \subseteq Nat
ASSUME FramesAssumption == MaxFrames \in Nat
ASSUME WidgetAssumption == NoWidget \notin Widgets

VARIABLES
    life,            \* [Widgets -> {"new", "live", "dead"}]
    widgetId,        \* DisplayWidget::mId
    display,         \* the KmreDisplay made for a widget
    mDisplayList,    \* the KmreDisplays, by widget, in registration order
    mDirtyDisplays,  \* posted and not handled: sequence of [id, frame]
    mUnupdatedDisplays, \* [Ids -> Frame], 0: no entry
    posted,          \* frames posted so far; a frame is its number
    listLock,        \* who holds mDisplayListLock
    gui,             \* what the GUI thread is in the middle of
    dec,             \* what updateDisplays is in the middle of
    asked            \* history: the last enableUpdate(b) each display got

guiVars   == <<life, widgetId, mDisplayList, gui, asked>>
queueVars == <<mDirtyDisplays, mUnupdatedDisplays, posted>>
vars == <<life, widgetId, display, mDisplayList, mDirtyDisplays,
          mUnupdatedDisplays, posted, listLock, gui, dec, asked>>

NoId  == -1
Frame == 0 .. MaxFrames

-----------------------------------------------------------------------------
(* KmreDisplay                                                             *)

KmreDisplay ==
    [mDisplayId         : Ids \cup {NoId},
     mDelayed           : BOOLEAN,        \* mDelayUpdateTime > 0
     mDisplayReady      : BOOLEAN,        \* a first frame came
     mUpdateReady       : BOOLEAN,        \* frames may be rendered
     mUpdateEnabled     : BOOLEAN,
     mUpdateEnableLater : BOOLEAN,
     mMissed            : Frame,          \* mMissedDisplayInfo.name
     timer              : BOOLEAN,        \* the delay timer runs
     rendererOn         : BOOLEAN,        \* DisplayHelper::mUpdateEnabled
     last               : Frame]          \* last frame handed to forceUpdate

\* Mutant: the missed frame starts at the sentinel of the ids.
NewDisplayMissedUnset(id, delayed) ==
    [mDisplayId |-> id, mDelayed |-> delayed, mDisplayReady |-> FALSE,
     mUpdateReady |-> FALSE, mUpdateEnabled |-> FALSE,
     mUpdateEnableLater |-> FALSE, mMissed |-> NoId, timer |-> FALSE,
     rendererOn |-> TRUE, last |-> 0]

NewDisplay(id, delayed) ==
    [mDisplayId |-> id, mDelayed |-> delayed, mDisplayReady |-> FALSE,
     mUpdateReady |-> FALSE, mUpdateEnabled |-> FALSE,
     mUpdateEnableLater |-> FALSE, mMissed |-> 0, timer |-> FALSE,
     rendererOn |-> TRUE, last |-> 0]

\* Mutant: disabling forgets a request that waits for the display to be ready.
EnableUpdateKeepsPending(d, enable) ==
    IF enable
    THEN IF d.mUpdateReady
         THEN [d EXCEPT !.mUpdateEnabled = TRUE, !.rendererOn = TRUE]
         ELSE [d EXCEPT !.mUpdateEnableLater = TRUE]
    ELSE [d EXCEPT !.mUpdateEnabled = FALSE, !.rendererOn = FALSE]

\* KmreDisplay::enableUpdate
EnableUpdate(d, enable) ==
    IF enable
    THEN IF d.mUpdateReady
         THEN [d EXCEPT !.mUpdateEnabled = TRUE, !.mUpdateEnableLater = FALSE,
                        !.rendererOn = TRUE]
         ELSE [d EXCEPT !.mUpdateEnableLater = TRUE]
    ELSE [d EXCEPT !.mUpdateEnabled = FALSE, !.mUpdateEnableLater = FALSE,
                   !.rendererOn = FALSE]

\* The second half of readyUpdate: a request made before is honoured now.
EnablePending(d) ==
    IF d.mUpdateEnableLater
    THEN [d EXCEPT !.mUpdateEnableLater = FALSE, !.mUpdateEnabled = TRUE,
                   !.rendererOn = TRUE]
    ELSE d

\* KmreDisplay::readyUpdate
ReadyUpdate(d) == EnablePending([d EXCEPT !.mUpdateReady = TRUE])

\* Mutant: the delay timer is not started.
FirstUpdateNoTimer(d) ==
    IF d.mDisplayReady \/ d.mDelayed
    THEN [d EXCEPT !.mDisplayReady = TRUE]
    ELSE ReadyUpdate([d EXCEPT !.mDisplayReady = TRUE])

\* The first-update part of KmreDisplay::update: start the delay or be ready.
FirstUpdate(d) ==
    IF d.mDisplayReady
    THEN d
    ELSE LET r == [d EXCEPT !.mDisplayReady = TRUE]
         IN  IF d.mDelayed THEN [r EXCEPT !.timer = TRUE] ELSE ReadyUpdate(r)

\* Mutant: frames pass without a look at mUpdateEnabled.
ForwardUnchecked(d, f) == IF f > 0 THEN [d EXCEPT !.last = f] ELSE d

\* forceUpdate, behind the check of mUpdateEnabled and of the buffer name.
Forward(d, f) == IF d.mUpdateEnabled /\ f > 0 THEN [d EXCEPT !.last = f] ELSE d

Store(d, f) == [d EXCEPT !.mMissed = f]

\* The rest of KmreDisplay::update, when no other thread is in between.
Present(d, f) == IF d.mUpdateReady THEN Forward(d, f) ELSE Store(d, f)

\* KmreDisplay::update
Update(d, f) ==
    IF d.mDisplayId >= 0 THEN Present(FirstUpdate(d), f) ELSE d

-----------------------------------------------------------------------------
(* The list of displays                                                    *)

InList(w) == \E i \in 1 .. Len(mDisplayList) : mDisplayList[i] = w

HasId(i, id) == display[mDisplayList[i]].mDisplayId = id

\* Mutant: the loop stops at the first display, whatever its id.
FirstWithIdAny(i, id) == i \in 1 .. Len(mDisplayList) /\ i = 1

\* Position i holds the first display with this id, the one every loop takes.
FirstWithId(i, id) == /\ i \in 1 .. Len(mDisplayList)
                      /\ HasId(i, id)
                      /\ \A j \in 1 .. (i - 1) : ~HasId(j, id)

NoneWithId(id) == \A i \in 1 .. Len(mDisplayList) : ~HasId(i, id)

\* No live widget shows this id: Android gives each display an id of its own.
Unused(id) == \A w \in Widgets : life[w] = "live" => widgetId[w] # id

-----------------------------------------------------------------------------
TypeOK ==
    /\ life \in [Widgets -> {"new", "live", "dead"}]
    /\ widgetId \in [Widgets -> Ids \cup {NoId}]
    /\ display \in [Widgets -> KmreDisplay]
    /\ mDisplayList \in Seq(Widgets)
    /\ mDirtyDisplays \in Seq([id : Ids, frame : Frame])
    /\ mUnupdatedDisplays \in [Ids -> Frame]
    /\ posted \in Frame
    /\ listLock \in {"free", "gui", "decoder"}
    /\ gui \in [pc : {"idle", "replayNew", "append", "find", "replay",
                      "enablePending", "replayMissed"},
                w  : Widgets \cup {NoWidget}]
    /\ dec \in [pc : {"idle", "lookup", "forward", "store", "park"},
                w  : Widgets \cup {NoWidget}]
    /\ asked \in [Widgets -> BOOLEAN]

GuiIdle == [pc |-> "idle", w |-> NoWidget]
DecAt(pc) == [pc |-> pc, w |-> NoWidget]

Init ==
    /\ life = [w \in Widgets |-> "new"]
    /\ widgetId = [w \in Widgets |-> NoId]
    /\ display = [w \in Widgets |-> NewDisplay(NoId, FALSE)]
    /\ mDisplayList = <<>>
    /\ mDirtyDisplays = <<>>
    /\ mUnupdatedDisplays = [id \in Ids |-> 0]
    /\ posted = 0
    /\ listLock = "free"
    /\ gui = GuiIdle
    /\ dec = DecAt("idle")
    /\ asked = [w \in Widgets |-> FALSE]

-----------------------------------------------------------------------------
(* The GUI thread: calls of the backend                                    *)

\* registerDisplay, up to connectDisplay.  A main display has no id yet; an
\* accessory display has the id of its Android display from the start.
RegisterDisplay(w, id, delayed) ==
    /\ gui = GuiIdle
    /\ life[w] = "new"
    /\ id # NoId => Unused(id)
    /\ life' = [life EXCEPT ![w] = "live"]
    /\ widgetId' = [widgetId EXCEPT ![w] = id]
    /\ display' = [display EXCEPT ![w] = NewDisplay(id, delayed)]
    /\ asked' = [asked EXCEPT ![w] = FALSE]
    /\ gui' = [pc |-> IF id = NoId THEN "append" ELSE "replayNew", w |-> w]
    /\ UNCHANGED <<mDisplayList, queueVars, listLock, dec>>

\* redrawMissedUpdating: give the display the frame that was waiting for it.
RedrawMissedUpdating(w) ==
    LET id == display[w].mDisplayId
    IN  IF mUnupdatedDisplays[id] # 0
        THEN /\ display' = [display EXCEPT
                               ![w] = Update(@, mUnupdatedDisplays[id])]
             /\ mUnupdatedDisplays' = [mUnupdatedDisplays EXCEPT ![id] = 0]
        ELSE UNCHANGED <<display, mUnupdatedDisplays>>

\* registerDisplay calls it before it takes the lock of the list ...
RegisterReplay(w) ==
    /\ gui = [pc |-> "replayNew", w |-> w]
    /\ RedrawMissedUpdating(w)
    /\ gui' = [gui EXCEPT !.pc = "append"]
    /\ UNCHANGED <<life, widgetId, mDisplayList, mDirtyDisplays, posted,
                   listLock, dec, asked>>

\* ... and enters the display in the list last.
RegisterAppend(w) ==
    /\ gui = [pc |-> "append", w |-> w]
    /\ listLock = "free"
    /\ mDisplayList' = Append(mDisplayList, w)
    /\ gui' = GuiIdle
    /\ UNCHANGED <<life, widgetId, display, queueVars, listLock, dec, asked>>

\* DisplayWidget::connectDisplay: the id of a main display is known now.
\* KmreWindow::updateDisplay lets this happen once in the life of a widget.
ConnectWidget(w, id) ==
    /\ gui = GuiIdle
    /\ life[w] = "live"
    /\ widgetId[w] = NoId
    /\ Unused(id)
    /\ widgetId' = [widgetId EXCEPT ![w] = id]
    /\ gui' = [pc |-> "find", w |-> w]
    /\ UNCHANGED <<life, display, mDisplayList, queueVars, listLock, dec, asked>>

\* Mutant: the lock of the list is not held while the display is connected.
ConnectDisplayUnlocked(w) ==
    /\ gui = [pc |-> "find", w |-> w]
    /\ IF InList(w)
       THEN /\ display' = [display EXCEPT ![w].mDisplayId = widgetId[w]]
            /\ gui' = [gui EXCEPT !.pc = "replay"]
       ELSE gui' = GuiIdle /\ UNCHANGED display
    /\ UNCHANGED <<life, widgetId, mDisplayList, queueVars, listLock, dec, asked>>

\* DisplayBackend::connectDisplay: lock the list, find the widget's display.
ConnectDisplay(w) ==
    /\ gui = [pc |-> "find", w |-> w]
    /\ listLock = "free"
    /\ IF InList(w)
       THEN /\ display' = [display EXCEPT ![w].mDisplayId = widgetId[w]]
            /\ listLock' = "gui"
            /\ gui' = [gui EXCEPT !.pc = "replay"]
       ELSE /\ gui' = GuiIdle      \* "Connect display: %d failed!"
            /\ UNCHANGED <<display, listLock>>
    /\ UNCHANGED <<life, widgetId, mDisplayList, queueVars, dec, asked>>

ConnectReplay(w) ==
    /\ gui = [pc |-> "replay", w |-> w]
    /\ RedrawMissedUpdating(w)
    /\ listLock' = "free"
    /\ gui' = GuiIdle
    /\ UNCHANGED <<life, widgetId, mDisplayList, mDirtyDisplays, posted, dec,
                   asked>>

\* enableDisplayUpdate(mId, enable): the first display in the list with the
\* id of the widget is enabled, or none.
EnableDisplayUpdate(w, enable) ==
    /\ gui = GuiIdle
    /\ life[w] = "live"
    /\ listLock = "free"
    /\ \E i \in 1 .. Len(mDisplayList) :
         /\ FirstWithId(i, widgetId[w])
         /\ display' = [display EXCEPT
                           ![mDisplayList[i]] = EnableUpdate(@, enable)]
         /\ asked' = [asked EXCEPT ![mDisplayList[i]] = enable]
    /\ UNCHANGED <<life, widgetId, mDisplayList, queueVars, listLock, gui, dec>>

\* ~DisplayWidget and unregisterDisplay(mId): the first display with that id
\* leaves the list and is destroyed, its timer with it.
UnregisterDisplay(w) ==
    /\ gui = GuiIdle
    /\ life[w] = "live"
    /\ listLock = "free"
    /\ life' = [life EXCEPT ![w] = "dead"]
    /\ \/ \E i \in 1 .. Len(mDisplayList) :
            /\ FirstWithId(i, widgetId[w])
            /\ display' = [display EXCEPT
                              ![mDisplayList[i]] = NewDisplay(NoId, FALSE)]
            /\ asked' = [asked EXCEPT ![mDisplayList[i]] = FALSE]
            /\ mDisplayList' = RemoveAt(mDisplayList, i)
       \/ /\ NoneWithId(widgetId[w])
          /\ UNCHANGED <<display, asked, mDisplayList>>
    /\ UNCHANGED <<widgetId, queueVars, listLock, gui, dec>>

-----------------------------------------------------------------------------
(* The GUI thread: the delay timer of a KmreDisplay.  Its lambda calls      *)
(* readyUpdate and update without the lock of the list, so the decoder can  *)
(* be in the middle of an update of the same display.                       *)

TimerReady(w) ==
    /\ gui = GuiIdle
    /\ InList(w)
    /\ display[w].timer
    /\ display' = [display EXCEPT ![w].timer = FALSE,
                                  ![w].mUpdateReady = TRUE]
    /\ gui' = [pc |-> "enablePending", w |-> w]
    /\ UNCHANGED <<life, widgetId, mDisplayList, queueVars, listLock, dec, asked>>

TimerEnablePending(w) ==
    /\ gui = [pc |-> "enablePending", w |-> w]
    /\ display' = [display EXCEPT ![w] = EnablePending(@)]
    /\ gui' = [gui EXCEPT !.pc = "replayMissed"]
    /\ UNCHANGED <<life, widgetId, mDisplayList, queueVars, listLock, dec, asked>>

TimerReplay(w) ==
    /\ gui = [pc |-> "replayMissed", w |-> w]
    /\ display' = [display EXCEPT ![w] = Update(@, display[w].mMissed)]
    /\ gui' = GuiIdle
    /\ UNCHANGED <<life, widgetId, mDisplayList, queueVars, listLock, dec, asked>>

-----------------------------------------------------------------------------
(* The decoder thread                                                      *)

\* addDirtyDisplay
AddDirtyDisplay(id) ==
    /\ dec.pc = "idle"
    /\ posted < MaxFrames
    /\ posted' = posted + 1
    /\ mDirtyDisplays' = Append(mDirtyDisplays, [id |-> id, frame |-> posted + 1])
    /\ UNCHANGED <<guiVars, display, mUnupdatedDisplays, listLock, dec>>

\* updateDisplays takes mDirtyDisplaysLock.  Nobody sees mDirtyDisplays until
\* it is released, so an entry is dropped as soon as it is handled instead of
\* with the others at the end.
UpdateDisplays ==
    /\ dec.pc = "idle"
    /\ mDirtyDisplays # <<>>
    /\ dec' = DecAt("lookup")
    /\ UNCHANGED <<guiVars, display, queueVars, listLock>>

UpdateDisplaysDone ==
    /\ dec.pc = "lookup"
    /\ mDirtyDisplays = <<>>
    /\ dec' = DecAt("idle")
    /\ UNCHANGED <<guiVars, display, queueVars, listLock>>

\* updateDisplay: lock the list and look for the display.  When it is there,
\* KmreDisplay::update begins: the first update is noted, and mUpdateReady is
\* read; what is done with the frame is the next step.
LookUpDisplay ==
    /\ dec.pc = "lookup"
    /\ mDirtyDisplays # <<>>
    /\ listLock = "free"
    /\ LET id == Head(mDirtyDisplays).id
       IN  \/ \E i \in 1 .. Len(mDisplayList) :
                LET w == mDisplayList[i]
                    d == FirstUpdate(display[w])
                IN  /\ FirstWithId(i, id)
                    /\ display' = [display EXCEPT ![w] = d]
                    /\ dec' = [pc |-> IF d.mUpdateReady THEN "forward"
                                                       ELSE "store", w |-> w]
                    /\ listLock' = "decoder"
           \/ /\ NoneWithId(id)
              /\ dec' = DecAt("park")
              /\ UNCHANGED <<display, listLock>>
    /\ UNCHANGED <<guiVars, queueVars>>

\* Mutant: the lock of the list is not released on the way out.
FrameDoneLocked == /\ mDirtyDisplays' = Tail(mDirtyDisplays)
                   /\ dec' = DecAt("lookup")
                   /\ UNCHANGED listLock

\* The frame is handled; the lock of the list is released.
FrameDone == /\ mDirtyDisplays' = Tail(mDirtyDisplays)
             /\ dec' = DecAt("lookup")
             /\ listLock' = "free"

ForwardFrame(w) ==
    /\ dec = [pc |-> "forward", w |-> w]
    /\ display' = [display EXCEPT ![w] = Forward(@, Head(mDirtyDisplays).frame)]
    /\ FrameDone
    /\ UNCHANGED <<guiVars, mUnupdatedDisplays, posted>>

StoreFrame(w) ==
    /\ dec = [pc |-> "store", w |-> w]
    /\ display' = [display EXCEPT ![w] = Store(@, Head(mDirtyDisplays).frame)]
    /\ FrameDone
    /\ UNCHANGED <<guiVars, mUnupdatedDisplays, posted>>

\* updateDisplay returned false, and the lock of the list is free again, when
\* the frame is put aside.
ParkFrame ==
    /\ dec.pc = "park"
    /\ mUnupdatedDisplays' = [mUnupdatedDisplays EXCEPT
                                 ![Head(mDirtyDisplays).id] =
                                     Head(mDirtyDisplays).frame]
    /\ mDirtyDisplays' = Tail(mDirtyDisplays)
    /\ dec' = DecAt("lookup")
    /\ UNCHANGED <<guiVars, display, posted, listLock>>

-----------------------------------------------------------------------------
GuiCall(w) ==
    \/ \E id \in Ids \cup {NoId}, delayed \in BOOLEAN :
           RegisterDisplay(w, id, delayed)
    \/ \E id \in Ids : ConnectWidget(w, id)
    \/ \E b \in BOOLEAN : EnableDisplayUpdate(w, b)
    \/ UnregisterDisplay(w)

\* What the GUI thread does of itself: finish a call, fire a timer.
GuiStep(w) == \/ RegisterReplay(w) \/ RegisterAppend(w)
              \/ ConnectDisplay(w) \/ ConnectReplay(w)
              \/ TimerReady(w) \/ TimerEnablePending(w) \/ TimerReplay(w)

DecoderStep == \/ UpdateDisplays \/ UpdateDisplaysDone \/ LookUpDisplay
               \/ (\E w \in Widgets : ForwardFrame(w) \/ StoreFrame(w))
               \/ ParkFrame

Next == \/ \E w \in Widgets : GuiCall(w) \/ GuiStep(w)
        \/ \E id \in Ids : AddDirtyDisplay(id)
        \/ DecoderStep

\* The GUI thread returns from what it runs and serves its timers; the decoder
\* announces the end of every batch of frames and finishes updateDisplays.
Fairness == /\ WF_vars(\E w \in Widgets : GuiStep(w))
            /\ WF_vars(DecoderStep)

Spec == Init /\ [][Next]_vars /\ Fairness

-----------------------------------------------------------------------------
(* Properties                                                              *)

\* The four flags of a KmreDisplay always stand for one thing, the last
\* request the display got: before the display is ready a request to enable is
\* only remembered, afterwards it is in force, and a request to disable takes
\* effect at once in both cases.  The timer that makes the display ready must
\* not lose or resurrect a request (kmredisplay.cpp:95-134).
GateFollowsRequest ==
    \A w \in Widgets :
        LET d == display[w]
        IN  /\ d.mUpdateReady /\ gui # [pc |-> "enablePending", w |-> w] =>
                   d.mUpdateEnabled = asked[w] /\ ~d.mUpdateEnableLater
            /\ ~d.mUpdateReady =>
                   ~d.mUpdateEnabled /\ d.mUpdateEnableLater = asked[w]

\* Every loop over mDisplayList takes the first display with an id; that is
\* right only because no two displays of the list have the same Android id,
\* and each one's id is the id of the living widget it draws to
\* (displaybackend.cpp:99-104, 186-192, 198-207).
OneDisplayPerId ==
    \A i, j \in 1 .. Len(mDisplayList) :
        display[mDisplayList[i]].mDisplayId # NoId =>
            /\ HasId(j, display[mDisplayList[i]].mDisplayId) => i = j
            /\ life[mDisplayList[i]] = "live"
            /\ widgetId[mDisplayList[i]] = display[mDisplayList[i]].mDisplayId

\* A display that is connected leaves the list only when its own widget is
\* destroyed, whatever other windows are closed (displaybackend.cpp:127-137).
ConnectedStaysListed ==
    [][\A w \in Widgets :
          /\ InList(w)
          /\ display[w].mDisplayId # NoId
          /\ life'[w] = "live"
          => InList(w)']_vars

\* A display that is not delayed gets its frames in the order Android posted
\* them, the frame that waited for it included: connectDisplay replays it
\* before it lets the decoder reach the display (displaybackend.cpp:98-102).
FramesInOrder ==
    [][\A w \in Widgets :
          /\ ~display[w].mDelayed
          /\ display'[w].last # 0
          => display'[w].last >= display[w].last]_vars

\* DisplayBackend implements FrameGate.
Gate == INSTANCE FrameGate WITH
            wanted <- asked,
            open   <- [w \in Widgets |-> display[w].mUpdateReady],
            last   <- [w \in Widgets |-> display[w].last]

ImplementsGate == Gate!Init /\ [][Gate!Next]_(Gate!vars)

\* Every batch of posted frames is handled (displaybackend.cpp:164-181).
EveryBatchHandled == mDirtyDisplays # <<>> ~> mDirtyDisplays = <<>>

\* The start delay of a display ends (kmredisplay.cpp:38-44): a listed display
\* whose first frame came is ready at last, unless it is destroyed.
DelayEnds ==
    \A w \in Widgets :
        InList(w) /\ display[w].mDisplayReady
            ~> display[w].mUpdateReady \/ ~InList(w)

\* updateDisplay promises to update a display it does not find later
\* (displaybackend.cpp:194), so when nobody is in the middle of anything no
\* frame waits for a display that is there.
NoStrandedFrame ==
    dec.pc = "idle" /\ gui = GuiIdle =>
        \A i \in 1 .. Len(mDisplayList), id \in Ids :
            HasId(i, id) => mUnupdatedDisplays[id] = 0

\* registerDisplay promises to connect a display without id later
\* (displaybackend.cpp:80): when its widget gets the id, the display is listed.
ConnectFindsDisplay == gui.pc = "find" => InList(gui.w)
=============================================================================
