---------------------------- MODULE RenderThread ----------------------------
(***************************************************************************)
(* The renderer of a window on DRM and X11: a worker thread with a GL      *)
(* context that draws the frames the display backend hands it.             *)
(*                                                                         *)
(*   src/window/display/displayfrontend/displayworkmanager.cpp             *)
(*   src/window/display/displayfrontend/displayhelper.{h,cpp}              *)
(*   src/window/display/displayfrontend/gles/gles_display_*.cpp            *)
(*   and the calls of DisplayWidget that reach it                          *)
(*                                                                         *)
(* The backend is its abstract specification FrameGate, which module       *)
(* DisplayBackend implements: the actions here are FrameGate's, with what  *)
(* they make the renderer do.                                              *)
(*                                                                         *)
(* Threads.  The GUI thread runs one call at a time (gui) and the blur     *)
(* timers.  The decoder hands over frames with mDisplayListLock held.      *)
(* Each renderer has a worker thread that takes the events posted to its   *)
(* helper (queue) one at a time.                                           *)
(***************************************************************************)
EXTENDS Integers, Sequences

CONSTANTS Widgets,   \* the display widgets, one renderer each
          NoWidget,  \* the GUI thread or the decoder is on none
          MaxFrames, \* bound: how many frames reach the displays
          MaxCalls   \* bound: how many calls the windows make

ASSUME BoundsAssumption == MaxFrames \in Nat /\ MaxCalls \in Nat
ASSUME WidgetAssumption == NoWidget \notin Widgets

VARIABLES
    wanted, open, last, \* the gate of each display, see FrameGate
    listLock, \* who holds mDisplayListLock
    gui,      \* what the GUI thread is in the middle of
    calls,    \* calls the windows made so far
    dec,      \* the display the decoder found, or NoWidget
    posted,   \* frames the decoder had so far
    window,   \* the DisplayWidget and its blur timers
    queue,    \* [Widgets -> Seq(Event)] events posted to the helper
    renderer  \* the GLESDisplayHelper and its thread

gateVars == <<wanted, open, last>>
guiVars  == <<listLock, gui, calls>>
decVars  == <<dec, posted>>
vars == <<gateVars, guiVars, decVars, window, queue, renderer>>

Frame == 0 .. MaxFrames
Gate  == INSTANCE FrameGate

Size    == 0 .. MaxCalls
MinSize == 0 \* mWidgetMinSize, the region that is drawn while blurred
Event   == [kind : {"update", "redraw", "destroy"}, frame : Frame]
Screen  == [frame : Frame, region : Size, size : Size, blurred : BOOLEAN]

Window == [life     : {"new", "live", "closing", "freed"},
           size     : Size,  \* QWidget::size; a size is its number
           realSize : Size,  \* mWidgetRealSize
           timers   : Nat]   \* blur timers that run

Renderer == [mUpdateEnabled    : BOOLEAN,
             mBlurEnabled      : BOOLEAN,
             mIsReadyForRender : BOOLEAN,
             mTryInitCounter   : 0 .. 3,
             utils    : BOOLEAN, \* mDisplayUtils is not reset
             frame    : Frame,   \* the texture that is current, 0: none
             skipped  : BOOLEAN, \* history: frames after it were dropped
             screen   : Screen,  \* what the last eglSwapBuffers showed
             pc       : {"loop", "region", "shader", "draw", "finished"},
             region   : Size,    \* drawBuffer's choices so far
             blurred  : BOOLEAN,
             quitting : BOOLEAN] \* QThread::quit was called

TypeOK ==
    /\ wanted \in [Widgets -> BOOLEAN]
    /\ open \in [Widgets -> BOOLEAN]
    /\ last \in [Widgets -> Frame]
    /\ listLock \in {"free", "gui", "decoder"}
    /\ gui \in [pc : {"idle", "blur", "size", "realSize", "redraw",
                      "blurRedraw", "replay", "exitRender", "quit", "wait"},
                w  : Widgets \cup {NoWidget}]
    /\ calls \in 0 .. MaxCalls
    /\ dec \in Widgets \cup {NoWidget}
    /\ posted \in Frame
    /\ window \in [Widgets -> Window]
    /\ queue \in [Widgets -> Seq(Event)]
    /\ renderer \in [Widgets -> Renderer]

GuiIdle == [pc |-> "idle", w |-> NoWidget]
GuiAt(pc, w) == gui = [pc |-> pc, w |-> w]
GuiGoes(pc, w) == gui' = [pc |-> pc, w |-> w]

NewWindow   == [life |-> "new", size |-> 0, realSize |-> 0, timers |-> 0]
NoScreen    == [frame |-> 0, region |-> 0, size |-> 0, blurred |-> FALSE]
NewRenderer == [mUpdateEnabled |-> TRUE, mBlurEnabled |-> FALSE,
                mIsReadyForRender |-> FALSE, mTryInitCounter |-> 0,
                utils |-> TRUE, frame |-> 0, skipped |-> FALSE,
                screen |-> NoScreen, pc |-> "loop", region |-> 0,
                blurred |-> FALSE, quitting |-> FALSE]

Init ==
    /\ Gate!Init
    /\ listLock = "free"
    /\ gui = GuiIdle
    /\ calls = 0
    /\ dec = NoWidget
    /\ posted = 0
    /\ window = [w \in Widgets |-> NewWindow]
    /\ queue = [w \in Widgets |-> <<>>]
    /\ renderer = [w \in Widgets |-> NewRenderer]

Live(w) == window[w].life = "live"

SetWindow(w, v)   == window' = [window EXCEPT ![w] = v]
SetRenderer(w, r) == renderer' = [renderer EXCEPT ![w] = r]

Post(w, kind, f) ==
    queue' = [queue EXCEPT ![w] = Append(@, [kind |-> kind, frame |-> f])]

\* KmreDisplay's guard of redraw and blurUpdate.
Updating(w) == wanted[w] /\ open[w]

-----------------------------------------------------------------------------
(* The GUI thread: calls of the window                                     *)

Call(w) == gui = GuiIdle /\ Live(w) /\ calls < MaxCalls /\ calls' = calls + 1

\* registerDisplay makes the renderer and starts its thread.
RegisterDisplay(w) ==
    /\ gui = GuiIdle
    /\ window[w].life = "new"
    /\ SetWindow(w, [window[w] EXCEPT !.life = "live"])
    /\ UNCHANGED <<gateVars, guiVars, decVars, queue, renderer>>

\* enableUpdate(enable): the renderer is told at once, or when the display
\* is ready.
Enable(w, enable) ==
    /\ listLock = "free"
    /\ Gate!Request(w, enable)
    /\ SetRenderer(w, [renderer[w] EXCEPT !.mUpdateEnabled =
                                  enable /\ (@ \/ open[w])])

\* DisplayManager::showDisplays: enable, then, under the lock again, redraw.
Show(w) ==
    /\ Call(w)
    /\ Enable(w, TRUE)
    /\ GuiGoes("redraw", w)
    /\ UNCHANGED <<listLock, decVars, window, queue>>

\* DisplayManager::hide
Hide(w) ==
    /\ Call(w)
    /\ Enable(w, FALSE)
    /\ UNCHANGED <<listLock, gui, decVars, window, queue>>

\* setDisplaySize or forceRedraw is called, without a stretch before it.
BeginDraw(w, pc) ==
    /\ Call(w)
    /\ GuiGoes(pc, w)
    /\ UNCHANGED <<gateVars, listLock, decVars, window, queue, renderer>>

\* DisplayManager::resetWindowSize of a window whose size is dynamic: the
\* picture is blurred while the window is stretched ...
BlurUpdate(w) ==
    /\ Call(w)
    /\ listLock = "free"
    /\ IF Updating(w)
       THEN /\ SetRenderer(w, [renderer[w] EXCEPT !.mBlurEnabled = TRUE])
            /\ listLock' = "gui"
            /\ GuiGoes("blur", w)
       ELSE /\ GuiGoes("size", w)
            /\ UNCHANGED <<renderer, listLock>>
    /\ UNCHANGED <<gateVars, decVars, window, queue>>

\* ... until a timer that is started now fires ...
BlurStartTimer(w) ==
    /\ GuiAt("blur", w)
    /\ SetWindow(w, [window[w] EXCEPT !.timers = @ + 1])
    /\ Post(w, "redraw", 0)
    /\ listLock' = "free"
    /\ GuiGoes("size", w)
    /\ UNCHANGED <<gateVars, calls, decVars, renderer>>

\* ... and setDisplaySize gives the widget its size, ...
SetFixedSize(w) ==
    /\ GuiAt("size", w)
    /\ SetWindow(w, [window[w] EXCEPT !.size = calls])
    /\ GuiGoes("realSize", w)
    /\ UNCHANGED <<gateVars, listLock, calls, decVars, queue, renderer>>

SetRealSize(w) ==
    /\ GuiAt("realSize", w)
    /\ SetWindow(w, [window[w] EXCEPT !.realSize = window[w].size])
    /\ GuiGoes("redraw", w)
    /\ UNCHANGED <<gateVars, listLock, calls, decVars, queue, renderer>>

\* ... and redraws.
ForceRedraw(w) ==
    /\ GuiAt("redraw", w)
    /\ listLock = "free"
    /\ IF Updating(w) THEN Post(w, "redraw", 0) ELSE UNCHANGED queue
    /\ gui' = GuiIdle
    /\ UNCHANGED <<gateVars, listLock, calls, decVars, window, renderer>>

\* The lambda of the blur timer takes no lock and belongs to no object.  It
\* may fire when its renderer is gone; what it writes then is memory of
\* others, which is not part of this state.
BlurTimer(w) ==
    /\ gui = GuiIdle
    /\ window[w].timers > 0
    /\ SetWindow(w, [window[w] EXCEPT !.timers = @ - 1])
    /\ IF Live(w)
       THEN /\ SetRenderer(w, [renderer[w] EXCEPT !.mBlurEnabled = FALSE])
            /\ GuiGoes("blurRedraw", w)
       ELSE UNCHANGED <<renderer, gui>>
    /\ UNCHANGED <<gateVars, listLock, calls, decVars, queue>>

\* Mutant: the picture is not drawn again when the blur ends.
BlurTimerNoRedraw(w) ==
    /\ GuiAt("blurRedraw", w)
    /\ gui' = GuiIdle
    /\ UNCHANGED <<gateVars, listLock, calls, decVars, window, queue, renderer>>

BlurTimerRedraw(w) ==
    /\ GuiAt("blurRedraw", w)
    /\ Post(w, "redraw", 0)
    /\ gui' = GuiIdle
    /\ UNCHANGED <<gateVars, listLock, calls, decVars, window, renderer>>

-----------------------------------------------------------------------------
(* Frames: from the delay timer (GUI thread, no lock) and from the decoder  *)

\* readyUpdate of the delay timer, which the first frame started
DelayTimer(w) ==
    /\ gui = GuiIdle
    /\ Live(w)
    /\ posted > 0
    /\ Gate!Open(w)
    /\ SetRenderer(w, [renderer[w] EXCEPT !.mUpdateEnabled = @ \/ wanted[w]])
    /\ GuiGoes("replay", w)
    /\ UNCHANGED <<listLock, calls, decVars, window, queue>>

\* KmreDisplay::update and forceUpdate: frame f passes the gate, which may open
\* by it, and is posted to the renderer; or it does not pass.
UpdateDisplay(w, f) ==
    \/ /\ Gate!Pass(w, f)
       /\ SetRenderer(w, [renderer[w] EXCEPT !.mUpdateEnabled = TRUE])
       /\ Post(w, "update", f)
    \/ Gate!Open(w) /\ ~wanted[w] /\ UNCHANGED <<renderer, queue>>
    \/ UNCHANGED <<gateVars, renderer, queue>>

\* The timer replays the frame that was missed, one of those that came.
DelayTimerReplay(w) ==
    /\ GuiAt("replay", w)
    /\ \E f \in 1 .. posted : UpdateDisplay(w, f)
    /\ gui' = GuiIdle
    /\ UNCHANGED <<listLock, calls, decVars, window>>

\* DisplayBackend::updateDisplay: lock the list, find the display ...
DecoderFinds(w) ==
    /\ dec = NoWidget
    /\ listLock = "free"
    /\ Live(w)
    /\ posted < MaxFrames
    /\ posted' = posted + 1
    /\ dec' = w
    /\ listLock' = "decoder"
    /\ UNCHANGED <<gateVars, gui, calls, window, queue, renderer>>

\* ... and update it.
DecoderUpdates(w) ==
    /\ dec = w
    /\ UpdateDisplay(w, posted)
    /\ dec' = NoWidget
    /\ listLock' = "free"
    /\ UNCHANGED <<gui, calls, posted, window>>

-----------------------------------------------------------------------------
(* The end of a renderer                                                   *)

\* The display leaves the list; exitRender is posted and waited for.
Close(w) ==
    /\ gui = GuiIdle
    /\ Live(w)
    /\ SetWindow(w, [window[w] EXCEPT !.life = "closing"])
    /\ Post(w, "destroy", 0)
    /\ GuiGoes("exitRender", w)
    /\ UNCHANGED <<gateVars, calls, decVars>>

\* Mutant: the list is not locked while the display leaves it.
UnregisterUnlocked(w) == Close(w) /\ UNCHANGED <<listLock, renderer>>

\* Mutant: the event loop of the worker is told to quit first.
UnregisterQuitsFirst(w) ==
    /\ Close(w)
    /\ listLock = "free"
    /\ listLock' = "gui"
    /\ SetRenderer(w, [renderer[w] EXCEPT !.quitting = TRUE])

\* ~DisplayWidget, unregisterDisplay and ~GLESDisplayWorkManager: with the
\* lock of the list held, the worker's GL context is destroyed, ...
UnregisterDisplay(w) ==
    /\ Close(w)
    /\ listLock = "free"
    /\ listLock' = "gui"
    /\ UNCHANGED renderer

\* ... the worker is told to quit ...
Quit(w) ==
    /\ GuiAt("quit", w)
    /\ SetRenderer(w, [renderer[w] EXCEPT !.quitting = TRUE])
    /\ GuiGoes("wait", w)
    /\ UNCHANGED <<gateVars, listLock, calls, decVars, window, queue>>

\* ... and joined, and the display is gone.
Join(w) ==
    /\ GuiAt("wait", w)
    /\ renderer[w].pc = "finished"
    /\ SetWindow(w, [window[w] EXCEPT !.life = "freed"])
    /\ listLock' = "free"
    /\ gui' = GuiIdle
    /\ Gate!Replace(w)
    /\ UNCHANGED <<calls, decVars, queue, renderer>>

-----------------------------------------------------------------------------
(* The worker thread                                                       *)

Takes(w, kind) ==
    /\ renderer[w].pc = "loop"
    /\ queue[w] # <<>>
    /\ Head(queue[w]).kind = kind
    /\ queue' = [queue EXCEPT ![w] = Tail(@)]

\* initDisplay: the GL context is tried three times.
InitDisplay(r, ok) ==
    IF r.mTryInitCounter < 3
    THEN [r EXCEPT !.mIsReadyForRender = ok, !.mTryInitCounter = @ + 1]
    ELSE r

Drawing(r) == r.mIsReadyForRender /\ r.mUpdateEnabled

\* importBuffer, and the start of drawBuffer
Import(r, f) == [r EXCEPT !.frame = f, !.skipped = FALSE, !.pc = "region"]

\* GLESDisplayHelper::update: the frame is imported and drawn, or dropped.
TakeUpdate(w, ok) ==
    LET r == IF renderer[w].mIsReadyForRender THEN renderer[w]
                                              ELSE InitDisplay(renderer[w], ok)
        drop == ~r.mIsReadyForRender \/ ~wanted[w]
    IN  /\ Takes(w, "update")
        /\ SetRenderer(w, IF Drawing(r) THEN Import(r, Head(queue[w]).frame)
                                        ELSE [r EXCEPT !.skipped = @ \/ drop])
        /\ UNCHANGED <<gateVars, guiVars, decVars, window>>

\* GLESDisplayHelper::redraw
TakeRedraw(w) ==
    /\ Takes(w, "redraw")
    /\ SetRenderer(w, [renderer[w] EXCEPT !.pc =
                          IF Drawing(renderer[w]) THEN "region" ELSE @])
    /\ UNCHANGED <<gateVars, guiVars, decVars, window>>

Draws(w, r) == /\ SetRenderer(w, r)
               /\ UNCHANGED <<gateVars, guiVars, decVars, window, queue>>

\* drawBuffer reads mBlurEnabled for the region to show, ...
ChooseRegion(w) ==
    LET r == renderer[w]
    IN  /\ r.pc = "region"
        /\ Draws(w, [r EXCEPT !.pc = "shader", !.region =
                        IF r.mBlurEnabled THEN MinSize ELSE window[w].size])

\* ... reads it again for the shader ...
ChooseShader(w) ==
    LET r == renderer[w]
    IN  /\ r.pc = "shader"
        /\ Draws(w, [r EXCEPT !.pc = "draw", !.blurred = r.mBlurEnabled])

\* ... and draws at the size the widget has by now, if there is a texture.
DrawDisplay(w) ==
    LET r == renderer[w]
        picture == [frame |-> r.frame, region |-> r.region,
                    size |-> window[w].realSize, blurred |-> r.blurred]
    IN  /\ r.pc = "draw"
        /\ Draws(w, [r EXCEPT !.pc = "loop",
                              !.screen = IF r.frame = 0 THEN @ ELSE picture])

\* destroyDisplay: a renderer that was never ready keeps its utils until the
\* helper is deleted.  The GUI thread goes on.
DestroyDisplay(w) ==
    /\ Takes(w, "destroy")
    /\ SetRenderer(w, [renderer[w] EXCEPT
                          !.utils = ~renderer[w].mIsReadyForRender])
    /\ GuiGoes("quit", w)
    /\ UNCHANGED <<gateVars, listLock, calls, decVars, window>>

\* The event loop ends after the event it is in; what is posted is dropped.
Stop(w) ==
    /\ renderer[w].quitting
    /\ renderer[w].pc = "loop"
    /\ SetRenderer(w, [renderer[w] EXCEPT !.pc = "finished"])
    /\ queue' = [queue EXCEPT ![w] = <<>>]
    /\ UNCHANGED <<gateVars, guiVars, decVars, window>>

-----------------------------------------------------------------------------
GuiCall(w) == \/ RegisterDisplay(w) \/ Show(w) \/ Hide(w) \/ BlurUpdate(w)
              \/ \E pc \in {"size", "redraw"} : BeginDraw(w, pc)
              \/ DelayTimer(w) \/ UnregisterDisplay(w)

\* What the GUI thread does of itself: finish a call, fire a blur timer.
GuiStep(w) == \/ BlurStartTimer(w) \/ SetFixedSize(w) \/ SetRealSize(w)
              \/ ForceRedraw(w) \/ BlurTimer(w) \/ BlurTimerRedraw(w)
              \/ DelayTimerReplay(w) \/ Quit(w) \/ Join(w)

WorkerStep(w) == \/ \E ok \in BOOLEAN : TakeUpdate(w, ok)
                 \/ TakeRedraw(w) \/ ChooseRegion(w) \/ ChooseShader(w)
                 \/ DrawDisplay(w) \/ DestroyDisplay(w) \/ Stop(w)

Next == \E w \in Widgets : \/ GuiCall(w) \/ GuiStep(w) \/ WorkerStep(w)
                           \/ DecoderFinds(w) \/ DecoderUpdates(w)

\* Each thread goes on with what it is in the middle of.
Fairness == \A w \in Widgets : /\ WF_vars(GuiStep(w))
                               /\ WF_vars(WorkerStep(w))
                               /\ WF_vars(DecoderUpdates(w))

Spec == Init /\ [][Next]_vars /\ Fairness

-----------------------------------------------------------------------------
(* Properties                                                              *)

\* When nothing is on its way to a renderer whose window is shown, the screen
\* has the newest picture that was imported, at the size, in the region and
\* with the blur of now, and it is the last frame the backend handed over
\* unless frames were dropped while the window was hidden or GL was not
\* ready.  Worker, window and blur timer race for all of these; only the
\* redraw each of them posts after its change makes it come right
\* (gles_display_helper.cpp:80-103, gles_display_work_manager.cpp:59-71,
\* displaywidget.cpp:147-158, displaymanager.cpp:1284-1302).
ScreenSettles ==
    \A w \in Widgets :
        LET r == renderer[w]
        IN  /\ Live(w) /\ gui = GuiIdle
            /\ r.pc = "loop" /\ queue[w] = <<>>
            /\ Updating(w) /\ r.mIsReadyForRender
            => /\ r.frame = last[w] \/ r.skipped
               /\ r.mBlurEnabled => window[w].timers > 0
               /\ r.frame # 0 =>
                      r.screen = [frame   |-> r.frame,
                                  region  |-> IF r.mBlurEnabled
                                              THEN MinSize ELSE window[w].size,
                                  size    |-> window[w].size,
                                  blurred |-> r.mBlurEnabled]

\* destroyDisplay deletes what update and redraw use and leaves
\* mIsReadyForRender set: when it has run, nothing may be posted or in the
\* middle of a drawing.  The order of the events and the lock of the list,
\* held until the worker is joined, see to that
\* (gles_display_work_manager.cpp:32-37, displaybackend.cpp:127-137).
NothingAfterExit ==
    \A w \in Widgets : ~renderer[w].utils =>
        queue[w] = <<>> /\ renderer[w].pc \in {"loop", "finished"}

\* The GUI thread waits for the worker twice with the lock of the list held;
\* it always comes back (gles_display_work_manager.cpp:32-37).
GuiComesBack == gui # GuiIdle ~> gui = GuiIdle
=============================================================================
