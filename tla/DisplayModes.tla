---------------------------- MODULE DisplayModes ----------------------------
(***************************************************************************)
(* The displays of one window of kylin-kmre-window: which of the main and  *)
(* the accessory display it shows, which of them Android's frames are      *)
(* drawn on, and which of them gets the input.                             *)
(*                                                                         *)
(*   src/window/display/displaymanager/displaymanager.{h,cpp}              *)
(*   src/window/window/kmrewindow.cpp    (what calls it)                   *)
(*                                                                         *)
(* Everything here runs in the GUI thread, one handler at a time.  Rotations*)
(* are seen by the render thread, in the frames it draws, and reach the    *)
(* GUI thread as queued signals.  Closing the window is in AppWindows, and *)
(* sizes, game keys and the input method are left out.                     *)
(***************************************************************************)
EXTENDS Integers, Sequences

CONSTANTS MainId,      \* the ids Android gives to the two displays
          AccessoryId,
          Rotations,   \* the rotations the app shows, of 0 .. 3
          MaxSignals   \* bound: rotations on their way to the GUI thread

ASSUME IdsAssumption == /\ MainId \in Nat \ {0}
                        /\ AccessoryId \in Nat \ {0}
                        /\ MainId # AccessoryId
ASSUME RotationsAssumption == 0 \in Rotations /\ Rotations \subseteq 0 .. 3
ASSUME SignalsAssumption == MaxSignals \in Nat

VARIABLES
    win,          \* the window with its DisplayManager
    screen,       \* orientation of the screen
    inputFocus,   \* EventManager::mFocusedDisplayId
    frameRotation,\* DisplayHelper::mCurrentOrientation of both displays
    signals,      \* orientationChanged signals not handled yet
    parallel      \* history: the last multiplier switch carried out

vars == <<win, screen, inputFocus, frameRotation, signals, parallel>>

NoId         == -1
NoRotation   == -1      \* before the first frame
Displays     == {"main", "accessory"}
Orientations == {"portrait", "landscape"}
DisplayMode  == {"SINGLE_MAIN", "SINGLE_ACCESSORY", "MULTI"}

Window ==
    [mInitialOrientation    : Orientations,
     rotation               : Rotations,    \* mImageRotation, mCurrentRotation
     mDisplayMode           : DisplayMode,
     mLastDisplayMode       : DisplayMode,
     mMainDisplayId         : {NoId, MainId},
     mAccessoryDisplayId    : {NoId, AccessoryId},
     mAccessoryDisplay      : BOOLEAN,      \* the widget exists
     mCurrentFocusedDisplayId : {NoId, MainId, AccessoryId},
     mWindowUnfocused       : BOOLEAN,
     fullScreen             : BOOLEAN,
     shown                  : BOOLEAN,      \* neither minimised nor in the tray
     visible                : [Displays -> BOOLEAN],
     enabled                : [Displays -> BOOLEAN]] \* enableDisplayUpdate

\* The displays that a mode shows.
ShownIn(mode) == [d \in Displays |->
                     IF d = "main" THEN mode # "SINGLE_ACCESSORY"
                                   ELSE mode # "SINGLE_MAIN"]

-----------------------------------------------------------------------------
(* Drawing: who asks the display backend for frames                        *)

\* DisplayManager::enableDisplay.  While neither display has an id both ids
\* are -1, and every call is for the main display.
EnableDisplay(w, id, enable) ==
    IF id = w.mMainDisplayId
    THEN [w EXCEPT !.enabled["main"] = enable]
    ELSE IF id = w.mAccessoryDisplayId /\ w.mAccessoryDisplay
    THEN [w EXCEPT !.enabled["accessory"] = enable]
    ELSE w

EnableBoth(w, main, accessory) ==
    EnableDisplay(EnableDisplay(w, w.mMainDisplayId, main),
                  w.mAccessoryDisplayId, accessory)

\* DisplayManager::hide
HideDisplays(w) == EnableBoth(w, FALSE, FALSE)

\* DisplayManager::showDisplays
ShowDisplays(w) == EnableBoth(w, ShownIn(w.mDisplayMode)["main"],
                                 ShownIn(w.mDisplayMode)["accessory"])

-----------------------------------------------------------------------------
(* The display mode                                                        *)

\* Mutant: the mode that is entered is remembered instead of the one left.
SetDisplayModeForgetful(w, mode, switchMultiplier) ==
    IF w.mDisplayMode = mode
    THEN w
    ELSE ShowDisplays([w EXCEPT !.mLastDisplayMode = mode,
                                !.mDisplayMode = mode])

\* Mutant: updates go on as they were.
SetDisplayModeOnly(w, mode, switchMultiplier) ==
    IF w.mDisplayMode = mode
    THEN w
    ELSE [w EXCEPT !.mLastDisplayMode = IF switchMultiplier
                                        THEN mode ELSE w.mDisplayMode,
                   !.mDisplayMode = mode]

\* DisplayManager::setDisplayMode
SetDisplayMode(w, mode, switchMultiplier) ==
    IF w.mDisplayMode = mode
    THEN w
    ELSE ShowDisplays([w EXCEPT !.mLastDisplayMode = IF switchMultiplier
                                                     THEN mode
                                                     ELSE w.mDisplayMode,
                                !.mDisplayMode = mode])

\* DisplayManager::setDisplaySize
SetDisplaySize(w) ==
    [w EXCEPT !.visible = [d \in Displays |->
                              /\ ShownIn(w.mDisplayMode)[d]
                              /\ d = "accessory" => w.mAccessoryDisplay]]

\* utils::currentDisplayOrientation
CurrentDisplayOrientation(w) ==
    IF w.rotation \in {0, 2}
    THEN w.mInitialOrientation
    ELSE CHOOSE o \in Orientations : o # w.mInitialOrientation

IsPortrait(w) == CurrentDisplayOrientation(w) = "portrait"

\* DisplayManager::autoAdjustMultipler: two portrait displays do not fit side
\* by side on a portrait screen.
AutoAdjustMultiplier(w) ==
    IF /\ w.fullScreen /\ w.mDisplayMode = "MULTI"
       /\ screen = "portrait" /\ IsPortrait(w)
    THEN SetDisplayMode(w, "SINGLE_ACCESSORY", FALSE)
    ELSE w

\* DisplayManager::switchLandScapeOrientation.  What it makes visible, the
\* setDisplaySize at the end of its callers sets again.
SwitchLandscape(w, isMain) ==
    IF w.mDisplayMode = "MULTI"
    THEN SetDisplayMode(w, IF isMain THEN "SINGLE_MAIN"
                                     ELSE "SINGLE_ACCESSORY", FALSE)
    ELSE w

\* DisplayManager::switchPortraitOrientation
SwitchPortrait(w) ==
    IF w.mLastDisplayMode = "MULTI" THEN SetDisplayMode(w, "MULTI", FALSE)
                                    ELSE w

\* What both resizeWindowWhile... do first when the rotation has changed.
SwitchOrientation(w, isMain, changed) ==
    IF ~changed THEN w
    ELSE IF IsPortrait(w) THEN SwitchPortrait(w)
    ELSE SwitchLandscape(w, isMain)

\* The mode that a full screen has room for.
FitToScreen(w) ==
    IF ~IsPortrait(w) THEN w
    ELSE IF screen = "portrait" THEN AutoAdjustMultiplier(w)
    ELSE IF w.mDisplayMode = "SINGLE_ACCESSORY"
    THEN SetDisplayMode(w, "MULTI", FALSE)
    ELSE w

\* DisplayManager::resizeWindowWhileFullScreen
ResizeFullScreen(w, isMain, changed) ==
    SetDisplaySize(FitToScreen(SwitchOrientation(w, isMain, changed)))

\* DisplayManager::resizeWindowWhileNormalScreen
ResizeNormalScreen(w, isMain, changed) ==
    SetDisplaySize(SwitchOrientation(w, isMain, changed))

ResizeWindow(w, isMain, changed) ==
    IF w.fullScreen THEN ResizeFullScreen(w, isMain, changed)
                    ELSE ResizeNormalScreen(w, isMain, changed)

\* DisplayManager::setDefaultWindowSize.  showNormal also shows a window that
\* was hidden in full screen, and its show event enables the updates.
SetDefaultWindowSize(w) ==
    LET normal == IF w.fullScreen /\ ~w.shown
                  THEN ShowDisplays([w EXCEPT !.shown = TRUE])
                  ELSE w
    IN  ResizeNormalScreen([normal EXCEPT !.fullScreen = FALSE],
                           normal.mDisplayMode # "SINGLE_ACCESSORY", FALSE)

-----------------------------------------------------------------------------
(* The input focus                                                         *)

\* Does DisplayManager::focusDisplayByDisplayId send the focus to the display?
FocusSent(w, id, force) ==
    /\ \/ id = w.mMainDisplayId
       \/ id = w.mAccessoryDisplayId /\ w.mAccessoryDisplay
    /\ force \/ w.mCurrentFocusedDisplayId # id

\* The whole of it, from the window w on.
FocusDisplayByDisplayId(w, id, force) ==
    IF FocusSent(w, id, force)
    THEN /\ win' = [w EXCEPT !.mCurrentFocusedDisplayId = id]
         /\ inputFocus' = id
    ELSE win' = w /\ UNCHANGED inputFocus

\* DisplayManager::focusWindow, for a window that is not about to close.
FocusWindow(w) ==
    LET id == IF w.mCurrentFocusedDisplayId
                     \in {w.mMainDisplayId, w.mAccessoryDisplayId}
              THEN w.mCurrentFocusedDisplayId
              ELSE IF w.mDisplayMode = "SINGLE_ACCESSORY"
              THEN w.mAccessoryDisplayId
              ELSE w.mMainDisplayId
    IN  FocusDisplayByDisplayId([w EXCEPT !.mCurrentFocusedDisplayId = id,
                                          !.mWindowUnfocused = FALSE],
                                id, TRUE)

-----------------------------------------------------------------------------
(* What Android asks for                                                   *)

\* LaunchResult: KmreWindow::updateDisplay, DisplayManager::updateMainDisplay
\* and then showMainWindow.  A window without the focus only takes the id, as
\* unFocusWindow does nothing for it.  Later results only show the window.
LaunchCompleted ==
    LET connected == [win EXCEPT !.mMainDisplayId = MainId]
        shown == ShowDisplays([connected EXCEPT !.shown = TRUE])
    IN  /\ win.mMainDisplayId = NoId
        /\ IF win.mWindowUnfocused
           THEN win' = shown /\ UNCHANGED inputFocus
           ELSE FocusWindow([shown EXCEPT !.mCurrentFocusedDisplayId = MainId])
        /\ UNCHANGED <<screen, frameRotation, signals, parallel>>

\* DisplayManager::createAccessoryDisplay
CreateAccessoryDisplay(w, displayId) ==
    [w EXCEPT !.mAccessoryDisplayId = displayId,
              !.mAccessoryDisplay = TRUE,
              !.visible["accessory"] = FALSE]

\* createDisplay fails: the id stays, and so does the wish for a display.
CreateAccessoryDisplayFailed ==
    /\ ~win.mAccessoryDisplay
    /\ win' = [win EXCEPT !.mAccessoryDisplayId = AccessoryId]
    /\ UNCHANGED <<screen, inputFocus, frameRotation, signals, parallel>>

\* Mutant: the sizes are set for the mode before it is adjusted.
ChangeMultiplierEarly(w, enable) ==
    AutoAdjustMultiplier(SetDisplaySize(
        SetDisplayMode(w, IF enable THEN "MULTI" ELSE "SINGLE_MAIN", TRUE)))

\* The part of switchMultipler for a mode that changes.
ChangeMultiplier(w, enable) ==
    SetDisplaySize(AutoAdjustMultiplier(
        SetDisplayMode(w, IF enable THEN "MULTI" ELSE "SINGLE_MAIN", TRUE)))

\* Mutant: the focus is not forced on the display.
SwitchMultiplierUnforced(w, enable) ==
    LET changed == w.mDisplayMode # IF enable THEN "MULTI" ELSE "SINGLE_MAIN"
    IN  /\ FocusDisplayByDisplayId(
               IF changed THEN ChangeMultiplier(w, enable) ELSE w,
               IF enable THEN w.mAccessoryDisplayId ELSE w.mMainDisplayId,
               FALSE)
        /\ parallel' = enable

\* DisplayManager::switchMultipler
SwitchMultiplier(w, enable) ==
    LET changed == w.mDisplayMode # IF enable THEN "MULTI" ELSE "SINGLE_MAIN"
    IN  /\ FocusDisplayByDisplayId(
               IF changed THEN ChangeMultiplier(w, enable) ELSE w,
               IF enable THEN w.mAccessoryDisplayId ELSE w.mMainDisplayId,
               changed)
        /\ parallel' = enable

\* Mutant: the id of the message is taken as it is.
OnMultiplierSwitchAnyId(displayId, enable) ==
    /\ SwitchMultiplier(IF win.mAccessoryDisplay
                        THEN win
                        ELSE CreateAccessoryDisplay(win, displayId), enable)
    /\ UNCHANGED <<screen, frameRotation, signals>>

\* DisplayManager::onMultiplierSwitch.  A message without a display id (0)
\* creates no display, and is lost while there is none.
OnMultiplierSwitch(displayId, enable) ==
    /\ displayId > 0 \/ win.mAccessoryDisplay
    /\ SwitchMultiplier(IF win.mAccessoryDisplay
                        THEN win
                        ELSE CreateAccessoryDisplay(win, displayId), enable)
    /\ UNCHANGED <<screen, frameRotation, signals>>

\* DisplayHelper::importBuffer, render thread: a frame with a new rotation.
FrameRotated(d, rotation) ==
    /\ win.enabled[d]
    /\ IF d = "main" THEN win.mMainDisplayId # NoId ELSE win.mAccessoryDisplay
    /\ frameRotation[d] # rotation
    /\ Len(signals) < MaxSignals
    /\ frameRotation' = [frameRotation EXCEPT ![d] = rotation]
    /\ signals' = Append(signals, [display |-> d, rotation |-> rotation])
    /\ UNCHANGED <<win, screen, inputFocus, parallel>>

\* DisplayManager::onDisplayRotationChanged, rotationChanged
OnDisplayRotationChanged ==
    /\ signals # <<>>
    /\ LET s == Head(signals)
       IN  win' = ResizeWindow([win EXCEPT !.rotation = s.rotation],
                               s.display = "main", win.rotation # s.rotation)
    /\ signals' = Tail(signals)
    /\ UNCHANGED <<screen, inputFocus, frameRotation, parallel>>

-----------------------------------------------------------------------------
(* What the user and the desktop do                                        *)

\* KmreWindow::hideEvent: minimised, or closed into the tray.
HideEvent ==
    /\ win.shown
    /\ win' = HideDisplays([win EXCEPT !.shown = FALSE])
    /\ UNCHANGED <<screen, inputFocus, frameRotation, signals, parallel>>

\* KmreWindow::showMainWindow and showEvent: the app is started or activated
\* once more, or the user brings the window back.
ShowMainWindow ==
    /\ win' = ShowDisplays([win EXCEPT !.shown = TRUE])
    /\ UNCHANGED <<screen, inputFocus, frameRotation, signals, parallel>>

\* DisplayManager::onSwitchFullscreen into full screen, enterFullscreen
EnterFullscreen ==
    /\ win.shown /\ ~win.fullScreen
    /\ win' = ResizeFullScreen([win EXCEPT !.fullScreen = TRUE],
                               win.mDisplayMode # "SINGLE_ACCESSORY", FALSE)
    /\ UNCHANGED <<screen, inputFocus, frameRotation, signals, parallel>>

\* DisplayManager::onSwitchFullscreen out of full screen, onExitFullscreen
ExitFullscreen ==
    /\ win.shown /\ win.fullScreen
    /\ win' = SetDefaultWindowSize(win)
    /\ UNCHANGED <<screen, inputFocus, frameRotation, signals, parallel>>

\* KmreWindow::initResolutionMonitor: the screen is turned or resized.
ScreenChanged(orientation) ==
    /\ screen' = orientation
    /\ win' = SetDefaultWindowSize(win)
    /\ UNCHANGED <<inputFocus, frameRotation, signals, parallel>>

\* KmreWindow::resizeWindow, when the size of the panel has changed: the
\* rotation counts as changed, and as one of the main display.
PanelResized ==
    /\ win' = ResizeWindow(win, TRUE, TRUE)
    /\ UNCHANGED <<screen, inputFocus, frameRotation, signals, parallel>>

\* KmreWindow::slotFocusWindowChanged, the window has the focus.
FocusIn ==
    /\ win.shown
    /\ FocusWindow(win)
    /\ UNCHANGED <<screen, frameRotation, signals, parallel>>

\* KmreWindow::slotFocusWindowChanged, DisplayManager::unFocusWindow
FocusOut ==
    /\ ~win.mWindowUnfocused
    /\ win' = [win EXCEPT !.mWindowUnfocused = TRUE]
    /\ inputFocus' = -win.mMainDisplayId
    /\ UNCHANGED <<screen, frameRotation, signals, parallel>>

\* Another window of the process, or a FocusWin message of Android, moves the
\* input to a display of another app, for which 0 stands.
FocusElsewhere ==
    /\ inputFocus' = 0
    /\ UNCHANGED <<win, screen, frameRotation, signals, parallel>>

\* DisplayWidget::focusDisplay, when the user clicks on a display.
Click(d) ==
    /\ win.shown /\ win.visible[d]
    /\ FocusDisplayByDisplayId(win, IF d = "main" THEN win.mMainDisplayId
                                                  ELSE win.mAccessoryDisplayId,
                               FALSE)
    /\ UNCHANGED <<screen, frameRotation, signals, parallel>>

-----------------------------------------------------------------------------
\* DisplayManager::initialize and the first showMainWindow.  Both ids are -1,
\* so the main display is enabled and then disabled again.
Init ==
    /\ win \in [mInitialOrientation : Orientations,
                rotation : {0},
                mDisplayMode : {"SINGLE_MAIN"},
                mLastDisplayMode : {"SINGLE_MAIN"},
                mMainDisplayId : {NoId},
                mAccessoryDisplayId : {NoId},
                mAccessoryDisplay : {FALSE},
                mCurrentFocusedDisplayId : {NoId},
                mWindowUnfocused : {FALSE},
                fullScreen : BOOLEAN,
                shown : {TRUE},
                visible : {ShownIn("SINGLE_MAIN")},
                enabled : {[d \in Displays |-> FALSE]}]
    /\ screen \in Orientations
    /\ inputFocus = 0
    /\ frameRotation = [d \in Displays |-> NoRotation]
    /\ signals = <<>>
    /\ parallel = FALSE

Next ==
    \/ LaunchCompleted
    \/ CreateAccessoryDisplayFailed
    \/ \E id \in {0, AccessoryId}, enable \in BOOLEAN :
           OnMultiplierSwitch(id, enable)
    \/ \E d \in Displays, r \in Rotations : FrameRotated(d, r)
    \/ OnDisplayRotationChanged
    \/ HideEvent
    \/ ShowMainWindow
    \/ EnterFullscreen
    \/ ExitFullscreen
    \/ \E o \in Orientations : ScreenChanged(o)
    \/ PanelResized
    \/ FocusIn
    \/ FocusOut
    \/ FocusElsewhere
    \/ \E d \in Displays : Click(d)

Spec == Init /\ [][Next]_vars

-----------------------------------------------------------------------------
(* Properties                                                              *)

TypeOK ==
    /\ win \in Window
    /\ screen \in Orientations
    /\ inputFocus \in {0, -MainId, 1, NoId, MainId, AccessoryId}
    /\ frameRotation \in [Displays -> Rotations \cup {NoRotation}]
    /\ signals \in Seq([display : Displays, rotation : Rotations])
    /\ parallel \in BOOLEAN

\* However mode, rotation, full screen and screen have changed, the widgets
\* that can be seen are those of the mode, and a mode with the accessory
\* display is never entered without one: setDisplaySize has come last, after
\* every change of the mode.
VisibleFollowsMode == win.visible = ShownIn(win.mDisplayMode)

\* A window on the screen draws exactly the displays of its mode, so that none
\* of them is frozen and none is drawn in vain: showDisplays has been called
\* after the last change of mode, of the ids and of the visibility.
UpdatesFollowMode ==
    win.shown /\ win.mMainDisplayId # NoId
        => win.enabled = ShownIn(win.mDisplayMode)

\* While the parallel view is switched on, a rotation or a full screen that
\* leaves it for one display has it in mLastDisplayMode, from where the way
\* back to it is found.
ParallelViewRemembered ==
    /\ win.mDisplayMode = "SINGLE_ACCESSORY" => win.mLastDisplayMode = "MULTI"
    /\ parallel /\ win.mDisplayMode = "SINGLE_MAIN"
           => win.mLastDisplayMode = "MULTI"

\* When Android switches the parallel view on or off and the mode changes with
\* it, the input goes to the display that was switched to, wherever it went
\* before: this is what forceChangeFocus is for.
SwitchedDisplayGetsInput ==
    [][\A id \in {0, AccessoryId}, enable \in BOOLEAN :
          /\ OnMultiplierSwitch(id, enable)
          /\ win.mDisplayMode # IF enable THEN "MULTI" ELSE "SINGLE_MAIN"
          => inputFocus' = IF enable THEN AccessoryId ELSE win.mMainDisplayId
      ]_vars

\* Of a hidden window "不要再进行界面实时更新" (displaymanager.cpp:1273,
\* kmrewindow.cpp:1107), no updates: not so once a multiplier switch or a
\* late rotation has come in.
HiddenNotUpdating ==
    ~win.shown /\ win.mMainDisplayId # NoId
        => \A d \in Displays : ~win.enabled[d]

\* Only the modes of the parallel view show the accessory display
\* (displaymanager.h:74-76): switched off, the view does not come back.  It
\* does when it was switched off while a rotation had left it already.
ParallelViewOnlyWhenOn ==
    win.mMainDisplayId # NoId /\ ~parallel => win.mDisplayMode = "SINGLE_MAIN"
=============================================================================
