# Formal models of kylin-kmre-window

kylin-kmre-window shows Android apps that run in a container as windows of a
Linux desktop. This directory holds TLA+ models of the parts of it where
threads, processes and messages meet, TLC configurations that check them on
small instances, and TLAPS proofs of the theorems that matter most for every
instance. Paths below are relative to the repository root.

## 1. The system

### Processes and threads

| Process / thread | Code | State it owns |
|---|---|---|
| `startapp`, one per start of an app | `src/startapp` | where it is between "is the app running?", the lock file and the launch |
| window process, GUI thread | `src/window/window`, `src/window/display/displaymanager`, `src/window/gamekey`, `src/window/record` (panel), `src/window/utilitys` | the map of the windows, the windows, their dialogs and timers, display modes, game keys, the recorder's panel |
| window process, decoder thread of libDisplayControl | `src/window/display/displaybackend` | frames announced by Android |
| window process, one render thread per display | `src/window/display/displayfrontend` | the GL context, the picture on the screen |
| window process, two capture threads, up to two encoder threads, a muxer thread per recording | `src/window/record/AV` | buffers of frames and samples, packets |
| window process, socket thread (one, `kmre_service_loop.h`) | `src/window/communication/connection`, `cmdprocessor` | read buffers of the connections to Android |
| window process, BackendWorker thread | `src/window/communication/backendworker.cpp` | queue of requests to Android |
| window process, grab thread | `src/window/screensharing` | buffers that are shared |
| settings, location, sensor services | `src/settings-*`, `src/gps`, `src/sensor` | settings files, positions |
| Android in its container | outside the repository | running apps, their virtual displays, touches |

### How they interact

1. **Starting an app.** startapp asks the window process over D-Bus for the list
   of running apps (`main.cpp:340`). An app in the list is activated; otherwise
   startapp takes a lock file, starts the container if necessary, calls
   `launchApp` over D-Bus (a window without display appears and its boot timer
   runs) and then asks Android for the app. Android's `LaunchResult` carries the
   display id; it connects the window to its display and stops the boot timer.
2. **Showing frames.** Android announces dirty displays to the decoder, which
   looks the display up in the list of the display backend and hands the frame
   to the renderer if updates are enabled: it posts an event to the renderer's
   thread, which imports the buffer and draws it at the size the widget has.
   Windows register, connect, enable, resize and unregister displays from the GUI
   thread, with blocking calls into the render thread at the end.
3. **Input.** Keys and mouse buttons that are set up as game keys become touches
   of Android's screen; `EventManager` sends touches only for the display that
   has the focus.
4. **Recording.** The panel starts capture inputs, a synchronizer and encoders; the
   synchronizer merges video and audio into one time line and feeds the encoder
   threads, whose packets the muxer thread writes. Stopping finishes the file while
   a progress dialog runs the event loop.
5. **Ending.** Closing a window removes it from the map, asks Android to close the
   app and deletes the window. Android reports every end of an app, wanted or
   not, with the same `CloseResult`. The container's stop signal, or a timer in
   case it is lost, ends the window process.

### Components, what is hard about them, what makes them correct

| Component | State and operations | Hard behaviour | Correct when |
|---|---|---|---|
| Display backend | list of displays, dirty queue, parked frames; register, connect, enable, update, unregister | decoder against GUI thread; timer callback without lock; lookup by id while ids are unknown | a display does what it was last asked; frames in order; one display per id; no frame and no display lost |
| Renderers | worker thread, its events, GL context, blur timers; update, redraw, blur, resize, destroy | GUI thread, timers and decoder change what the worker reads in the middle of a picture; blocking call and join with a lock held | the screen settles on the newest picture at the size of now; nothing runs after the context is gone; the GUI thread comes back |
| Window manager and windows | map, windows, boot timers, dialogs; create, close, hide, hint | nested event loops; a close, crash, uninstall or restart overtaking each other; lost messages | map = windows; no app runs unseen; no window waits in silence; crashes are noticed |
| Messages | buffers, connections | coalesced reads; several connections | what Android sent is acted upon once and in order |
| Launcher | pc of the process, lock files | check before lock; container not up | at most one window per app, lock released |
| Display manager | mode, remembered mode, focus, which display updates; switch, rotate, full screen, hide, show, focus | messages in any state of the window; late rotation signals | mode, widgets and updates agree; the way back to the parallel view is kept; the display switched to gets the input |
| Game keys | touch slots, wheels, timers, locked view; press, release, move, focus, edit | a key pressed and released under different names; focus lost with keys held; timers | a touch that is put down is lifted; the mouse is given back |
| Recording: panel | what is shown, inputs, output, files; start, pause, stop, cancel, share | handlers cut by nested event loops; windows share preferences | a recording can be ended; inputs run with the output; a save ends before its output goes; saved and shared files are left alone |
| Recording: encoders and muxer | frame and packet queues, flags; add, encode, flush, finish, stop, join | shutdown with frames on their way; errors; order of freeing | what was taken is written; no use after free; finishing ends |
| Recording: synchronizer | buffers, segment, positions; read, flush, new segment | full buffers, late, early and missing input | frame numbers increase; video neither ahead nor behind; no sample missing |
| Screen sharing | grab thread, shared buffers | unlocked hand-over, sleeping destructor | a buffer has one owner |
| Lock-screen inhibition | cookie | second Inhibit | every cookie is given back |
| Utilities, configuration, other programs | see `PROJECT.json` | mostly user interface or input and output | not modelled |

`PROJECT.json` lists every component with its status and the hazards at their lines.
Hazards known beyond that list, all in code that is not modelled: a second `Inhibit`
overwrites the cookie of the first (`windowmanager.cpp:458`); a multiplier switch
focuses a display of a background window (`displaymanager.cpp:589`); focus signals
reach windows in the order of their creation (`kmrewindow.cpp:1005`); the package of
a switch is matched by its prefix (`windowmanager.cpp:409`); the buffers of screen
sharing are exchanged without a lock and its destructor sleeps 100 ms for its
thread (`screensharing.cpp:43`, `62`); startapp may keep its lock file
(`startapp/utils.cpp:145`).

## 2. The modules

| Module | Models | Proofs |
|---|---|---|
| `FrameGate` | abstract specification: what the window of a display may rely on | |
| `DisplayBackend` | `displaybackend.cpp`, `kmredisplay.cpp`, the id of a `DisplayWidget` | `DisplayBackend_proofs` |
| `RenderThread` | `displayfrontend`: the renderer on X11, its thread, the calls that reach it | `RenderThread_proofs` |
| `AppWindows` | `windowmanager.cpp`, `kmrewindow.cpp` (life of a window), the launcher, the traffic with Android; Android and the container as external actors | `AppWindows_proofs` |
| `DisplayModes` | `displaymanager.cpp` of one window: the main and the accessory display | `DisplayModes_proofs` |
| `GameTouches` | `keyboardgamekeymanager.cpp`, its timers, `gamekeymanager`'s modes as far as they change keys, `EventManager`'s focus | `GameTouches_proofs` |
| `MCGameTouches` | values for the constants of `GameTouches` that are functions | |
| `RecordScreen` | `recordscreenwidget.cpp`: `RecordScreenWidget` and `RecordingToolPanel`, boxes, files | `RecordScreen_proofs` |
| `RecordedFile` | abstract specification: the file an output promises | |
| `RecordOutput` | `AV/Output`: `OutputManager`, `BaseEncoder`, `Muxer` and their threads | `RecordOutput_proofs` |
| `Synchronizer` | `AV/Output/Synchronizer.cpp` | `Synchronizer_proofs` |

`RenderThread` composes with `DisplayBackend` through `FrameGate`: its actions are
the gate's actions together with what they make the renderer do, and
`DisplayBackend` implements the gate (run `backend`, theorem
`BackendImplementsGate`). In the same way `RecordOutput` implements `RecordedFile`, in
which a file is open, closed once with all that was taken, or broken (run
`record_output`, theorem `OutputImplementsFile`).

### DisplayBackend

One variable per field of the code: `mDisplayList` (by widget, in registration
order), `mDirtyDisplays`, `mUnupdatedDisplays`; `display` holds the fields of the
`KmreDisplay` objects and, in `rendererOn` and `last`, what their renderers were
told. A frame is its number in the order of posting.

*Atomicity.* A step is what no other thread can observe half done. The GUI
thread's calls are split where they take or release `mDisplayListLock` and where
the decoder can be in between: registering is `RegisterDisplay`,
`RegisterReplay`, `RegisterAppend`; connecting is `ConnectWidget`,
`ConnectDisplay`, `ConnectReplay`. The delay timer's lambda takes no lock, so it
is three steps (`TimerReady`, `TimerEnablePending`, `TimerReplay`) that the
decoder may cut. The decoder's `updateDisplays` is `UpdateDisplays`,
`LookUpDisplay`, then `ForwardFrame` or `StoreFrame` (under the list's lock) or
`ParkFrame` (after it), and `UpdateDisplaysDone`. The variables `gui` and `dec`
say where the two threads are.

*The environment.* Android gives each live display an id of its own (`Unused`);
a widget is registered with id -1 (main display) or with its id (accessory
display) and gets an id once, as `KmreWindow::updateDisplay` has it. The delay of
a display depends on the app (`getDelayUpdateTime`) and is chosen freely.

### RenderThread

`wanted`, `open` and `last` are the gate; `gui` and `dec` say where GUI thread and
decoder are, `listLock` who holds `mDisplayListLock`; `window` is the widget with
its two sizes and the number of blur timers that run; `queue` the events posted
to the helper; `renderer` the fields of `DisplayHelper` and `GLESDisplayHelper`,
the picture that is being drawn and the one on the screen.

*Atomicity.* The worker takes one event at a time, but a picture is drawn in four
steps: `mBlurEnabled` is read for the region (`ChooseRegion`), again for the
shader (`ChooseShader`), and the size is read last (`DrawDisplay`). The GUI thread
runs one call at a time; a stretch is `BlurUpdate`, `BlurStartTimer`, `SetFixedSize`,
`SetRealSize`, `ForceRedraw`, and the worker and the decoder may come between any
two of them. Blur timers take no lock. `UnregisterDisplay`, `DestroyDisplay`, `Quit`,
`Stop` and `Join` are the end of a renderer, a blocking call and a join with the
lock of the list held.

*Abstractions.* A size is the number of the call that made it. Windows are those
whose size is dynamic, so that they blur. Textures are frames: `frame` is the
current texture, 0 is none; the cache of textures, their orientation and GL are left
out. The region is the one `updateShowRegion` is asked for (it keeps the old one
while the widget is larger than the image). `QSize` is read in one step. A blur
timer has no context object and may fire into a renderer that is gone; what it
writes then belongs to nobody in the model. `TakeUpdate` tries GL up to three times;
whether a try succeeds is open. The renderers of Wayland (which draw in
`paintGL` of the widget) and of EmuGL (which talk to a server) are other classes.

### AppWindows

`mWindowMap`, `win` (the fields of the windows), `modals` (dialogs, oldest first),
`mExitTimer`, and the other processes: `startapp`, the queue `toAndroid` of close
requests, the messages `fromAndroid`, the running apps `android`, the `container`.

*Atomicity.* Every handler of the GUI thread is one action: the GUI thread runs
handlers one after the other and `mWinMapMtx` is only held inside them. The
exception is the boot timeout, which runs a modal dialog: `BootTimeout` opens it,
anything may happen in its nested event loop, `DismissTimeout` continues with
`closeWindow(true)`. A window can be deleted while its dialog is open (uninstalled,
quit from the tray, its crash hint answered). The lambda then returns into a deleted
window, which is undefined; `CloseWindow` lets the process die of it or not.
Which dialog the user can answer and which window he can reach follows Qt's
rules: the boot timeout's dialog blocks the whole application, the crash hint
blocks its window, newer dialogs are never blocked by older ones.

A `LaunchResult` may come without an app name (`named`): `updateDisplay` then does
not take the display, though `onAppLaunchSucceed` goes on and stops the boot timer;
`refused` notes this of a window, as a history.

*Abstractions.* A pair of `closeApp` and `controlApp(7)` is one request. The
question of `ConfirmCloseEnv` is not on the screen for any time of its own. Window
objects are reused when deleted, so that the number of windows bounds those that
exist at the same time, not those that ever exist. `CloseResult` messages carry
the reason they were sent for ("closed", "crashed") as a history for the
properties; the handlers do not look at it.

### DisplayModes

`win` is one window with its `DisplayManager`: the two modes, the ids of the two
displays, the focus, whether the window is shown and in full screen, and per
display whether its widget is visible and its updates are enabled. An app may show
a second, *accessory* display beside its main one (the parallel view, 平行视界).
Android switches it on and off with a message that may come at any time
(`OnMultiplierSwitch`); rotations and full screen leave the view for one display
and come back to it, which is what `mLastDisplayMode` is for.

*Atomicity.* All handlers run in the GUI thread, one at a time, and each is one
action. Rotations are found by the render thread (`FrameRotated`), which is only
given frames while updates are enabled, and are handled later
(`OnDisplayRotationChanged`), so anything may happen in between.

*Abstractions.* Sizes are left out; of the screen only its orientation is kept.
`visible` is `QWidget::setVisible`, not whether the widget is covered.
`inputFocus` is the display id that `EventManager` was told last, 0 for a display
of another app. `frameRotation` is -1 before a display's first frame, so that the
first frame is a rotation too. `parallel` is a history: what the last carried-out switch asked
for. While neither display has an id both are -1 and the code's comparisons
find the main display for both; the model keeps that. `CreateAccessoryDisplayFailed`
is the case in which the display cannot be registered. Closing is in `AppWindows`.

### GameTouches

`order` and `fixed` are `mButtonClickOrder`: the slots any key may take and the
three reserved for the direction wheel, the view wheel and the locked view.
`mPovValue` and `mViewValue` are the sums the wheels' keys make; `tap` and `dropped`
are the timers of combo keys, those `mGameKeyMap` has and those it has lost;
`down` is what Android holds. Each handler of a key, a button, a timer, a focus
event or an edit of the keys is one action of the GUI thread.

*The environment.* The name of a key contains the modifiers of the moment of the
event, so a key may be released under another name than it was pressed with
(`Physical` maps names to keys). A click gives the widget the focus first, unless
its window is not active; a button is released where it was pressed, a key where
the focus is. Qt delivers the widget's `FocusOut` before `focusWindowChanged`.
Other displays may take the input at any time.

*Abstractions.* Positions are left out; whether the moving view meets a border, where
its touch is lifted and put down again, is open. An edit keeps a key's type. The type GRAVITY has no code. A touch of slot -1
(no slot was free) is sent but cannot be told from another, and is not tracked.

### RecordScreen

`panel` and `widget` are the buttons and flags of the two classes; `boxes` is the
stack of message boxes and progress dialogs, each with its event loop; `files` what
became of each file. A handler that opens a box is cut there: the rest of it runs
when the box, the innermost one, is closed. In between queued signals and the
once-a-second check of the size come. The inputs and the output are present or
absent; creating one may fail. An output that fails does so before `avio_open` has
made its file (`unopened`) or after (`left`, an empty file on the disk).

The window, and with it the widget, can be destroyed at any time, from inside any of
the boxes too: an uninstall, the tray's quit, the answer to a crash hint and the end
of the container reach it there. `DestroyWindow` is `~RecordScreenWidget`, that is
`StopRecord(false)`. A handler that was cut by a box would then return into a deleted
widget, which is undefined; the model ends there, as there is no state left to speak
of, except for the files.

*Abstractions.* "other" is a box or menu of another part of the program. A muxer
that fails while saving ends the save like any other, and its file is `saved`. Left
out: the selection of a region and its keyboard grab, the folding and moving of the
panel. On Wayland, where no input can be created, the model
has the failing input.

### RecordOutput

A queue is the difference of two counters, as frames and packets keep their order.
`main` and `at` are the owner (the GUI thread) in its loops over the encoders,
`thr` the encoder threads, `muxer` and `scan` the muxer thread. The steps are the
sections under one lock: `BaseEncoder::EncoderThread` tests `m_should_stop` (`Look`),
takes a frame under its lock (`TakeFrame`) and, if there is none, reads
`m_should_finish` after it (`LeaveOrSleep`), the muxer locks one stream after the other (`EndScan` closes a round).
Errors of codec and file may happen at every call. `m_fragmented` is false in every
build, so its thread is left out.

### Synchronizer

Time is in ticks of one sample, a frame lasts `FrameTime` ticks; the rounding between
the two rates is left out, the truncation of the integer divisions is kept. The
drift correction decides how many samples a block of sound becomes; here that is a
choice. Every call holds the lock of the shared data, and `pc` names the loop it is
in, so that one iteration is one step. The timestamps of the inputs are any
increasing sequences, more than the real clocks produce. `ReadVideoPing` has no
caller and `ReadAudioHole`'s silence is not modelled. `FlushAudioBuffer` counts what
it may write before it drops the samples that came too early, so that the audio may
exceed the segment for a moment; the property asks only that none is missing.

## 3. What the runs check

| Run | Instance | Properties and what they say |
|---|---|---|
| `backend` | `DisplayBackend`: 2 widgets, 2 ids, 2 frames | `GateFollowsRequest` the flags of a display always stand for the last enable or disable request; `OneDisplayPerId` ids in the list are unique and belong to living widgets; `ConnectedStaysListed` nobody else's close removes a connected display; `FramesInOrder` frames of an undelayed display are shown in order; `ImplementsGate` refinement of `FrameGate`; `EveryBatchHandled` the decoder gets to the end of every batch (a list lock that is not given back on some path would stop it; `mUnupdatedDisplaysLock` is innermost in both threads, waits for nothing and is part of the steps that take it); `DelayEnds` a delay ends |
| `windows` | `AppWindows`: 1 app with a tray icon, 2 windows, 1 launcher, 1 message may be lost | `MapMatchesWindows` the map holds exactly the windows that exist; `OrphanOnlyAfterHint` an app that runs has a window, or is announced, or about to be closed, or was closed by a crash hint; `CrashIsNoticed` the window of an app that died is closed or shows the hint; `NoWindowWaitsForever` a window gets its display, the timeout's dialog, or goes, unless a nameless `LaunchResult` ended its boot; `EnvCloseEnds` closing the environment ends the process, whether or not the container's signal comes |
| `display_modes` | `DisplayModes`: 2 rotations, 2 rotation signals on their way, both orientations of app and screen | `VisibleFollowsMode` the widgets that can be seen are those of the mode; `UpdatesFollowMode` a window on the screen draws exactly the displays of its mode; `ParallelViewRemembered` the way back to the parallel view is never lost; `SwitchedDisplayGetsInput` a switch moves the input, wherever it went before |
| `render_thread` | `RenderThread`: 1 window, 2 frames, 4 calls | `ScreenSettles` once nothing is on its way, the screen has the newest picture at the size, in the region and with the blur of now; `NothingAfterExit` nothing is posted to a destroyed context or drawn with it; `GuiComesBack` no call keeps the GUI thread for ever |
| `game_touches` | `GameTouches`: 1 slot any key may take, one key of each kind, names with and without Ctrl, one key held at a time, keys edited, input moving | `ViewTouchHasTimer` the view's touch and the timer that lifts it come and go together; `WheelTouchHasDirection` the wheel is touched only while its keys make a direction; `MouseFollowsLock` the mouse is taken by a locked view only |
| `record_screen` | `RecordScreen`: 3 files, 3 nested boxes, 2 signals | `RecordingInReach` while a recording is on its panel can be seen and the settings are out of reach; `InputsFollowOutput` sources and sinks live with the output; `OutputOutlivesSaving` the output outlives the dialog that polls it as long as the window does; `OutputHasItsFile` a file an output was made for is the current one until it is saved or removed; `SharedIsSettled` what is handed to Android is neither still written to nor removed; `SavedIsKept` a saved file is neither removed nor rewritten |
| `record_output` | `RecordOutput`: 2 streams, the first with a delaying codec, 2 frames each | `MuxerDrained` a muxer that is done has every packet; `TakenIsWritten` without errors every frame an encoder took is in the file; `NoUseAfterFree` no thread touches a deleted encoder or muxer; `ImplementsFile` refinement of `RecordedFile`: closed once, complete, and a file that failed is never reported as done; `OutputEnds` finishing, stopping and failing all end |
| `synchronizer` | `Synchronizer`: frames of 1 tick, 1 frame may be skipped, buffers of 2 frames and 3 samples, time to 5 | `PtsIncrease` frame numbers increase; `VideoNeverAhead`, `VideoKeepsUp` the video is neither longer than the recording nor shorter by more than what may be skipped; `AudioComplete` no sample is missing |
| `stranded_frame`, `false_crash_hint`, `focus_out_touches`, `audio_without_encoder` | the modules above, small | findings, see below |

`TypeOK` is checked in `backend`, `windows` and `display_modes`. It is proved for all
modules, those whose run does not check it included.

**Bounds.**

* `backend`: two widgets are enough for one window to disturb another through the
  list, two ids to confuse them; of two frames one is parked or queued while the
  other is in the decoder's hands.
* `windows`: two windows allow an app to be closed, started again and announced
  late while its old window shows a dialog. `MaxId` counts the displays Android
  ever creates, so it bounds how often apps are started; two are a start and a
  restart. `MaxMessages` bounds the messages on their way, `MaxRequests` the close
  requests pending when an app is started, `MaxLost` the messages lost. Several apps
  and launchers, and messages out of order, are covered by the theorems
  `WindowsAccountedFor` and `NoAppForgotten`, which hold for all of them. The run
  visits about 180000 states in two minutes.
* `display_modes`: the rotations 2 and 3 would be handled as 0 and 1 are
  (`currentDisplayOrientation`), and two signals are one of each display.
* `render_thread`: four calls are a stretch with a blur, another before its timer
  fires, hide and show; two frames are one on the screen and one on its way.
  `MaxCalls` also bounds the sizes. The run takes about two minutes; more windows,
  frames and calls, and the third failing attempt at a GL context, are covered
  by the theorems, which cover both invariants.
* `game_touches`: the code has six slots any key may take; with one the case of no
  free slot happens at once. More keys held at a time are covered by the theorems.
* `record_screen`: three nested boxes are a question, a save and the box of another
  part; three files are one saved, one removed and one going on. The run visits
  about 200000 states.
* `record_output`: with two streams one can be done while the other is not, and
  only one of the two codecs keeps packets back.
* `synchronizer`: the limits of the buffers are small so that they are reached;
  `Delays` has delays of none and one frame, `Blocks` the length of a block of
  sound. Recordings without sound are covered by the theorems (`HasAudio` is open).

**Deadlock** is checked for `DisplayModes`, `GameTouches`, `RecordScreen`,
`RecordOutput` and `Synchronizer`, where something can always happen or the end is
a step of its own. It is not for `DisplayBackend`, `AppWindows` and `RenderThread`:
their runs end when frames, ids, displays or calls are used up, and the window
process may exit.

**Fairness.** `DisplayBackend`: the GUI thread finishes a call it is in and serves
its timers, the decoder finishes the batch it was told of (libDisplayControl
calls `updateDisplays` after each batch). Nothing makes a window call the backend
or Android post a frame. `AppWindows`: the GUI thread's event loop, nested or not,
delivers queued messages and fires timers: `OnMessage`, `BootTimeout`,
`ExitTimeout` and the signal of the container. The user, the launcher and Android
owe nothing, so no property depends on a dialog being answered or a message
being sent. `RenderThread`: GUI thread, worker and decoder go on with what they are
in the middle of; nothing makes a window call or a frame come. `RecordOutput`
(`FairSpec`): the owner goes on except while the recording runs, the encoder
threads and the muxer thread run. Whether a frame comes, a packet leaves the
codec or an error happens is open.

**Findings.** Four runs are expected to find a violation:

* `stranded_frame`: the decoder does not find a display, gives up the list's lock,
  the GUI thread connects the display and looks for parked frames, and only then
  the decoder parks the frame. It is never drawn, though the code says "Update
  it later!" (`displaybackend.cpp:194`).
* `false_crash_hint`: the user closes an app and starts it again at once; the
  answer to the close finds the new window, and "app crashed in android!"
  (`windowmanager.cpp:271`) is shown to the user.
* `focus_out_touches`: a window that loses the focus releases the touches of its
  keys, so that they do not stay down (`displaymanager.cpp:529`), but it has given
  away its input before and `EventManager` drops the release.
* `audio_without_encoder`: the preference "with audio" is shared by all windows,
  what an output is made for is not. Set from the recorder of another window before
  this one starts its inputs, in the trace before it starts to record, it connects a
  sound source to an output without sound, and
  `assert(m_output_format->m_audio_enabled)` (`Synchronizer.cpp:383`) fails.

**Other disagreements** met while modelling. Those that name a definition are stated
in the modules and can be checked with TLC, which finds a counterexample:

* `ConnectFindsDisplay`: two windows boot, both with id -1; the second is closed,
  and `unregisterDisplay(-1)` removes the display of the first, which should have
  been connected "later" (`displaybackend.cpp:80`).
* `HiddenNotUpdating`: a hidden window must not update live
  ("不要再进行界面实时更新", `displaymanager.cpp:1273`), but `setDisplayMode` calls
  `showDisplays` whether the window is shown or not.
* `ParallelViewOnlyWhenOn`: a parallel view that was switched off while the window
  showed one display comes back with the next rotation, because `MULTI` stays
  remembered (`displaymanager.h:74-76`).
* `BootIsTimed`: a `LaunchResult` with an empty app name stops the boot timer
  (`windowmanager.cpp:259`) of a window that does not take the display
  (`kmrewindow.cpp:245`): it neither boots nor says "App boot time out! Please restart
  app." (`kmrewindow.cpp:204`). `NoWindowWaitsForever` and the theorem
  `BootsAreWatched` make an exception of this case (`refused`), and of no other.
* `FinishIsAwaited`: a window destroyed while its recording is being saved resets
  the output under the loop that polls it (`recordscreenwidget.cpp:479`, `873`, `985`)
  and removes the file, though after `Finish` "we still have to wait until IsFinished()
  returns true or else the file will be corrupted" (`OutputManager.cpp:86`).
  `OutputOutlivesSaving` asks the same of a window that is not destroyed.
* `UnneededIsDeleted`: `avio_open` (`Muxer.cpp:213`) makes the file; an encoder or a
  header that throws after it leaves a recording without an output, and `StopRecord`
  means to "delete the file if it isn't needed" (`recordscreenwidget.cpp:870`) only
  when there is one. The empty file stays; `OutputHasItsFile` does not speak of it.
* `FinishDropsNothing`: an encoder thread that finds its queue empty looks at
  `m_should_finish` only afterwards (`BaseEncoder.cpp:199`); a frame added in between
  is dropped, though only `Stop` should drop frames (`BaseEncoder.h:93`).
  `TakenIsWritten` does not speak of such a frame, which was never taken.
* `FirstPtsZero`: the first frame's number is forced to zero
  (`Synchronizer.cpp:719`), but a frame that came too early is dropped and can be
  duplicated all the same; the first number is then that of the duplicate.
* `AsksOnlyWhileRecording`, `ScreenChangeCancels`: the recorder asks "Recording is
  going on!" after the recording ended in a nested box, and says "stop and cancel
  recording!" (`recordscreenwidget.cpp:1121`) while the recording goes on.
* The timers of overlapping blurs are not cancelled: the first ends the blur of a
  later stretch early (`displaymanager.cpp:889`). `ScreenSettles` asks only that a
  blur has a timer and that the picture is right once it is over.
* A frame that is on its way when its window is hidden is dropped
  (`displaymanager.cpp:1280`), so the redraw of the next show draws an older one
  until Android sends another. `skipped` in `ScreenSettles` excuses this case.
* The lambda of the blur timer has no context object
  (`gles_display_work_manager.cpp:64`) and uses a helper that may be gone;
  `mImageWidth` is read uninitialised when a redraw comes before any frame.

Each property of a passing run has a mutant in `PROJECT.json`: a plausible mistake
in one definition with which the run finds the property violated.

## 4. What is proved

For every choice of the constants that satisfies the assumptions (`NoWidget` is no
widget, ids are natural numbers, bounds are natural numbers, there is an app, the
two displays of a window have different positive ids, the rotations are some of 0
to 3 with 0 among them, the sets of game keys do not overlap, the synchronizer's buffer
limits and frame times are positive; each is a named `ASSUME` of its module):

| Module | Theorem | Statement |
|---|---|---|
| `DisplayBackend_proofs` | `TypeCorrect` | `[]TypeOK` |
| | `RequestsHonoured` | `[]GateFollowsRequest` |
| | `BackendImplementsGate` | `ImplementsGate` |
| | `IdsAreUnique` | `[]OneDisplayPerId` |
| | `ConnectedStays` | `ConnectedStaysListed` |
| | `UndelayedInOrder` | `FramesInOrder` |
| | `ListLockExcludes` | `[]LockInv` |
| | `QueueIsNewest` | `[](QueueInOrder /\ FramesBehind)` |
| | `DelaysAreTimed` | `[]DelayIsTimed` |
| | `BatchesAreServed` | `[]BatchIsServed` |
| | `BatchesWindDown` | `BatchWindsDown` |
| `RenderThread_proofs` | `TypeCorrect` | `[]TypeOK` |
| | `NothingRunsAfterExit` | `[]NothingAfterExit` |
| | `PictureSettles` | `[]ScreenSettles` |
| | `WaitsAreServed` | `[]WaitIsServed` |
| | `WorkersWindDown` | `WorkerWindsDown` |
| `AppWindows_proofs` | `TypeCorrect` | `[]TypeOK` |
| | `WindowsAccountedFor` | `[]MapMatchesWindows` |
| | `NoAppForgotten` | `[]OrphanOnlyAfterHint` |
| | `BootsAreWatched` | `[]BootIsWatched` |
| | `ExitsAreTimed` | `[]ExitIsTimed` |
| | `EndsAreTold` | `[]EndIsOnItsWay` |
| `DisplayModes_proofs` | `TypeCorrect` | `[]TypeOK` |
| | `WidgetsFollowMode` | `[]VisibleFollowsMode` |
| | `DrawingFollowsMode` | `[]UpdatesFollowMode` |
| | `WayBackIsKept` | `[]ParallelViewRemembered` |
| | `SwitchMovesInput` | `SwitchedDisplayGetsInput` |
| `GameTouches_proofs` | `TypeCorrect` | `[]TypeOK` |
| | `NoViewTouchLeft` | `[]ViewTouchHasTimer` |
| | `NoIdleWheelTouch` | `[]WheelTouchHasDirection` |
| | `MouseIsGivenBack` | `[]MouseFollowsLock` |
| `RecordScreen_proofs` | `TypeCorrect` | `[]TypeOK` |
| | `RecordingStaysInReach` | `[]RecordingInReach` |
| | `SourcesFollowOutput` | `[]InputsFollowOutput` |
| | `OutputOutlivesItsSave` | `[]OutputOutlivesSaving` |
| | `OutputsHaveTheirFiles` | `[]OutputHasItsFile` |
| | `SharedFilesAreSettled` | `[]SharedIsSettled` |
| | `SavedFilesStay` | `SavedIsKept` |
| `RecordOutput_proofs` | `TypeCorrect` | `[]TypeOK` |
| | `NothingUsedAfterFree` | `[]NoUseAfterFree` |
| | `DoneMeansDrained` | `[]MuxerDrained` |
| | `NothingTakenIsLost` | `[]TakenIsWritten` |
| | `OutputImplementsFile` | `ImplementsFile` |
| | `EncodersWindDown` | `EncoderWindsDown` |
| `Synchronizer_proofs` | `TypeCorrect` | `[]TypeOK` |
| | `VideoInBounds` | `[]VideoNeverAhead` |
| | `VideoStaysClose` | `[]VideoKeepsUp` |
| | `NoTimeBeforeFirst` | `[](~haveLast => timeOffset < FrameTime)` |
| | `RecordingGrows` | `TotalGrows` |
| | `FramesInOrder` | `PtsIncrease` |
| | `GapsFilled` | `NoLongGap` |
| | `NoSoundMissing` | `AudioComplete` |

Every theorem has the form `Spec => ...`.

*Display backend.* `TypeOK` is not inductive alone: the decoder's steps use the head
of the queue. `TypeInv` adds that the queue is not empty while a frame is being
handled. `GateFollowsRequest` excludes the moment between the two halves of
`readyUpdate`; `GateInv` says what holds in that moment too (the pending request
is either already in force or still noted), so that every interleaving with the
decoder, which may run `readyUpdate` of another display, keeps it. The lemmas
about `EnableUpdate`, `FirstUpdate`, `Present` and `Update` say what each does to
the four flags; the refinement uses the same lemmas, with one case per action
that maps it to a gate step or to a stutter. Ids and frames need more of the state of
the two threads. `IdInv` says that a display with an id is in the list, or in the
hands of the call that is about to append it, and has the id of its living widget;
without the second half two calls could register one widget twice. `LockInv` says
who is inside the list's lock, which is what keeps a display in the list while the
decoder hands it a frame. `OrderInv` puts the frames in one line: the queue is in the
order of posting, and whatever was shown, missed or parked was posted before what is
still queued (`Behind`). `FramesInOrder` is then a fact about each step that shows a
frame: a fresh one is ahead of all that was shown, and a parked one is replayed to a
display that has shown none. The two liveness properties are proved up to fairness:
a display that got its first frame is ready or has its timer (`DelayIsTimed`); when
the list's lock keeps the decoder from the next frame the GUI thread is one step from
giving it back (`BatchIsServed`, from `LockInv`); and every step of the decoder takes
something from `BatchWork`, to which nobody adds because `mDirtyDisplaysLock` keeps new
frames out (`BatchWindsDown`).

*Render thread.* `TurnInv` says who does what: the window the GUI thread is on is
being closed exactly while it is in the three steps of the end, the lock is its
own then, and the decoder has a living window's display only while it has the
lock. `ExitInv` follows one renderer: before its end there is no destroy event;
while the GUI thread waits for it the destroy event is the last; afterwards the
queue is empty. The lock is what makes it inductive: without it the decoder could
post behind the destroy event. `ScreenSettles` needs more, because it speaks of
quiet moments only and is broken in most others. `Fresh` says, at any moment and
for each window, why the picture will come right: the last frame handed over is
the last update in the queue, or current, or dropped (`FrameFresh`); a blur has a
timer and the sizes agree except in the call that changes them (`WindowFresh`);
and when no redraw is queued and the GUI thread is not about to post one,
everything the worker has chosen for its picture so far is what it would choose now
(`PictureFresh`). Each action then posts a redraw, is on the way to, or changes
nothing the picture depends on. `GuiComesBack` is liveness and not proved, but the two
facts it rests on are: whoever the GUI thread waits for can go on (`WaitIsServed`,
from `WaitInv`: the lock belongs to the call that has taken it, and a worker ends
only when it was told to and is about to be joined), and a worker whose renderer is
being closed has less to do after each of its steps and gets no more from anybody
(`WorkerWindsDown`, with the measure `WorkerWork`). What fairness adds is that the
steps are taken.

*Windows.* The invariant is `TypeOK`, `MapMatchesWindows` and: a dialog belongs to
a window that exists. Without the last, dismissing a dialog could close a window
object that is not in use and would take the map entry of another app. The
lemma `CloseWindowKeeps` covers every way a window goes, `CreateWindowKeeps` both
ways it comes; the steps of launchers and Android leave windows alone.
`NoAppForgotten` adds `AppsStopped`: apps only run while the container does.
Three more results are the parts without fairness of the three liveness properties:
whatever a window or the process waits for is on its way. `BootInv` says that a
window without a display has started its boot timer, or was refused its display for
a LaunchResult without an app name, and that a boot timer that has fired has its
dialog on screen; it also needs that a LaunchResult always names a display. `ExitInv` says the same of the exit timer. `EndInv` is about the messages:
a window whose display is no longer the app's shows the hint, or the end of that
display is in the queue; and a LaunchResult that is out of date has the end of its
display *behind* it, so that taking it never leaves a window with a display of which
nothing more will be heard. That is claimed only while messages come in order and none
is lost (`InSequence`): when the message that tells of the end is lost, no other follows.

*Display modes.* None of the properties is inductive: a rotation goes wherever
`mLastDisplayMode` points, so a mode with the accessory display must not even be
remembered before the display exists, and the display's id must be the right one
for `enableDisplay` to find it. `Sound` says this of a window, `Drawn` is
`UpdatesFollowMode`, and `Settled` adds the visible widgets. The lemmas follow the
code: `SetDisplayMode` and what is built on it keep `Sound` and establish `Drawn`
but leave the widgets behind, `SetDisplaySize` settles them, and so every handler,
which ends in it, takes a settled window to a settled one. A step of `Next` is then
one lemma for each action.

*Game touches.* The handlers are functions from a manager's state to the next, and
each has a lemma that says which slots and timers it changes. The strengthening is
`ViewTurnedIsTouched`: a view that is turned (its value is not 0) has its slot. Without
it a second key of the view would start the timer while the view is not touched.

*Recorder.* A destroyed window has no boxes whatever it waited for, so `BoxInv`, and with
it `OutputOutlivesSaving`, is claimed only of a window that lives (`LiveInv`); the
other parts of `IInv` hold afterwards too. `BoxInv` is what the boxes need: only the outermost one can be the dialog
of a save, because a stop that finds any box open does nothing; so the dialog that
ends is alone, and the widget it goes back to is the one it left. `FileInv` adds to
`OutputHasItsFile` and `SharedIsSettled` that the files begun are the ones up to the widget's
number and that the last one is removed only when its panel goes, so that a name is
never used twice. `Nested` and `Wired` order the flags (input, output, recording)
and hold after each of the functions the handlers are built from, which is what
most lemmas say; `PanelInv` is `RecordingInReach` with the record button set apart.

*Recording.* `OwnerInv` ties the objects that exist to the step the owner is in,
`CountInv` orders the counters (added, taken, sent, popped, written), `ThreadInv`
says which thread can still change them, and `ScanInv` is the heart: the streams
the muxer has counted in this round have ended and are empty, and stay so,
because a thread that ended sends no more. `ToldInv` (nobody is told to finish as long
as frames may come) makes two more results possible. `EncoderWindsDown` is the part
of `OutputEnds` without fairness: an encoder that was told to finish or to stop has
less to do after every step of its thread, waiting ones included, by the measure
`EncoderWork`, and the other threads never add to it; the order in which the loop
tests its flags is what makes the measure go down. `OutputImplementsFile` has one case
per action: the counters and the muxer's state are the file, the streams told to stop
or failing are those it may lose, and the close of the file is the step at which
`MuxerDrained` has all the others complete.

*Synchronizer.* The invariant has four
parts: `FlushInv` (a flush goes on only while both inputs have started),
`SegmentInv` (the stop times are those of the last frame and the last sample),
`AudioInv` (the sound sent is never behind the first sample in the buffer) and
`VideoInv` (the last frame number is behind the position, which is within the
recording); the arithmetic of the truncating divisions is in lemmas of its own. The recordings
without sound are included. `VideoKeepsUp` speaks of the end of a flush and needs to
know where the next frame will be placed: `BufferInv` (the segment's end belongs to
the newest frame in the buffer), `PlaceInv` (the predicted number is at most one
below that of the frame, and when the buffer is empty its last frame was placed)
and `FirstInv` (before a first frame nothing was encoded and less than one frame
time has passed). The lemmas `PtsNext` and `PtsFirst` bound the truncated numbers.

Every invariant and every action property of the passing runs is proved. Only
model-checked are the liveness properties: `EveryBatchHandled`, `DelayEnds`,
`CrashIsNoticed`, `NoWindowWaitsForever`, `EnvCloseEnds`, `GuiComesBack` and
`OutputEnds`. They need fairness and ENABLED, which is out of the prover's reach (the
part of each that needs neither is proved, as said above), as are
induction over data (theorems with an operator as parameter) and RECURSIVE operators,
which no module uses.

## 5. Plan

Done: `DisplayBackend` with `FrameGate`, `RenderThread`, `AppWindows`, `DisplayModes`,
`GameTouches`, `RecordScreen`, `RecordOutput`, `Synchronizer`, each with its
proofs. What could follow:

1. Proofs: an abstract life of an app (not running, starting, running, ending) that
   `AppWindows` implements.
2. `DisplayFocus`: several windows and the one input focus of `EventManager`: focus
   signals in the order of the windows, switches of background apps, the prefix
   match of `onSwitchMultipler`, ids of windows that boot.
3. `WindowDisplays`: `DisplayModes` composed with the lookup by id of the display
   backend: a window that is shown and connected is the one whose display updates.
4. `CommandChannel`: read buffer, parser and connections, refining the lossy,
   reordering queue `fromAndroid`.
5. `EnvBoot`: starting the environment (lock files, worker, bounded waits).
6. Screen sharing's grab thread, the lock-screen cookie, the clipboard's echo.

## 6. Not modelled

* *Left for later, see the plan*: focus between windows, the read buffers of the
  connections, starting the container, screen sharing, lock-screen inhibition, the
  clipboard, the stretch of a window by the mouse and its worker.
* *Older or other variants*: the renderers of EmuGL and Wayland, the first
  `GameKeyManager` and the joystick, which keep the same kind of state as
  `KeyboardGameKeyManager`.
* *Input and output*: user interface layout, geometry, translation of input
  events, configuration files, graphics calls, codecs, sound capture, the
  stand-alone service programs (settings, location, sensors) and startapp's boot of
  the container: they keep no state over which steps of different actors could
  disagree.
* *Generated and vendored*: the protobuf code, the bundled libraries and data.

`PROJECT.json` gives the reason for each component.
