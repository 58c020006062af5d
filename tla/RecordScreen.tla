---------------------------- MODULE RecordScreen ----------------------------
(* The screen recorder of one window: RecordScreenWidget with the panel that *)
(* floats over the window (RecordingToolPanel).  All of it runs in the GUI   *)
(* thread, but not one handler after the other: a message box or the         *)
(* progress dialog of the saving runs an event loop of its own, so the       *)
(* once-a-second check of the file's size and the queued signal of a changed *)
(* screen come between two steps of the handler that opened it.  boxes is    *)
(* the stack of these loops; only the innermost can return.  The window can  *)
(* be destroyed in any of them (an uninstall, the tray, a crash hint): then  *)
(* only what the destructor does to the files is followed, for a handler     *)
(* that comes back into the deleted widget is undefined behaviour.           *)
(*                                                                           *)
(* The handlers are compositions of the functions they call, each a function *)
(* from the widget's state to the next.  The inputs and the output are seen  *)
(* as present or absent; what they do is in Synchronizer and RecordOutput.   *)
EXTENDS Naturals, Sequences, SequencesExt

CONSTANTS MaxTakes,     \* bound: files begun
          MaxBoxes,     \* bound: nested boxes
          MaxSignals    \* bound: ScreenSizeChanged signals on their way

ASSUME BoundsAssumption == MaxTakes \in Nat /\ MaxBoxes \in Nat /\ MaxSignals \in Nat

VARIABLES panel,      \* RecordingToolPanel: what is shown and can be pressed
          widget,     \* RecordScreenWidget: flags, inputs, output, timer
          files,      \* what became of each file, by the number of the take
          big,        \* the current file is beyond 80% of MAX_VIDEO_FILE_SIZE
          signals,    \* ScreenSizeChanged signals queued for the widget
          audioWanted,\* Preferences::m_recordWithAudio, one for all windows
          boxes,      \* the boxes open, innermost last
          shared,     \* the file last handed to Android, 0 for none
          alive       \* the widget exists

vars == <<panel, widget, files, big, signals, audioWanted, boxes, shared, alive>>

Takes == 1..MaxTakes

\* "other" is any box or menu that has nothing to do with the recorder.
\* "save" is the progress dialog of a stop the user asked for, "saveSize" of
\* one that the size of the file made necessary.
Boxes == {"question", "size", "screen", "save", "saveSize", "other"}

\* "left" is the file of a start that failed after avio_open had made it,
\* "unopened" that of one that failed before.
FileStates == {"absent", "recording", "saved", "removed", "unopened", "left"}

IsBusy == boxes # <<>>

Open(b) == boxes' = Append(boxes, b)

Init ==
  /\ panel = [visible |-> FALSE, started |-> FALSE, stop |-> FALSE, share |-> FALSE]
  /\ widget = [recordStarted |-> FALSE, inputStarted |-> FALSE,
               outputStarted |-> FALSE, waitSaving |-> FALSE, reachedMax |-> FALSE,
               output |-> FALSE, outputAudio |-> FALSE, codecAudio |-> FALSE,
               video |-> FALSE, alsa |-> FALSE,
               videoSink |-> FALSE, audioSink |-> FALSE,
               file |-> 0, timer |-> FALSE, settings |-> TRUE, recordBtn |-> TRUE]
  /\ files = [f \in Takes |-> "absent"]
  /\ big = FALSE
  /\ signals = 0
  /\ audioWanted = FALSE
  /\ boxes = <<>>
  /\ shared = 0
  /\ alive = TRUE
-----------------------------------------------------------------------------
(* The panel.                                                                *)

PanelStart(p) == [p EXCEPT !.started = TRUE, !.stop = TRUE, !.share = FALSE]
PanelPause(p) == [p EXCEPT !.started = FALSE, !.share = FALSE]
PanelStop(p)  == [p EXCEPT !.started = FALSE, !.stop = FALSE, !.share = TRUE]

(* Inputs and output.                                                        *)

\* ok is false when an input throws, and on Wayland, which has none.
StartInput(w, ok) ==
  IF w.inputStarted \/ ~ok THEN w
  ELSE [w EXCEPT !.video = TRUE, !.alsa = audioWanted, !.inputStarted = TRUE]

\* A source that is destroyed disconnects its sinks.
StopInput(w) ==
  IF ~w.inputStarted THEN w
  ELSE [w EXCEPT !.video = FALSE, !.alsa = FALSE, !.inputStarted = FALSE,
                 !.videoSink = FALSE, !.audioSink = FALSE]

ConnectSinks(w) ==
  IF ~w.output THEN w
  ELSE [w EXCEPT !.videoSink = w.outputStarted /\ w.video,
                 !.audioSink = w.outputStarted /\ audioWanted /\ w.alsa]

UpdateInput(w, ok) ==
  ConnectSinks(IF w.outputStarted THEN StartInput(w, ok) ELSE StopInput(w))

StartRecord(w) ==
  IF w.recordStarted THEN w
  ELSE UpdateInput([w EXCEPT !.recordStarted = TRUE, !.waitSaving = FALSE], FALSE)

\* Without an output StartOutput begins a new file.
NewFile == ~widget.output /\ ~widget.outputStarted

\* Mutant: a recording that is resumed takes a new name.
StartOutputRenames(w, outOk, inOk) ==
  CASE w.outputStarted -> w
    [] NewFile /\ ~outOk -> [w EXCEPT !.file = @ + 1]
    [] NewFile /\ outOk ->
         UpdateInput([w EXCEPT !.file = @ + 1, !.output = TRUE,
                               !.outputAudio = w.codecAudio,
                               !.outputStarted = TRUE], inOk)
    [] OTHER -> UpdateInput([w EXCEPT !.file = @ + 1, !.outputStarted = TRUE], inOk)

\* outOk is false when the new output throws: the widget keeps the new name.
StartOutput(w, outOk, inOk) ==
  CASE w.outputStarted -> w
    [] NewFile /\ ~outOk -> [w EXCEPT !.file = @ + 1]
    [] NewFile /\ outOk ->
         UpdateInput([w EXCEPT !.file = @ + 1, !.output = TRUE,
                               !.outputAudio = w.codecAudio,
                               !.outputStarted = TRUE], inOk)
    [] OTHER -> UpdateInput([w EXCEPT !.outputStarted = TRUE], inOk)

\* Mutant: the inputs go on while the recording is paused.
StopOutputOnly(w) ==
  IF w.outputStarted THEN [w EXCEPT !.outputStarted = FALSE] ELSE w

StopOutput(w) ==
  IF w.outputStarted THEN UpdateInput([w EXCEPT !.outputStarted = FALSE], FALSE)
  ELSE w

\* The end of StopRecord, after the output was saved or its file removed.
EndRecord(w) ==
  [w EXCEPT !.output = FALSE, !.videoSink = FALSE, !.audioSink = FALSE,
            !.recordStarted = FALSE, !.reachedMax = FALSE]

\* StopRecord(false).
Discard(w) == IF w.recordStarted THEN EndRecord(StopInput(StopOutput(w))) ELSE w

\* Mutant: the file is taken for the output's whether there is one or not.
FilesDiscardedAnyway ==
  IF widget.file # 0 THEN [files EXCEPT ![widget.file] = "removed"] ELSE files

FilesDiscarded ==
  IF widget.recordStarted /\ widget.output
  THEN [files EXCEPT ![widget.file] = "removed"]
  ELSE files
-----------------------------------------------------------------------------
(* The slots of the widget that the panel's signals are connected to.  They  *)
(* say what becomes of the widget; p is the panel as the caller left it.     *)

\* What avio_open and the rest of the output's making leave of the new file.
Begun(outOk) == IF outOk THEN {"recording"} ELSE {"unopened", "left"}

\* StartRecord and StartOutput, the settings locked and the timer started.
\* w is the widget as the caller left it.
OnRecordStart(w) ==
  IF IsBusy \/ w.waitSaving \/ w.reachedMax
  THEN widget' = w /\ UNCHANGED <<files, big>>
  ELSE \E outOk, inOk \in BOOLEAN :
         /\ NewFile => w.file < MaxTakes
         /\ widget' = [StartOutput(StartRecord(w), outOk, inOk)
                         EXCEPT !.settings = FALSE, !.timer = TRUE]
         /\ IF NewFile
            THEN \E f \in Begun(outOk) :
                    files' = [files EXCEPT ![widget.file + 1] = f]
            ELSE UNCHANGED files
         /\ big' = (big /\ ~NewFile)

OnRecordPause ==
  /\ widget' = IF IsBusy \/ ~widget.recordStarted \/ widget.waitSaving
                  \/ ~widget.outputStarted
               THEN widget
               ELSE [StopOutput(widget) EXCEPT !.settings = FALSE, !.timer = FALSE]
  /\ UNCHANGED <<files, big>>

\* StopRecord(true) up to the dialog in FinishOutput; without an output there
\* is nothing to finish and OnRecordStop runs to its end.
CanStop == ~IsBusy /\ widget.recordStarted /\ ~widget.waitSaving

Stopped ==
  LET w == StopInput(StopOutput(widget))
  IN IF w.output THEN [w EXCEPT !.waitSaving = TRUE]
     ELSE [EndRecord(w) EXCEPT !.timer = FALSE]

\* Mutant: cancelling hides the panel even when it may not stop recording.
OnCancelRecordingHides(p, busy) ==
  /\ panel' = [p EXCEPT !.visible = FALSE]
  /\ IF busy \/ widget.waitSaving
     THEN UNCHANGED <<widget, files>>
     ELSE /\ widget' = [Discard(widget) EXCEPT !.settings = TRUE, !.recordBtn = TRUE]
          /\ files' = FilesDiscarded

\* Mutant: cancelling does not look at what is open.
OnCancelRecordingAnyway(p, busy) ==
  /\ widget' = [Discard(widget) EXCEPT !.settings = TRUE, !.recordBtn = TRUE]
  /\ files' = FilesDiscarded
  /\ panel' = [p EXCEPT !.visible = FALSE]

\* busy is IsBusy at the time of the call.
OnCancelRecording(p, busy) ==
  IF busy \/ widget.waitSaving
  THEN panel' = p /\ UNCHANGED <<widget, files>>
  ELSE /\ widget' = [Discard(widget) EXCEPT !.settings = TRUE, !.recordBtn = TRUE]
       /\ files' = FilesDiscarded
       /\ panel' = [p EXCEPT !.visible = FALSE]
-----------------------------------------------------------------------------
(* What the user does: only when no box keeps the window from it.            *)

ClickRecord ==
  /\ ~IsBusy /\ widget.recordBtn /\ ~widget.recordStarted
  /\ panel' = [PanelStart(panel) EXCEPT !.visible = TRUE]
  /\ OnRecordStart([widget EXCEPT !.recordBtn = FALSE])
  /\ UNCHANGED <<signals, audioWanted, boxes, shared>>

ClickStartPause ==
  /\ ~IsBusy /\ panel.visible
  /\ IF panel.started
     THEN panel' = PanelPause(panel) /\ OnRecordPause
     ELSE panel' = PanelStart(panel) /\ OnRecordStart(widget)
  /\ UNCHANGED <<signals, audioWanted, boxes, shared>>

ClickStop ==
  /\ ~IsBusy /\ panel.visible /\ panel.stop
  /\ panel' = PanelStop(panel)
  /\ IF CanStop
     THEN /\ widget' = Stopped
          /\ IF widget.output THEN Open("save") ELSE UNCHANGED boxes
     ELSE UNCHANGED <<widget, boxes>>
  /\ UNCHANGED <<files, big, signals, audioWanted, shared>>

\* onCloseRecord asks only when the panel is started.
ClickClose ==
  /\ ~IsBusy /\ panel.visible
  /\ IF panel.started
     THEN Open("question") /\ UNCHANGED <<panel, widget, files>>
     ELSE OnCancelRecording(panel, FALSE) /\ UNCHANGED boxes
  /\ UNCHANGED <<big, signals, audioWanted, shared>>

AnswerQuestion ==
  /\ IsBusy /\ Last(boxes) = "question"
  /\ boxes' = Front(boxes)
  /\ \/ OnCancelRecording(PanelStop(panel), Len(boxes) > 1)
     \/ UNCHANGED <<panel, widget, files>>
  /\ UNCHANGED <<big, signals, audioWanted, shared>>

\* Mutant: what is recorded can be shared before it is stopped.
ClickShareRecording ==
  /\ ~IsBusy /\ panel.visible /\ panel.share /\ ~panel.started
  /\ shared' = widget.file
  /\ panel' = [panel EXCEPT !.visible = FALSE]
  /\ widget' = [widget EXCEPT !.settings = TRUE, !.recordBtn = TRUE]
  /\ UNCHANGED <<files, big, signals, audioWanted, boxes>>

ClickShare ==
  /\ ~IsBusy /\ panel.visible /\ panel.share /\ ~panel.started
  /\ ~widget.recordStarted /\ ~widget.waitSaving
  /\ shared' = widget.file
  /\ panel' = [panel EXCEPT !.visible = FALSE]
  /\ widget' = [widget EXCEPT !.settings = TRUE, !.recordBtn = TRUE]
  /\ UNCHANGED <<files, big, signals, audioWanted, boxes>>

ClickAudio ==
  /\ ~IsBusy /\ widget.settings
  /\ \E on \in BOOLEAN : audioWanted' = on /\ widget' = [widget EXCEPT !.codecAudio = on]
  /\ UNCHANGED <<panel, files, big, signals, boxes, shared>>

\* The check box of another window's recorder, or its being made, which
\* sets the preference to false.
OtherWindowAudio ==
  /\ audioWanted' \in BOOLEAN
  /\ UNCHANGED <<panel, widget, files, big, signals, boxes, shared>>

\* A dialog or a menu of the application that is not the recorder's.
OpenOther ==
  /\ ~IsBusy
  /\ Open("other")
  /\ UNCHANGED <<panel, widget, files, big, signals, audioWanted, shared>>

CloseBox ==
  /\ IsBusy /\ Last(boxes) \in {"size", "screen", "other"}
  /\ boxes' = Front(boxes)
  /\ UNCHANGED <<panel, widget, files, big, signals, audioWanted, shared>>
-----------------------------------------------------------------------------
(* What happens by itself.                                                   *)

\* The file grows while something is written to it.
Grow ==
  /\ widget.output
  /\ big' = TRUE
  /\ UNCHANGED <<panel, widget, files, signals, audioWanted, boxes, shared>>

\* FinishOutput's loop sees IsFinished; StopRecord, OnRecordStop and, for
\* "saveSize", OnCheckFileSize go on to their ends.
SaveDone ==
  /\ IsBusy /\ Last(boxes) \in {"save", "saveSize"}
  /\ files' = [files EXCEPT ![widget.file] = "saved"]
  /\ LET bySize == Last(boxes) = "saveSize"
     IN /\ widget' = [EndRecord(widget) EXCEPT !.waitSaving = FALSE, !.timer = FALSE,
                                               !.reachedMax = bySize]
        /\ boxes' = IF bySize THEN Append(Front(boxes), "size") ELSE Front(boxes)
  /\ UNCHANGED <<panel, big, signals, audioWanted, shared>>

\* The input's thread sees another size; it does so again for every frame.
EmitScreenSizeChanged ==
  /\ widget.video /\ widget.videoSink
  /\ signals < MaxSignals
  /\ signals' = signals + 1
  /\ UNCHANGED <<panel, widget, files, big, audioWanted, boxes, shared>>

\* The signal is queued: it may come after its input is gone.
OnScreenSizeChanged ==
  /\ signals > 0 /\ Len(boxes) < MaxBoxes
  /\ signals' = signals - 1
  /\ OnCancelRecording(PanelStop(panel), IsBusy)
  /\ Open("screen")
  /\ UNCHANGED <<big, audioWanted, shared>>

\* A timeout of m_file_watcher_timer with a file beyond the limit.
OnCheckFileSize ==
  /\ widget.timer /\ big /\ Len(boxes) < MaxBoxes
  /\ widget.file # 0 /\ files[widget.file] \in {"recording", "saved", "left"}
  /\ panel' = PanelStop(panel)
  /\ IF CanStop /\ widget.output
     THEN widget' = Stopped /\ Open("saveSize")
     ELSE /\ widget' = [(IF CanStop THEN Stopped ELSE widget) EXCEPT !.reachedMax = TRUE]
          /\ Open("size")
  /\ UNCHANGED <<files, big, signals, audioWanted, shared>>

\* ~RecordScreenWidget, whatever is open: StopRecord(false), and the timer is
\* deleted; the panel goes too and the queued signals find no receiver.
DestroyWindow ==
  /\ alive' = FALSE
  /\ widget' = [Discard(widget) EXCEPT !.timer = FALSE]
  /\ files' = FilesDiscarded
  /\ panel' = [panel EXCEPT !.visible = FALSE]
  /\ boxes' = <<>> /\ signals' = 0
  /\ UNCHANGED <<big, audioWanted, shared>>

WidgetStep ==
  \/ ClickRecord \/ ClickStartPause \/ ClickStop \/ ClickClose \/ AnswerQuestion
  \/ ClickShare \/ ClickAudio \/ OpenOther \/ CloseBox
  \/ Grow \/ SaveDone \/ EmitScreenSizeChanged \/ OnScreenSizeChanged
  \/ OnCheckFileSize

Next ==
  \/ alive /\ WidgetStep /\ UNCHANGED alive
  \/ alive /\ DestroyWindow
  \/ OtherWindowAudio /\ UNCHANGED alive

Spec == Init /\ [][Next]_vars
-----------------------------------------------------------------------------
(* Properties.                                                               *)

\* The state is well typed (recordscreenwidget.h).
TypeOK ==
  /\ panel \in [visible : BOOLEAN, started : BOOLEAN, stop : BOOLEAN, share : BOOLEAN]
  /\ widget \in [recordStarted : BOOLEAN, inputStarted : BOOLEAN,
                 outputStarted : BOOLEAN, waitSaving : BOOLEAN, reachedMax : BOOLEAN,
                 output : BOOLEAN, outputAudio : BOOLEAN, codecAudio : BOOLEAN,
                 video : BOOLEAN, alsa : BOOLEAN,
                 videoSink : BOOLEAN, audioSink : BOOLEAN,
                 file : 0..MaxTakes, timer : BOOLEAN, settings : BOOLEAN,
                 recordBtn : BOOLEAN]
  /\ files \in [Takes -> FileStates]
  /\ big \in BOOLEAN
  /\ signals \in 0..MaxSignals
  /\ audioWanted \in BOOLEAN
  /\ boxes \in Seq(Boxes) /\ Len(boxes) <= MaxBoxes + 1
  /\ shared \in 0..MaxTakes
  /\ alive \in BOOLEAN

\* Nothing is recorded behind the user's back: while a recording is on, or
\* paused, its panel can be seen, and neither the record button nor the
\* settings of the recording can be used (OnRecordStart, OnCancelRecording
\* and OnShareRecordedVideo between the nested boxes).
RecordingInReach ==
  widget.recordStarted => panel.visible /\ ~widget.settings /\ ~widget.recordBtn

\* The sources live only while the output is started, and a sink is connected
\* only to a source that lives: nothing grabs the screen during a pause or a
\* save, and Q_ASSERT(m_input == NULL) in StartInput holds.
InputsFollowOutput ==
  /\ widget.outputStarted => widget.recordStarted /\ widget.output
  /\ widget.inputStarted => widget.outputStarted
  /\ widget.video = widget.inputStarted
  /\ widget.alsa => widget.inputStarted
  /\ widget.videoSink => widget.output /\ widget.video
  /\ widget.audioSink => widget.output /\ widget.alsa

\* FinishOutput polls m_output_manager while its dialog runs events: whatever
\* they do short of destroying the window, the manager is not deleted under
\* it, and one save goes on at a time.  The destruction does delete it
\* (FinishIsAwaited).
OutputOutlivesSaving ==
  LET saves == {i \in DOMAIN boxes : boxes[i] \in {"save", "saveSize"}}
  IN alive =>
       /\ widget.waitSaving <=> saves # {}
       /\ \A i, j \in saves : i = j
       /\ saves # {} => widget.output /\ widget.recordStarted /\ ~widget.outputStarted

\* A file an output was made for is the one the output writes to, until it is
\* saved or removed: no pause, box, cancelled recording or destroyed window
\* leaves one behind, and the name the widget keeps is the name of that file.
\* Nothing is said here of the file of a failed start (UnneededIsDeleted).
OutputHasItsFile ==
  \A f \in Takes : files[f] = "recording" <=> widget.output /\ f = widget.file

\* What is handed to Android is neither still written to nor removed
\* (OnShareRecordedVideo).  It need not be a whole film: it may be the file of
\* a failed start, and a save whose muxer broke ends like any other.
SharedIsSettled ==
  shared # 0 => files[shared] \in {"saved", "unopened", "left"}

\* A file that was saved is never removed or written to again (StopRecord,
\* which removes m_output_settings.file, and StartOutput).
SavedIsKept ==
  [][\A f \in Takes : files[f] = "saved" => files'[f] = "saved"]_vars

(* Properties the code does not have.                                        *)

\* "Recording is going on!" (recordscreenwidget.cpp:175) is asked only when
\* one is.
AsksOnlyWhileRecording ==
  "question" \in Range(boxes) => widget.recordStarted

\* "Screen size changed, so stop and cancel recording!" (line 1122): while
\* the box says so nothing is recorded.
ScreenChangeCancels ==
  "screen" \in Range(boxes) => ~widget.outputStarted

\* "we still have to wait until IsFinished() returns true or else the file will
\* be corrupted" (OutputManager.cpp:86): once Finish was called the output is
\* given up only when its file is saved.
FinishIsAwaited ==
  [][widget.waitSaving /\ ~widget'.output => files'[widget.file] = "saved"]_vars

\* "delete the file if it isn't needed" (recordscreenwidget.cpp:870): when
\* nothing is recorded, no start that failed has left a file on the disk.
UnneededIsDeleted ==
  ~widget.recordStarted => \A f \in Takes : files[f] # "left"

\* assert(m_output_format->m_audio_enabled) (Synchronizer.cpp:383): sound
\* goes only to an output that was made for it.
AudioSinkEnabled ==
  widget.audioSink => widget.outputAudio
=============================================================================
