------------------------- MODULE RecordScreen_proofs -------------------------
(* The recorder of a window: its state is well typed, what is recorded can   *)
(* be reached, sources, output and files follow one another, and no file of  *)
(* an output is left behind, shared too early or lost, whatever boxes,       *)
(* signals and timers come between the steps of a handler and whenever the   *)
(* window is destroyed, for any number of files, boxes and signals.          *)
EXTENDS RecordScreen, SequenceTheorems, TLAPS

USE BoundsAssumption

-----------------------------------------------------------------------------
(* The inductive invariant.                                                  *)

PanelType == [visible : BOOLEAN, started : BOOLEAN, stop : BOOLEAN,
              share : BOOLEAN]

WidgetType == [recordStarted : BOOLEAN, inputStarted : BOOLEAN,
               outputStarted : BOOLEAN, waitSaving : BOOLEAN,
               reachedMax : BOOLEAN, output : BOOLEAN, outputAudio : BOOLEAN,
               codecAudio : BOOLEAN, video : BOOLEAN, alsa : BOOLEAN,
               videoSink : BOOLEAN, audioSink : BOOLEAN,
               file : 0..MaxTakes, timer : BOOLEAN, settings : BOOLEAN,
               recordBtn : BOOLEAN]

Saves == {"save", "saveSize"}

\* The inputs are there together, and a sink needs both its ends.
Wired(w) ==
  /\ (w.video <=> w.inputStarted)
  /\ w.alsa => w.inputStarted
  /\ w.videoSink => w.output /\ w.video
  /\ w.audioSink => w.output /\ w.alsa

\* The input is there for the output, the output for the recording.
Nested(w) ==
  /\ Wired(w)
  /\ w.inputStarted => w.outputStarted
  /\ w.outputStarted => w.output
  /\ w.output => w.recordStarted /\ w.file # 0

\* Only the outermost box can be the dialog of a save, and it is there while
\* the widget waits for it.
BoxInv ==
  /\ \A i \in 2..Len(boxes) : boxes[i] \notin Saves
  /\ widget.waitSaving <=> boxes # <<>> /\ boxes[1] \in Saves
  /\ widget.waitSaving => widget.output /\ ~widget.outputStarted

\* The panel and the record button are never there at the same time.
PanelInv ==
  /\ widget.recordStarted => panel.visible /\ ~widget.settings
  /\ panel.visible => ~widget.recordBtn

\* The files begun are those up to the widget's; the last one is removed only
\* when the panel goes and the recording ends.
FileInv ==
  /\ OutputHasItsFile
  /\ \A f \in Takes : files[f] = "absent" <=> f > widget.file
  /\ panel.visible \/ widget.reachedMax =>
       widget.file = 0 \/ files[widget.file] # "removed"
  /\ SharedIsSettled

\* The panel, the widget and the files agree.
RecordInv ==
  /\ panel \in PanelType /\ widget \in WidgetType
  /\ files \in [Takes -> FileStates] /\ shared \in 0..MaxTakes
  /\ Nested(widget) /\ PanelInv /\ FileInv

BoxType == boxes \in Seq(Boxes) /\ Len(boxes) <= MaxBoxes + 1

RestType == big \in BOOLEAN /\ signals \in 0..MaxSignals /\ audioWanted \in BOOLEAN

\* While the window exists ...
LiveInv == RecordInv /\ BoxType /\ RestType /\ BoxInv

\* ... and afterwards: the boxes are gone, whatever the widget waited for.
IInv == /\ alive \in BOOLEAN
        /\ RecordInv /\ BoxType /\ RestType
        /\ alive => BoxInv

-----------------------------------------------------------------------------
(* What the functions on the widget do.                                      *)

\* r differs from w in the inputs alone, ...
SameBut(r, w) ==
  /\ (r.recordStarted <=> w.recordStarted) /\ (r.outputStarted <=> w.outputStarted)
  /\ (r.waitSaving <=> w.waitSaving) /\ (r.reachedMax <=> w.reachedMax)
  /\ (r.output <=> w.output) /\ r.file = w.file
  /\ (r.settings <=> w.settings) /\ (r.recordBtn <=> w.recordBtn)

\* ... or in whether they and the output are started.
Kept(r, w) ==
  /\ (r.recordStarted <=> w.recordStarted)
  /\ (r.waitSaving <=> w.waitSaving) /\ (r.reachedMax <=> w.reachedMax)
  /\ (r.output <=> w.output) /\ r.file = w.file
  /\ (r.settings <=> w.settings) /\ (r.recordBtn <=> w.recordBtn)

LEMMA StartInputWires ==
  ASSUME NEW w \in WidgetType, NEW ok \in BOOLEAN, audioWanted \in BOOLEAN,
         Wired(w)
  PROVE  /\ StartInput(w, ok) \in WidgetType
         /\ Wired(StartInput(w, ok)) /\ SameBut(StartInput(w, ok), w)
<1>1. CASE w.inputStarted \/ ~ok
  BY <1>1 DEF StartInput, SameBut
<1>2. CASE ~(w.inputStarted \/ ~ok)
  BY <1>2 DEF StartInput, SameBut, WidgetType, Wired
<1> QED BY <1>1, <1>2

LEMMA StopInputWires ==
  ASSUME NEW w \in WidgetType, Wired(w)
  PROVE  /\ StopInput(w) \in WidgetType
         /\ Wired(StopInput(w)) /\ SameBut(StopInput(w), w)
         /\ ~StopInput(w).inputStarted
<1>1. CASE w.inputStarted
  BY <1>1 DEF StopInput, SameBut, WidgetType, Wired
<1>2. CASE ~w.inputStarted
  BY <1>2 DEF StopInput, SameBut
<1> QED BY <1>1, <1>2 DEF WidgetType

LEMMA ConnectSinksWires ==
  ASSUME NEW w \in WidgetType, audioWanted \in BOOLEAN, Wired(w)
  PROVE  /\ ConnectSinks(w) \in WidgetType
         /\ Wired(ConnectSinks(w)) /\ SameBut(ConnectSinks(w), w)
         /\ (ConnectSinks(w).inputStarted <=> w.inputStarted)
<1>1. CASE w.output
  BY <1>1 DEF ConnectSinks, SameBut, WidgetType, Wired
<1>2. CASE ~w.output
  BY <1>2 DEF ConnectSinks, SameBut
<1> QED BY <1>1, <1>2 DEF WidgetType

\* The input is there for the output, whatever was before.
LEMMA UpdateInputWires ==
  ASSUME NEW w \in WidgetType, NEW ok \in BOOLEAN, audioWanted \in BOOLEAN,
         Wired(w)
  PROVE  /\ UpdateInput(w, ok) \in WidgetType
         /\ Wired(UpdateInput(w, ok)) /\ SameBut(UpdateInput(w, ok), w)
         /\ UpdateInput(w, ok).inputStarted => w.outputStarted
<1> DEFINE v == IF w.outputStarted THEN StartInput(w, ok) ELSE StopInput(w)
<1>1. /\ v \in WidgetType /\ Wired(v) /\ SameBut(v, w)
      /\ ~w.outputStarted => ~v.inputStarted
  <2>1. CASE w.outputStarted
    BY <2>1, StartInputWires
  <2>2. CASE ~w.outputStarted
    BY <2>2, StopInputWires
  <2> QED BY <2>1, <2>2 DEF WidgetType
<1>2. UpdateInput(w, ok) = ConnectSinks(v)
  BY DEF UpdateInput
<1> HIDE DEF v
<1> QED BY <1>1, <1>2, ConnectSinksWires DEF SameBut

LEMMA StopOutputNests ==
  ASSUME NEW w \in WidgetType, audioWanted \in BOOLEAN, Nested(w)
  PROVE  LET r == StopOutput(w)
         IN  /\ r \in WidgetType /\ Nested(r) /\ ~r.outputStarted
             /\ Kept(r, w)
<1>1. CASE w.outputStarted
  <2> DEFINE v == [w EXCEPT !.outputStarted = FALSE]
  <2>1. /\ v \in WidgetType /\ Wired(v) /\ ~v.outputStarted
        /\ Kept(v, w)
    BY DEF WidgetType, Nested, Wired, Kept
  <2>2. StopOutput(w) = UpdateInput(v, FALSE)
    BY <1>1 DEF StopOutput
  <2> HIDE DEF v
  <2> DEFINE r == UpdateInput(v, FALSE)
  <2>3. /\ r \in WidgetType /\ Wired(r) /\ SameBut(r, v)
        /\ r.inputStarted => v.outputStarted
    BY <2>1, UpdateInputWires
  <2> HIDE DEF r
  <2>4. Nested(r)
    BY <2>1, <2>3 DEF SameBut, Kept, Nested
  <2> QED BY <2>1, <2>2, <2>3, <2>4 DEF SameBut, Kept, r
<1>2. CASE ~w.outputStarted
  BY <1>2 DEF StopOutput, Kept
<1> QED BY <1>1, <1>2

\* Output and inputs are stopped.
Halted(w) == StopInput(StopOutput(w))

LEMMA HaltedNests ==
  ASSUME NEW w \in WidgetType, audioWanted \in BOOLEAN, Nested(w)
  PROVE  LET r == Halted(w)
         IN  /\ r \in WidgetType /\ Nested(r)
             /\ ~r.outputStarted /\ ~r.inputStarted
             /\ Kept(r, w)
<1> DEFINE v == StopOutput(w)
<1>1. v \in WidgetType /\ Nested(v)
  BY StopOutputNests
<1>2. Halted(w) = StopInput(v)
  BY DEF Halted
<1>3. ~v.outputStarted /\ Kept(v, w)
  BY StopOutputNests
<1> HIDE DEF v
<1> QED BY <1>1, <1>2, <1>3, StopInputWires DEF SameBut, Kept, Nested

LEMMA EndRecordNests ==
  ASSUME NEW w \in WidgetType, Wired(w), ~w.outputStarted, ~w.inputStarted
  PROVE  LET r == EndRecord(w)
         IN  /\ r \in WidgetType /\ Nested(r) /\ ~r.outputStarted
             /\ ~r.recordStarted /\ ~r.output /\ ~r.reachedMax
             /\ (r.waitSaving <=> w.waitSaving) /\ r.file = w.file
             /\ (r.settings <=> w.settings) /\ (r.recordBtn <=> w.recordBtn)
BY DEF EndRecord, WidgetType, Wired, Nested

LEMMA DiscardNests ==
  ASSUME NEW w \in WidgetType, audioWanted \in BOOLEAN, Nested(w)
  PROVE  LET r == Discard(w)
         IN  /\ r \in WidgetType /\ Nested(r)
             /\ ~r.recordStarted /\ ~r.output
             /\ w.recordStarted => ~r.reachedMax
             /\ r.reachedMax => w.reachedMax
             /\ (r.waitSaving <=> w.waitSaving) /\ r.file = w.file
<1>1. CASE w.recordStarted
  <2>1. Discard(w) = EndRecord(Halted(w))
    BY <1>1 DEF Discard, Halted
  <2>2. /\ Halted(w) \in WidgetType /\ Nested(Halted(w))
        /\ ~Halted(w).outputStarted /\ ~Halted(w).inputStarted
        /\ (Halted(w).waitSaving <=> w.waitSaving) /\ Halted(w).file = w.file
    BY HaltedNests DEF Kept
  <2> QED BY <1>1, <2>1, <2>2, EndRecordNests DEF Nested
<1>2. CASE ~w.recordStarted
  BY <1>2 DEF Discard, Nested, WidgetType
<1> QED BY <1>1, <1>2 DEF WidgetType

LEMMA StartRecordNests ==
  ASSUME NEW w \in WidgetType, audioWanted \in BOOLEAN, Nested(w), ~w.waitSaving
  PROVE  LET r == StartRecord(w)
         IN  /\ r \in WidgetType /\ Nested(r) /\ r.recordStarted
             /\ ~r.waitSaving /\ (r.outputStarted <=> w.outputStarted)
             /\ (r.reachedMax <=> w.reachedMax) /\ (r.output <=> w.output)
             /\ r.file = w.file /\ (r.recordBtn <=> w.recordBtn)
<1>1. CASE w.recordStarted
  BY <1>1 DEF StartRecord
<1>2. CASE ~w.recordStarted
  <2> DEFINE v == [w EXCEPT !.recordStarted = TRUE, !.waitSaving = FALSE]
  <2>1. /\ v \in WidgetType /\ Wired(v) /\ v.recordStarted /\ ~v.waitSaving
        /\ (v.outputStarted <=> w.outputStarted)
        /\ (v.reachedMax <=> w.reachedMax) /\ (v.output <=> w.output)
        /\ v.file = w.file /\ (v.recordBtn <=> w.recordBtn)
    BY DEF WidgetType, Nested, Wired
  <2>2. StartRecord(w) = UpdateInput(v, FALSE)
    BY <1>2 DEF StartRecord
  <2> HIDE DEF v
  <2> DEFINE r == UpdateInput(v, FALSE)
  <2>3. /\ r \in WidgetType /\ Wired(r) /\ SameBut(r, v)
        /\ r.inputStarted => v.outputStarted
    BY <2>1, UpdateInputWires
  <2> HIDE DEF r
  <2>4. Nested(r)
    BY <1>2, <2>1, <2>3 DEF SameBut, Nested
  <2> QED BY <2>1, <2>2, <2>3, <2>4 DEF SameBut, r
<1> QED BY <1>1, <1>2 DEF WidgetType

LEMMA StartOutputNests ==
  ASSUME NEW w \in WidgetType, audioWanted \in BOOLEAN, Nested(w),
         w.recordStarted, NEW outOk \in BOOLEAN, NEW inOk \in BOOLEAN,
         (w.output <=> widget.output), (w.outputStarted <=> widget.outputStarted),
         NewFile => w.file < MaxTakes
  PROVE  LET r == StartOutput(w, outOk, inOk)
         IN  /\ r \in WidgetType /\ Nested(r) /\ r.recordStarted
             /\ (r.waitSaving <=> w.waitSaving) /\ (r.reachedMax <=> w.reachedMax)
             /\ (r.recordBtn <=> w.recordBtn)
             /\ r.file = IF NewFile THEN w.file + 1 ELSE w.file
             /\ r.output <=> IF NewFile THEN outOk ELSE w.output
<1>1. CASE w.outputStarted
  BY <1>1 DEF StartOutput, NewFile
<1>2. CASE NewFile /\ ~outOk
  <2> DEFINE v == [w EXCEPT !.file = @ + 1]
  <2>1. /\ v \in WidgetType /\ Nested(v) /\ v.recordStarted
        /\ (v.waitSaving <=> w.waitSaving) /\ (v.reachedMax <=> w.reachedMax)
        /\ (v.recordBtn <=> w.recordBtn) /\ v.file = w.file + 1
        /\ (v.output <=> w.output)
    BY <1>2 DEF WidgetType, Nested, Wired, NewFile
  <2>2. StartOutput(w, outOk, inOk) = v
    BY <1>2 DEF StartOutput, NewFile
  <2> HIDE DEF v
  <2> QED BY <1>2, <2>1, <2>2 DEF NewFile
<1>3. CASE NewFile /\ outOk
  <2> DEFINE v == [w EXCEPT !.file = @ + 1, !.output = TRUE,
                            !.outputAudio = w.codecAudio,
                            !.outputStarted = TRUE]
  <2>1. /\ v \in WidgetType /\ Wired(v) /\ v.recordStarted
        /\ (v.waitSaving <=> w.waitSaving) /\ (v.reachedMax <=> w.reachedMax)
        /\ (v.recordBtn <=> w.recordBtn) /\ v.file = w.file + 1
        /\ v.file # 0 /\ v.output /\ v.outputStarted
    <3>1. w.file + 1 \in 0..MaxTakes /\ w.file + 1 # 0
      BY <1>3 DEF WidgetType
    <3>2. v \in WidgetType /\ v.file = w.file + 1
      BY <3>1 DEF WidgetType
    <3> QED BY <1>3, <3>1, <3>2 DEF WidgetType, Nested, Wired, NewFile
  <2>2. StartOutput(w, outOk, inOk) = UpdateInput(v, inOk)
    BY <1>3 DEF StartOutput, NewFile
  <2> HIDE DEF v
  <2> DEFINE r == UpdateInput(v, inOk)
  <2>3. /\ r \in WidgetType /\ Wired(r) /\ SameBut(r, v)
        /\ r.inputStarted => v.outputStarted
    BY <2>1, UpdateInputWires
  <2> HIDE DEF r
  <2>4. Nested(r)
    BY <2>1, <2>3 DEF SameBut, Nested
  <2> QED BY <1>3, <2>1, <2>2, <2>3, <2>4 DEF SameBut, NewFile, r
<1>4. CASE ~NewFile /\ ~w.outputStarted
  <2> DEFINE v == [w EXCEPT !.outputStarted = TRUE]
  <2>1. /\ v \in WidgetType /\ Wired(v) /\ v.recordStarted
        /\ (v.waitSaving <=> w.waitSaving) /\ (v.reachedMax <=> w.reachedMax)
        /\ (v.recordBtn <=> w.recordBtn) /\ v.file = w.file
        /\ v.file # 0 /\ (v.output <=> w.output) /\ v.output /\ v.outputStarted
    BY <1>4 DEF WidgetType, Nested, Wired, NewFile
  <2>2. StartOutput(w, outOk, inOk) = UpdateInput(v, inOk)
    BY <1>4 DEF StartOutput, NewFile
  <2> HIDE DEF v
  <2> DEFINE r == UpdateInput(v, inOk)
  <2>3. /\ r \in WidgetType /\ Wired(r) /\ SameBut(r, v)
        /\ r.inputStarted => v.outputStarted
    BY <2>1, UpdateInputWires
  <2> HIDE DEF r
  <2>4. Nested(r)
    BY <2>1, <2>3 DEF SameBut, Nested
  <2> QED BY <1>4, <2>1, <2>2, <2>3, <2>4 DEF SameBut, NewFile, r
<1> QED BY <1>1, <1>2, <1>3, <1>4

-----------------------------------------------------------------------------
(* What the handlers do to files, panel and widget.                          *)

\* A file that was saved stays so.
SavesKept == \A f \in Takes : files[f] = "saved" => files'[f] = "saved"

\* A handler that touches no file.
LEMMA NoFileTouched ==
  ASSUME RecordInv, panel' \in PanelType, widget' \in WidgetType,
         Nested(widget'), PanelInv', files' = files, shared' = shared,
         widget'.file = widget.file, widget'.output <=> widget.output,
         panel'.visible \/ widget'.reachedMax =>
           \/ panel.visible \/ widget.reachedMax \/ widget.file = 0
           \/ files[widget.file] # "removed"
  PROVE  RecordInv' /\ SavesKept
<1>1. FileInv'
  BY DEF RecordInv, FileInv, OutputHasItsFile, SharedIsSettled
<1> QED BY <1>1 DEF RecordInv, SavesKept

\* w is the widget but for its record button.
LEMMA OnRecordStartKeeps ==
  ASSUME LiveInv, ~IsBusy, NEW w \in WidgetType, Nested(w), ~w.recordBtn,
         w.recordStarted <=> widget.recordStarted,
         w.outputStarted <=> widget.outputStarted,
         w.waitSaving <=> widget.waitSaving, w.reachedMax <=> widget.reachedMax,
         w.output <=> widget.output, w.settings <=> widget.settings,
         w.file = widget.file,
         OnRecordStart(w), panel' \in PanelType, panel'.visible,
         shared' = shared
  PROVE  RecordInv' /\ SavesKept /\ ~widget'.waitSaving
<1>1. RecordInv /\ audioWanted \in BOOLEAN /\ ~widget.waitSaving
  BY DEF LiveInv, RestType, BoxInv, IsBusy
<1>2. CASE w.reachedMax
  <2>1. widget' = w /\ files' = files
    BY <1>2 DEF OnRecordStart
  <2>2. PanelInv'
    BY <1>1, <2>1 DEF RecordInv, PanelInv
  <2> QED BY <1>1, <1>2, <2>1, <2>2, NoFileTouched
<1>3. CASE ~w.reachedMax
  <2>1. PICK outOk \in BOOLEAN, inOk \in BOOLEAN :
          /\ NewFile => w.file < MaxTakes
          /\ widget' = [StartOutput(StartRecord(w), outOk, inOk)
                         EXCEPT !.settings = FALSE, !.timer = TRUE]
          /\ IF NewFile
             THEN \E f \in Begun(outOk) :
                     files' = [files EXCEPT ![widget.file + 1] = f]
             ELSE UNCHANGED files
    BY <1>1, <1>3 DEF OnRecordStart
  <2> DEFINE v == StartRecord(w)
             r == StartOutput(v, outOk, inOk)
  <2>2. /\ v \in WidgetType /\ Nested(v) /\ v.recordStarted /\ ~v.waitSaving
        /\ v.outputStarted <=> w.outputStarted
        /\ v.reachedMax <=> w.reachedMax
        /\ v.output <=> w.output
        /\ v.file = w.file /\ (v.recordBtn <=> w.recordBtn)
    BY <1>1, StartRecordNests
  <2> HIDE DEF v
  <2>3. /\ r \in WidgetType /\ Nested(r) /\ r.recordStarted /\ ~r.waitSaving
        /\ ~r.reachedMax /\ ~r.recordBtn
        /\ r.file = IF NewFile THEN w.file + 1 ELSE w.file
        /\ r.output <=> IF NewFile THEN outOk ELSE w.output
    BY <1>1, <1>3, <2>1, <2>2, StartOutputNests
  <2>4. widget' = [r EXCEPT !.settings = FALSE, !.timer = TRUE]
    BY <2>1 DEF v
  <2> HIDE DEF r
  <2>5. /\ widget' \in WidgetType /\ Nested(widget')
        /\ widget'.recordStarted /\ ~widget'.waitSaving
        /\ ~widget'.reachedMax /\ ~widget'.recordBtn /\ ~widget'.settings
        /\ widget'.file = r.file /\ (widget'.output <=> r.output)
    BY <2>3, <2>4 DEF WidgetType, Nested, Wired
  <2>6. PanelInv'
    BY <2>5 DEF PanelInv
  <2>7. CASE ~NewFile
    <3>1. widget.output /\ files' = files
      BY <1>1, <2>1, <2>7 DEF NewFile, RecordInv, Nested
    <3>2. widget.file # 0 /\ widget.file \in 0..MaxTakes
      BY <1>1, <3>1 DEF RecordInv, Nested, WidgetType
    <3>3. files[widget.file] = "recording"
      BY <1>1, <3>1, <3>2 DEF RecordInv, FileInv, OutputHasItsFile, Takes
    <3> QED BY <1>1, <2>3, <2>5, <2>6, <2>7, <3>1, <3>3, NoFileTouched
  <2>8. CASE NewFile
    <3>1. /\ widget.file \in 0..MaxTakes /\ widget.file + 1 \in Takes
          /\ widget'.file = widget.file + 1
      BY <1>1, <2>1, <2>3, <2>5, <2>8 DEF RecordInv, WidgetType, Takes
    <3>2. /\ files' \in [Takes -> FileStates]
          /\ \A f \in Takes : f # widget.file + 1 => files'[f] = files[f]
          /\ files'[widget.file + 1] \in Begun(outOk)
          /\ files[widget.file + 1] = "absent"
      <4>1. PICK f \in Begun(outOk) : files' = [files EXCEPT ![widget.file + 1] = f]
        BY <2>1, <2>8
      <4>2. f \in FileStates
        BY DEF Begun, FileStates
      <4> QED BY <1>1, <3>1, <4>1, <4>2 DEF RecordInv, FileInv
    <3>3. OutputHasItsFile'
      <4>1. \A f \in Takes : files[f] # "recording"
        BY <1>1, <2>8 DEF NewFile, RecordInv, FileInv, OutputHasItsFile
      <4>2. widget'.output <=> outOk
        BY <2>3, <2>5, <2>8
      <4>3. files'[widget.file + 1] = "recording" <=> outOk
        BY <3>2 DEF Begun
      <4> QED BY <3>1, <3>2, <4>1, <4>2, <4>3 DEF OutputHasItsFile
    <3>4. \A f \in Takes : files'[f] = "absent" <=> f > widget'.file
      <4>1. \A f \in Takes : /\ files[f] = "absent" <=> f > widget.file
                             /\ f \in Nat
        BY <1>1 DEF RecordInv, FileInv, Takes
      <4>2. files'[widget.file + 1] # "absent"
        BY <3>2 DEF Begun
      <4> QED BY <3>1, <3>2, <4>1, <4>2
    <3>5. files'[widget'.file] # "removed"
      BY <3>1, <3>2 DEF Begun
    <3>6. SharedIsSettled'
      <4>1. shared # 0 => shared # widget.file + 1 /\ shared \in Takes
        BY <1>1, <3>2 DEF RecordInv, FileInv, SharedIsSettled, Takes
      <4> QED BY <1>1, <3>2, <4>1 DEF RecordInv, FileInv, SharedIsSettled
    <3>7. SavesKept
      BY <3>2 DEF SavesKept
    <3> QED
      BY <1>1, <2>5, <2>6, <3>2, <3>3, <3>4, <3>5, <3>6, <3>7
      DEF RecordInv, FileInv
  <2> QED BY <2>5, <2>7, <2>8
<1> QED BY <1>2, <1>3

\* The recording is given up, and its panel goes.
LEMMA DiscardKeeps ==
  ASSUME RecordInv, widget' \in WidgetType, Nested(widget'),
         ~widget'.recordStarted, ~widget'.output,
         widget.recordStarted => ~widget'.reachedMax,
         widget'.reachedMax => widget.reachedMax, widget'.file = widget.file,
         panel' \in PanelType, ~panel'.visible,
         files' = FilesDiscarded, shared' = shared
  PROVE  RecordInv' /\ SavesKept
<1>1. PanelInv'
  BY DEF PanelInv
<1>2. CASE ~widget.output
  <2>1. files' = files
    BY <1>2 DEF FilesDiscarded
  <2> QED BY <1>1, <1>2, <2>1, NoFileTouched
<1>3. CASE widget.output
  <2>1. /\ widget.recordStarted /\ widget.file \in Takes
        /\ files[widget.file] = "recording"
    <3>1. widget.recordStarted /\ widget.file # 0 /\ widget.file \in 0..MaxTakes
      BY <1>3 DEF RecordInv, Nested, WidgetType
    <3>2. widget.file \in Takes
      BY <3>1 DEF Takes
    <3> QED BY <1>3, <3>1, <3>2 DEF RecordInv, FileInv, OutputHasItsFile
  <2>2. /\ files' \in [Takes -> FileStates]
        /\ \A f \in Takes : f # widget.file => files'[f] = files[f]
        /\ files'[widget.file] = "removed"
    BY <1>3, <2>1 DEF FilesDiscarded, RecordInv, FileStates
  <2>3. OutputHasItsFile'
    BY <2>1, <2>2 DEF RecordInv, FileInv, OutputHasItsFile
  <2>4. \A f \in Takes : files'[f] = "absent" <=> f > widget'.file
    <3>1. ~(widget.file > widget.file)
      BY DEF RecordInv, WidgetType
    <3> QED BY <2>1, <2>2, <3>1 DEF RecordInv, FileInv
  <2>5. SharedIsSettled'
    <3>1. shared # 0 => shared # widget.file /\ shared \in Takes
      BY <2>1 DEF RecordInv, FileInv, SharedIsSettled, Takes
    <3> QED BY <2>2, <3>1 DEF RecordInv, FileInv, SharedIsSettled
  <2>6. SavesKept
    BY <2>1, <2>2 DEF SavesKept
  <2> QED BY <1>1, <2>1, <2>2, <2>3, <2>4, <2>5, <2>6 DEF RecordInv, FileInv
<1> QED BY <1>2, <1>3

\* Whoever cancels: while a save goes on nothing happens but to the panel.
LEMMA OnCancelRecordingKeeps ==
  ASSUME LiveInv, NEW p \in PanelType, p.visible <=> panel.visible,
         NEW busy \in BOOLEAN, OnCancelRecording(p, busy), shared' = shared
  PROVE  /\ RecordInv' /\ SavesKept
         /\ widget'.waitSaving <=> widget.waitSaving
         /\ widget.waitSaving => widget' = widget
<1>1. RecordInv /\ audioWanted \in BOOLEAN
  BY DEF LiveInv, RestType
<1>2. CASE busy \/ widget.waitSaving
  <2>1. panel' = p /\ widget' = widget /\ files' = files
    BY <1>2 DEF OnCancelRecording
  <2>2. PanelInv'
    BY <1>1, <2>1 DEF RecordInv, PanelInv
  <2>3. RecordInv' /\ SavesKept
    BY <1>1, <2>1, <2>2, NoFileTouched DEF RecordInv
  <2> QED BY <2>1, <2>3
<1>3. CASE ~(busy \/ widget.waitSaving)
  <2> DEFINE r == Discard(widget)
  <2>1. /\ r \in WidgetType /\ Nested(r) /\ ~r.recordStarted /\ ~r.output
        /\ widget.recordStarted => ~r.reachedMax
        /\ r.reachedMax => widget.reachedMax
        /\ r.waitSaving <=> widget.waitSaving
        /\ r.file = widget.file
    BY <1>1, DiscardNests DEF RecordInv
  <2>2. /\ widget' = [r EXCEPT !.settings = TRUE, !.recordBtn = TRUE]
        /\ panel' = [p EXCEPT !.visible = FALSE]
        /\ files' = FilesDiscarded
    BY <1>3 DEF OnCancelRecording
  <2> HIDE DEF r
  <2>3. /\ widget' \in WidgetType /\ Nested(widget')
        /\ ~widget'.recordStarted /\ ~widget'.output
        /\ widget.recordStarted => ~widget'.reachedMax
        /\ widget'.reachedMax => widget.reachedMax
        /\ widget'.waitSaving <=> widget.waitSaving
        /\ widget'.file = widget.file
    BY <2>1, <2>2 DEF WidgetType, Nested, Wired
  <2>4. panel' \in PanelType /\ ~panel'.visible
    BY <2>2 DEF PanelType
  <2> QED BY <1>1, <1>3, <2>2, <2>3, <2>4, DiscardKeeps
<1> QED BY <1>2, <1>3

\* Stopping halts the output; without one it ends the recording.
LEMMA StoppedNests ==
  ASSUME LiveInv, widget.recordStarted
  PROVE  LET r == Stopped
         IN  /\ r \in WidgetType /\ Nested(r) /\ ~r.outputStarted
             /\ r.file = widget.file /\ (r.output <=> widget.output)
             /\ r.waitSaving <=> (widget.output \/ widget.waitSaving)
             /\ r.recordStarted => widget.recordStarted
             /\ r.recordBtn <=> widget.recordBtn
             /\ r.settings <=> widget.settings
             /\ r.reachedMax => widget.reachedMax
<1> DEFINE w == Halted(widget)
<1>1. /\ w \in WidgetType /\ Nested(w) /\ ~w.outputStarted /\ ~w.inputStarted
      /\ Kept(w, widget)
  BY HaltedNests DEF LiveInv, RecordInv, RestType
<1>2. Stopped = IF w.output THEN [w EXCEPT !.waitSaving = TRUE]
                ELSE [EndRecord(w) EXCEPT !.timer = FALSE]
  BY DEF Stopped, Halted
<1> HIDE DEF w
<1>3. CASE w.output
  BY <1>1, <1>2, <1>3 DEF WidgetType, Nested, Wired, Kept
<1>4. CASE ~w.output
  <2> DEFINE v == EndRecord(w)
  <2>1. /\ v \in WidgetType /\ Nested(v) /\ ~v.outputStarted
        /\ ~v.recordStarted /\ ~v.output /\ ~v.reachedMax
        /\ v.waitSaving <=> w.waitSaving
        /\ v.settings <=> w.settings
        /\ v.recordBtn <=> w.recordBtn
        /\ v.file = w.file
    BY <1>1, EndRecordNests DEF Nested
  <2>2. Stopped = [v EXCEPT !.timer = FALSE]
    BY <1>2, <1>4
  <2> HIDE DEF v
  <2> QED BY <1>1, <1>4, <2>1, <2>2 DEF WidgetType, Nested, Wired, Kept
<1> QED BY <1>3, <1>4

-----------------------------------------------------------------------------
(* Boxes that open and close.                                                *)

LEMMA EmptyBoxes ==
  ASSUME BoxType
  PROVE  /\ Len(boxes) \in Nat
         /\ boxes # <<>> <=> Len(boxes) > 0
         /\ \A i \in 1..Len(boxes) : boxes[i] \in Boxes
BY EmptySeq DEF BoxType

LEMMA OpenKeeps ==
  ASSUME BoxType, BoxInv, NEW b \in Boxes, b \notin Saves, Open(b),
         Len(boxes) < MaxBoxes \/ ~IsBusy,
         widget'.waitSaving <=> widget.waitSaving,
         widget.waitSaving => widget'.output /\ ~widget'.outputStarted
  PROVE  BoxType' /\ BoxInv'
<1>1. /\ boxes' \in Seq(Boxes) /\ Len(boxes') = Len(boxes) + 1
      /\ boxes'[Len(boxes) + 1] = b
      /\ \A i \in 1..Len(boxes) : boxes'[i] = boxes[i]
  BY DEF Open, BoxType
<1>2. Len(boxes) \in Nat /\ (boxes # <<>> <=> Len(boxes) > 0)
  BY EmptyBoxes
<1>3. BoxType'
  BY <1>1, <1>2 DEF BoxType, IsBusy
<1>4. \A i \in 2..Len(boxes') : boxes'[i] \notin Saves
  BY <1>1, <1>2 DEF BoxInv
<1>5. boxes' # <<>>
  BY <1>1, <1>2, EmptySeq
<1>6. widget.waitSaving <=> boxes'[1] \in Saves
  <2>1. CASE Len(boxes) = 0
    BY <1>1, <1>2, <2>1 DEF BoxInv
  <2>2. CASE Len(boxes) > 0
    BY <1>1, <1>2, <2>2 DEF BoxInv
  <2> QED BY <1>2, <2>1, <2>2
<1> QED BY <1>3, <1>4, <1>5, <1>6 DEF BoxInv

LEMMA SaveOpens ==
  ASSUME ~IsBusy, NEW b \in Saves, Open(b),
         widget'.waitSaving, widget'.output, ~widget'.outputStarted
  PROVE  BoxType' /\ BoxInv'
<1>1. boxes' = <<b>>
  BY DEF Open, IsBusy
<1>2. boxes' \in Seq(Boxes) /\ Len(boxes') = 1 /\ boxes'[1] = b /\ boxes' # <<>>
  BY <1>1 DEF Saves, Boxes
<1> QED BY <1>2 DEF BoxType, BoxInv

LEMMA CloseKeeps ==
  ASSUME BoxType, BoxInv, IsBusy, Last(boxes) \notin Saves,
         boxes' = Front(boxes),
         widget'.waitSaving <=> widget.waitSaving,
         widget.waitSaving => widget'.output /\ ~widget'.outputStarted
  PROVE  BoxType' /\ BoxInv'
<1>1. Len(boxes) \in Nat /\ Len(boxes) > 0
  BY EmptyBoxes DEF IsBusy
<1>2. /\ boxes' \in Seq(Boxes) /\ Len(boxes') = Len(boxes) - 1
      /\ \A i \in 1..(Len(boxes) - 1) : boxes'[i] = boxes[i]
  <2> DEFINE n == Len(boxes) - 1
  <2>1. n \in Nat /\ 1..n \subseteq 1..Len(boxes)
    BY <1>1
  <2>2. boxes' = SubSeq(boxes, 1, n)
    BY DEF Front
  <2>3. \A i \in 1..n : boxes[i] \in Boxes
    BY <2>1, EmptyBoxes
  <2> HIDE DEF n
  <2>4. /\ boxes' \in Seq(Boxes)
        /\ Len(boxes') = IF 1 <= n THEN n - 1 + 1 ELSE 0
        /\ \A i \in 1..(n - 1 + 1) : boxes'[i] = boxes[1 + i - 1]
    BY <2>1, <2>2, <2>3, SubSeqProperties
  <2>5. /\ boxes' \in Seq(Boxes) /\ Len(boxes') = n
        /\ \A i \in 1..n : boxes'[i] = boxes[i]
    BY <2>1, <2>4
  <2> QED BY <2>5 DEF n
<1>3. BoxType'
  BY <1>1, <1>2 DEF BoxType
<1>4. \A i \in 2..Len(boxes') : boxes'[i] \notin Saves
  BY <1>1, <1>2 DEF BoxInv
<1>5. widget.waitSaving <=> boxes' # <<>> /\ boxes'[1] \in Saves
  <2>1. CASE Len(boxes) = 1
    <3>1. boxes' = <<>> /\ Last(boxes) = boxes[1]
      BY <1>2, <2>1, EmptySeq DEF Last
    <3> QED BY <3>1 DEF BoxInv
  <2>2. CASE Len(boxes) > 1
    <3>1. boxes' # <<>> /\ boxes'[1] = boxes[1]
      BY <1>1, <1>2, <2>2, EmptySeq
    <3> QED BY <3>1 DEF BoxInv, IsBusy
  <2>3. \A n \in Nat : n > 0 => n = 1 \/ n > 1
    OBVIOUS
  <2> QED BY <1>1, <2>1, <2>2, <2>3
<1> QED BY <1>3, <1>4, <1>5 DEF BoxInv

\* The dialog of a save is the only box when it ends.
LEMMA SaveCloses ==
  ASSUME BoxType, BoxInv, IsBusy, Last(boxes) \in Saves,
         boxes' = Front(boxes) \/ boxes' = Append(Front(boxes), "size"),
         ~widget'.waitSaving
  PROVE  BoxType' /\ BoxInv' /\ widget.waitSaving
<1>1. Len(boxes) \in Nat /\ Len(boxes) > 0
  BY EmptyBoxes DEF IsBusy
<1>2. Len(boxes) = 1
  <2>1. Len(boxes) \in 2..Len(boxes) => boxes[Len(boxes)] \notin Saves
    BY DEF BoxInv
  <2>2. Len(boxes) \notin 2..Len(boxes)
    BY <2>1 DEF Last
  <2>3. \A n \in Nat : n > 0 /\ n \notin 2..n => n = 1
    OBVIOUS
  <2> QED BY <1>1, <2>2, <2>3
<1>3. Front(boxes) = <<>>
  BY <1>2 DEF Front, BoxType
<1>4. widget.waitSaving
  BY <1>2 DEF BoxInv, IsBusy, Last
<1>5. CASE boxes' = <<>>
  BY <1>4, <1>5 DEF BoxType, BoxInv
<1>6. CASE boxes' = <<"size">>
  <2>1. /\ boxes' \in Seq(Boxes) /\ Len(boxes') = 1 /\ boxes'[1] = "size"
    BY <1>6 DEF Boxes
  <2> QED BY <1>4, <2>1 DEF BoxType, BoxInv, Saves
<1> QED BY <1>3, <1>5, <1>6

\* Nothing opens or closes.
LEMMA BoxesKept ==
  ASSUME BoxType, BoxInv, boxes' = boxes,
         widget'.waitSaving <=> widget.waitSaving,
         widget.waitSaving => widget'.output /\ ~widget'.outputStarted
  PROVE  BoxType' /\ BoxInv'
BY DEF BoxType, BoxInv

-----------------------------------------------------------------------------
(* The steps.                                                                *)

\* The recorder as it is constructed.
LEMMA InitInv == Init => IInv
<1> SUFFICES ASSUME Init PROVE IInv
  OBVIOUS
<1>1. /\ panel \in PanelType /\ widget \in WidgetType
      /\ files \in [Takes -> FileStates] /\ shared \in 0..MaxTakes
  BY DEF Init, PanelType, WidgetType, FileStates
<1>2. Nested(widget) /\ PanelInv
  BY DEF Init, Nested, Wired, PanelInv
<1>3. FileInv
  BY DEF Init, FileInv, OutputHasItsFile, SharedIsSettled, Takes
<1>4. boxes = <<>> /\ Len(boxes) = 0 /\ ~widget.waitSaving
  BY DEF Init
<1>5. BoxType
  <2>1. boxes \in Seq(Boxes)
    BY <1>4
  <2> QED BY <1>4, <2>1 DEF BoxType
<1>6. RestType
  <2>1. big \in BOOLEAN /\ audioWanted \in BOOLEAN
    BY DEF Init
  <2>2. signals \in 0..MaxSignals
    BY DEF Init
  <2> QED BY <2>1, <2>2 DEF RestType
<1>7. BoxInv
  BY <1>4 DEF BoxInv
<1>8. alive \in BOOLEAN
  BY DEF Init
<1> QED BY <1>1, <1>2, <1>3, <1>5, <1>6, <1>7, <1>8 DEF IInv, RecordInv

\* Every step of the widget keeps the invariant, and no file that was saved
\* changes.
LEMMA WidgetStepKeeps == ASSUME LiveInv, WidgetStep PROVE LiveInv' /\ SavesKept
<1>t. /\ RecordInv /\ BoxType /\ RestType /\ BoxInv
      /\ panel \in PanelType /\ widget \in WidgetType
      /\ Nested(widget) /\ PanelInv /\ FileInv
  BY DEF LiveInv, RecordInv
<1>s. widget.waitSaving => IsBusy /\ widget.output /\ ~widget.outputStarted
  BY <1>t DEF BoxInv, IsBusy
<1>p. /\ PanelStart(panel) \in PanelType /\ PanelPause(panel) \in PanelType
      /\ PanelStop(panel) \in PanelType
      /\ [PanelStart(panel) EXCEPT !.visible = TRUE] \in PanelType
      /\ [PanelStart(panel) EXCEPT !.visible = TRUE].visible
      /\ PanelStart(panel).visible <=> panel.visible
      /\ PanelPause(panel).visible <=> panel.visible
      /\ PanelStop(panel).visible <=> panel.visible
  BY <1>t DEF PanelStart, PanelPause, PanelStop, PanelType
<1>1. CASE ClickRecord
  <2> DEFINE w == [widget EXCEPT !.recordBtn = FALSE]
  <2>1. /\ w \in WidgetType /\ Nested(w) /\ ~w.recordBtn
        /\ w.recordStarted <=> widget.recordStarted
        /\ w.outputStarted <=> widget.outputStarted
        /\ w.waitSaving <=> widget.waitSaving
        /\ w.reachedMax <=> widget.reachedMax
        /\ w.output <=> widget.output
        /\ w.settings <=> widget.settings
        /\ w.file = widget.file
    BY <1>t DEF WidgetType, Nested, Wired
  <2>2. /\ ~IsBusy /\ OnRecordStart(w) /\ panel' \in PanelType /\ panel'.visible
        /\ UNCHANGED <<signals, audioWanted, boxes, shared>>
    BY <1>1, <1>p DEF ClickRecord
  <2> HIDE DEF w
  <2>3. RecordInv' /\ SavesKept /\ ~widget'.waitSaving
    BY <2>1, <2>2, OnRecordStartKeeps
  <2>4. BoxType' /\ BoxInv'
    BY <1>t, <1>s, <2>2, <2>3, BoxesKept
  <2>5. RestType'
    BY <1>t, <2>2 DEF RestType, OnRecordStart
  <2> QED BY <2>3, <2>4, <2>5 DEF LiveInv
<1>2. CASE ClickStartPause
  <2>1. ~IsBusy /\ panel.visible /\ UNCHANGED <<signals, audioWanted, boxes, shared>>
    BY <1>2 DEF ClickStartPause
  <2>2. CASE ~panel.started
    <3>1. /\ OnRecordStart(widget) /\ panel' \in PanelType /\ panel'.visible
          /\ ~widget.recordBtn
      BY <1>2, <1>p, <1>t, <2>1, <2>2 DEF ClickStartPause, PanelInv
    <3>2. RecordInv' /\ SavesKept /\ ~widget'.waitSaving
      BY <1>t, <2>1, <3>1, OnRecordStartKeeps
    <3>3. BoxType' /\ BoxInv'
      BY <1>t, <1>s, <2>1, <3>2, BoxesKept
    <3>4. RestType'
      BY <1>t, <2>1, <3>1 DEF RestType, OnRecordStart
    <3> QED BY <3>2, <3>3, <3>4 DEF LiveInv
  <2>3. CASE panel.started
    <3> DEFINE r == StopOutput(widget)
    <3>1. /\ panel' \in PanelType /\ (panel'.visible <=> panel.visible)
          /\ files' = files /\ big' = big
          /\ \/ widget' = widget
             \/ widget' = [r EXCEPT !.settings = FALSE, !.timer = FALSE]
      BY <1>2, <1>p, <2>3 DEF ClickStartPause, OnRecordPause
    <3>2. /\ r \in WidgetType /\ Nested(r) /\ ~r.outputStarted
          /\ Kept(r, widget)
      BY <1>t, StopOutputNests DEF RestType
    <3> HIDE DEF r
    <3>3. /\ widget' \in WidgetType /\ Nested(widget')
          /\ widget'.file = widget.file
          /\ widget'.output <=> widget.output
          /\ widget'.waitSaving <=> widget.waitSaving
          /\ widget'.reachedMax <=> widget.reachedMax
          /\ widget'.recordStarted <=> widget.recordStarted
          /\ widget'.recordBtn <=> widget.recordBtn
          /\ widget'.settings => widget.settings
      <4>1. CASE widget' = widget
        BY <1>t, <4>1
      <4>2. CASE widget' = [r EXCEPT !.settings = FALSE, !.timer = FALSE]
        BY <3>2, <4>2 DEF WidgetType, Nested, Wired, Kept
      <4> QED BY <3>1, <4>1, <4>2
    <3>4. PanelInv'
      BY <1>t, <3>1, <3>3 DEF PanelInv
    <3>5. RecordInv' /\ SavesKept
      BY <1>t, <2>1, <3>1, <3>3, <3>4, NoFileTouched
    <3>6. BoxType' /\ BoxInv'
      BY <1>t, <1>s, <2>1, <3>3, BoxesKept
    <3> QED BY <1>t, <2>1, <3>1, <3>5, <3>6 DEF LiveInv, RestType
  <2> QED BY <2>2, <2>3
<1>3. CASE ClickStop
  <2>1. /\ ~IsBusy /\ panel.visible /\ panel' = PanelStop(panel)
        /\ UNCHANGED <<files, big, signals, audioWanted, shared>>
    BY <1>3 DEF ClickStop
  <2>2. CASE CanStop
    <3> DEFINE r == Stopped
    <3>1. widget' = r /\ (IF widget.output THEN Open("save") ELSE boxes' = boxes)
      BY <1>3, <2>2 DEF ClickStop
    <3>2. /\ r \in WidgetType /\ Nested(r) /\ ~r.outputStarted
          /\ r.file = widget.file /\ (r.output <=> widget.output)
          /\ r.waitSaving <=> widget.output
          /\ r.recordStarted => widget.recordStarted
          /\ r.recordBtn <=> widget.recordBtn
          /\ r.settings <=> widget.settings
      BY <2>2, StoppedNests DEF CanStop
    <3> HIDE DEF r
    <3>3. PanelInv'
      BY <1>t, <1>p, <2>1, <3>1, <3>2 DEF PanelInv
    <3>4. RecordInv' /\ SavesKept
      BY <1>t, <1>p, <2>1, <3>1, <3>2, <3>3, NoFileTouched
    <3>5. BoxType' /\ BoxInv'
      <4>1. CASE widget.output
        BY <2>1, <3>1, <3>2, <4>1, SaveOpens DEF Saves
      <4>2. CASE ~widget.output
        BY <1>t, <1>s, <2>1, <3>1, <3>2, <4>2, BoxesKept
      <4> QED BY <4>1, <4>2
    <3> QED BY <1>t, <2>1, <3>4, <3>5 DEF LiveInv, RestType
  <2>3. CASE ~CanStop
    <3>1. widget' = widget /\ boxes' = boxes
      BY <1>3, <2>3 DEF ClickStop
    <3>2. PanelInv'
      BY <1>t, <1>p, <2>1, <3>1 DEF PanelInv
    <3>3. RecordInv' /\ SavesKept
      BY <1>t, <1>p, <2>1, <3>1, <3>2, NoFileTouched
    <3>4. BoxType' /\ BoxInv'
      BY <1>t, <1>s, <3>1, BoxesKept
    <3> QED BY <1>t, <2>1, <3>3, <3>4 DEF LiveInv, RestType
  <2> QED BY <2>2, <2>3
<1>4. CASE ClickClose
  <2>1. ~IsBusy /\ UNCHANGED <<big, signals, audioWanted, shared>>
    BY <1>4 DEF ClickClose
  <2>2. CASE panel.started
    <3>1. Open("question") /\ UNCHANGED <<panel, widget, files>>
      BY <1>4, <2>2 DEF ClickClose
    <3>2. RecordInv' /\ SavesKept
      BY <1>t, <2>1, <3>1, NoFileTouched DEF PanelInv
    <3>3. BoxType' /\ BoxInv'
      BY <1>t, <1>s, <2>1, <3>1, OpenKeeps DEF Boxes, Saves
    <3> QED BY <1>t, <2>1, <3>2, <3>3 DEF LiveInv, RestType
  <2>3. CASE ~panel.started
    <3>1. OnCancelRecording(panel, FALSE) /\ boxes' = boxes
      BY <1>4, <2>3 DEF ClickClose
    <3>2. /\ RecordInv' /\ SavesKept
          /\ widget'.waitSaving <=> widget.waitSaving
          /\ widget.waitSaving => widget' = widget
      BY <1>t, <2>1, <3>1, OnCancelRecordingKeeps
    <3>3. BoxType' /\ BoxInv'
      BY <1>t, <1>s, <3>1, <3>2, BoxesKept
    <3> QED BY <1>t, <2>1, <3>2, <3>3 DEF LiveInv, RestType
  <2> QED BY <2>2, <2>3
<1>5. CASE AnswerQuestion
  <2>1. /\ IsBusy /\ Last(boxes) = "question" /\ boxes' = Front(boxes)
        /\ UNCHANGED <<big, signals, audioWanted, shared>>
    BY <1>5 DEF AnswerQuestion
  <2>2. /\ RecordInv' /\ SavesKept
        /\ widget'.waitSaving <=> widget.waitSaving
        /\ widget.waitSaving => widget' = widget
    <3>1. CASE OnCancelRecording(PanelStop(panel), Len(boxes) > 1)
      <4> DEFINE busy == Len(boxes) > 1
      <4>1. busy \in BOOLEAN
        OBVIOUS
      <4> HIDE DEF busy
      <4>2. OnCancelRecording(PanelStop(panel), busy)
        BY <3>1 DEF busy
      <4> QED BY <1>t, <1>p, <2>1, <4>1, <4>2, OnCancelRecordingKeeps
    <3>2. CASE UNCHANGED <<panel, widget, files>>
      BY <1>t, <2>1, <3>2, NoFileTouched DEF PanelInv
    <3> QED BY <1>5, <3>1, <3>2 DEF AnswerQuestion
  <2>3. BoxType' /\ BoxInv'
    BY <1>t, <1>s, <2>1, <2>2, CloseKeeps DEF Saves
  <2> QED BY <1>t, <2>1, <2>2, <2>3 DEF LiveInv, RestType
<1>6. CASE ClickShare
  <2>1. /\ panel.visible /\ ~widget.recordStarted
        /\ shared' = widget.file
        /\ panel' = [panel EXCEPT !.visible = FALSE]
        /\ widget' = [widget EXCEPT !.settings = TRUE, !.recordBtn = TRUE]
        /\ UNCHANGED <<files, big, signals, audioWanted, boxes>>
    BY <1>6 DEF ClickShare
  <2>2. /\ widget' \in WidgetType /\ Nested(widget')
        /\ ~widget'.recordStarted /\ widget'.file = widget.file
        /\ widget'.output <=> widget.output
        /\ widget'.waitSaving <=> widget.waitSaving
        /\ widget'.outputStarted <=> widget.outputStarted
        /\ widget'.reachedMax <=> widget.reachedMax
    BY <1>t, <2>1 DEF WidgetType, Nested, Wired
  <2>3. panel' \in PanelType /\ ~panel'.visible
    BY <1>t, <2>1 DEF PanelType
  <2>4. PanelInv'
    BY <2>2, <2>3 DEF PanelInv
  <2>5. SharedIsSettled' /\ shared' \in 0..MaxTakes
    <3>1. ~widget.output
      BY <1>t, <2>1 DEF Nested
    <3>2. widget.file \in 0..MaxTakes
      BY <1>t DEF WidgetType
    <3>3. CASE widget.file # 0
      <4>1. widget.file \in Takes /\ ~(widget.file > widget.file)
        BY <3>2, <3>3 DEF Takes
      <4>2. files[widget.file] \notin {"absent", "recording", "removed"}
        BY <1>t, <2>1, <3>1, <3>3, <4>1 DEF FileInv, OutputHasItsFile
      <4>3. files[widget.file] \in FileStates
        BY <1>t, <4>1 DEF RecordInv
      <4> QED BY <2>1, <3>2, <4>2, <4>3 DEF SharedIsSettled, FileStates
    <3> QED BY <2>1, <3>2, <3>3 DEF SharedIsSettled
  <2>6. RecordInv' /\ SavesKept
    BY <1>t, <2>1, <2>2, <2>3, <2>4, <2>5
    DEF RecordInv, FileInv, OutputHasItsFile, SavesKept
  <2>7. BoxType' /\ BoxInv'
    BY <1>t, <1>s, <2>1, <2>2, BoxesKept
  <2> QED BY <1>t, <2>1, <2>6, <2>7 DEF LiveInv, RestType
<1>7. CASE ClickAudio
  <2>1. PICK on \in BOOLEAN : /\ audioWanted' = on
                              /\ widget' = [widget EXCEPT !.codecAudio = on]
    BY <1>7 DEF ClickAudio
  <2>2. UNCHANGED <<panel, files, big, signals, boxes, shared>>
    BY <1>7 DEF ClickAudio
  <2>3. /\ widget' \in WidgetType /\ Nested(widget') /\ Kept(widget', widget)
        /\ widget'.outputStarted <=> widget.outputStarted
    BY <1>t, <2>1 DEF WidgetType, Nested, Wired, Kept
  <2>4. PanelInv'
    BY <1>t, <2>2, <2>3 DEF PanelInv, Kept
  <2>5. RecordInv' /\ SavesKept
    BY <1>t, <2>2, <2>3, <2>4, NoFileTouched DEF Kept
  <2>6. BoxType' /\ BoxInv'
    BY <1>t, <1>s, <2>2, <2>3, BoxesKept DEF Kept
  <2> QED BY <1>t, <2>1, <2>2, <2>5, <2>6 DEF LiveInv, RestType
<1>8. CASE Grow \/ EmitScreenSizeChanged
  <2>1. /\ UNCHANGED <<panel, widget, files, boxes, shared>>
        /\ RestType'
    <3>2. CASE Grow
      BY <1>t, <3>2 DEF Grow, RestType
    <3>3. CASE EmitScreenSizeChanged
      <4>1. /\ UNCHANGED <<panel, widget, files, boxes, shared, big, audioWanted>>
            /\ signals < MaxSignals /\ signals' = signals + 1
        BY <3>3 DEF EmitScreenSizeChanged
      <4>2. signals' \in 0..MaxSignals
        BY <1>t, <4>1 DEF RestType
      <4> QED BY <1>t, <4>1, <4>2 DEF RestType
    <3> QED BY <1>8, <3>2, <3>3
  <2>2. RecordInv' /\ SavesKept
    BY <1>t, <2>1, NoFileTouched DEF PanelInv
  <2>3. BoxType' /\ BoxInv'
    BY <1>t, <1>s, <2>1, BoxesKept
  <2> QED BY <2>1, <2>2, <2>3 DEF LiveInv
<1>9. CASE OpenOther \/ CloseBox
  <2>1. UNCHANGED <<panel, widget, files, big, signals, audioWanted, shared>>
    BY <1>9 DEF OpenOther, CloseBox
  <2>2. RecordInv' /\ SavesKept
    BY <1>t, <2>1, NoFileTouched DEF PanelInv
  <2>3. BoxType' /\ BoxInv'
    <3>1. CASE OpenOther
      BY <1>t, <1>s, <2>1, <3>1, OpenKeeps DEF OpenOther, Boxes, Saves
    <3>2. CASE CloseBox
      BY <1>t, <1>s, <2>1, <3>2, CloseKeeps DEF CloseBox, Saves
    <3> QED BY <1>9, <3>1, <3>2
  <2> QED BY <1>t, <2>1, <2>2, <2>3 DEF LiveInv, RestType
<1>10. CASE SaveDone
  <2> DEFINE r == EndRecord(widget)
             bySize == Last(boxes) = "saveSize"
  <2>1. /\ IsBusy /\ Last(boxes) \in Saves
        /\ files' = [files EXCEPT ![widget.file] = "saved"]
        /\ widget' = [r EXCEPT !.waitSaving = FALSE, !.timer = FALSE,
                               !.reachedMax = bySize]
        /\ boxes' = Front(boxes) \/ boxes' = Append(Front(boxes), "size")
        /\ UNCHANGED <<panel, big, signals, audioWanted, shared>>
    BY <1>10 DEF SaveDone, Saves
  <2>2. widget.waitSaving
    <3>1. Len(boxes) \in Nat /\ Len(boxes) > 0
      BY <1>t, <2>1, EmptyBoxes DEF IsBusy
    <3>2. Len(boxes) \notin 2..Len(boxes)
      BY <1>t, <2>1 DEF BoxInv, Last
    <3>3. \A n \in Nat : n > 0 /\ n \notin 2..n => n = 1
      OBVIOUS
    <3>4. Last(boxes) = boxes[1]
      BY <3>1, <3>2, <3>3 DEF Last
    <3> QED BY <1>t, <2>1, <3>4 DEF BoxInv, IsBusy
  <2>3. /\ widget.output /\ ~widget.outputStarted /\ ~widget.inputStarted
        /\ widget.file \in Takes /\ files[widget.file] = "recording"
    <3>1. widget.output /\ ~widget.outputStarted
      BY <1>s, <2>2
    <3>2. widget.file # 0 /\ widget.file \in 0..MaxTakes /\ ~widget.inputStarted
      BY <1>t, <3>1 DEF Nested, WidgetType
    <3>3. widget.file \in Takes
      BY <3>2 DEF Takes
    <3> QED BY <1>t, <3>1, <3>2, <3>3 DEF FileInv, OutputHasItsFile
  <2>4. /\ r \in WidgetType /\ Nested(r) /\ ~r.recordStarted
        /\ ~r.output /\ r.file = widget.file
        /\ r.recordBtn <=> widget.recordBtn
    BY <1>t, <2>3, EndRecordNests DEF Nested
  <2>5. bySize \in BOOLEAN
    OBVIOUS
  <2> HIDE DEF r, bySize
  <2>6. /\ widget' \in WidgetType /\ Nested(widget') /\ ~widget'.recordStarted
        /\ ~widget'.output /\ ~widget'.waitSaving /\ widget'.file = widget.file
        /\ widget'.recordBtn <=> widget.recordBtn
    BY <2>1, <2>4, <2>5 DEF WidgetType, Nested, Wired
  <2>7. PanelInv'
    BY <1>t, <2>1, <2>6 DEF PanelInv
  <2>8. /\ files' \in [Takes -> FileStates]
        /\ \A f \in Takes : f # widget.file => files'[f] = files[f]
        /\ files'[widget.file] = "saved"
    BY <1>t, <2>1, <2>3 DEF RecordInv, FileStates
  <2>9. FileInv'
    <3>1. OutputHasItsFile'
      BY <1>t, <2>3, <2>6, <2>8 DEF FileInv, OutputHasItsFile
    <3>2. \A f \in Takes : files'[f] = "absent" <=> f > widget'.file
      <4>1. ~(widget.file > widget.file)
        BY <1>t DEF WidgetType
      <4> QED BY <1>t, <2>3, <2>6, <2>8, <4>1 DEF FileInv
    <3>3. SharedIsSettled'
      <4>1. shared # 0 => shared \in Takes
        BY <1>t DEF RecordInv, Takes
      <4> QED BY <1>t, <2>1, <2>8, <4>1 DEF FileInv, SharedIsSettled
    <3> QED BY <2>6, <2>8, <3>1, <3>2, <3>3 DEF FileInv
  <2>10. SavesKept
    BY <2>8 DEF SavesKept
  <2>11. BoxType' /\ BoxInv'
    BY <1>t, <2>1, <2>6, SaveCloses
  <2> QED
    BY <1>t, <2>1, <2>6, <2>7, <2>8, <2>9, <2>10, <2>11
    DEF LiveInv, RecordInv, RestType
<1>11. CASE OnScreenSizeChanged
  <2>1. /\ Len(boxes) < MaxBoxes /\ OnCancelRecording(PanelStop(panel), IsBusy)
        /\ Open("screen") /\ signals > 0 /\ signals' = signals - 1
        /\ UNCHANGED <<big, audioWanted, shared>>
    BY <1>11 DEF OnScreenSizeChanged
  <2>2. /\ RecordInv' /\ SavesKept
        /\ widget'.waitSaving <=> widget.waitSaving
        /\ widget.waitSaving => widget' = widget
    <3>1. IsBusy \in BOOLEAN
      BY DEF IsBusy
    <3> QED BY <1>t, <1>p, <2>1, <3>1, OnCancelRecordingKeeps
  <2>3. BoxType' /\ BoxInv'
    BY <1>t, <1>s, <2>1, <2>2, OpenKeeps DEF Boxes, Saves
  <2>4. RestType'
    BY <1>t, <2>1 DEF RestType
  <2> QED BY <2>2, <2>3, <2>4 DEF LiveInv
<1>12. CASE OnCheckFileSize
  <2>1. /\ Len(boxes) < MaxBoxes /\ panel' = PanelStop(panel)
        /\ widget.file # 0 /\ files[widget.file] \in {"recording", "saved", "left"}
        /\ UNCHANGED <<files, big, signals, audioWanted, shared>>
    BY <1>12 DEF OnCheckFileSize
  <2>2. CASE CanStop
    <3> DEFINE r == Stopped
    <3>1. /\ r \in WidgetType /\ Nested(r) /\ ~r.outputStarted
          /\ r.file = widget.file /\ (r.output <=> widget.output)
          /\ r.waitSaving <=> widget.output
          /\ r.recordStarted => widget.recordStarted
          /\ r.recordBtn <=> widget.recordBtn
          /\ r.settings <=> widget.settings
      BY <2>2, StoppedNests DEF CanStop
    <3>2. \/ widget.output /\ widget' = r /\ Open("saveSize")
          \/ /\ ~widget.output /\ Open("size")
             /\ widget' = [r EXCEPT !.reachedMax = TRUE]
      BY <1>12, <2>2 DEF OnCheckFileSize
    <3> HIDE DEF r
    <3>3. /\ widget' \in WidgetType /\ Nested(widget') /\ ~widget'.outputStarted
          /\ widget'.file = widget.file /\ (widget'.output <=> widget.output)
          /\ widget'.waitSaving <=> widget.output
          /\ widget'.recordStarted => widget.recordStarted
          /\ widget'.recordBtn <=> widget.recordBtn
          /\ widget'.settings <=> widget.settings
      <4>1. CASE widget' = r
        BY <3>1, <4>1
      <4>2. CASE widget' = [r EXCEPT !.reachedMax = TRUE]
        BY <3>1, <4>2 DEF WidgetType, Nested, Wired
      <4> QED BY <3>2, <4>1, <4>2
    <3>4. PanelInv'
      BY <1>t, <1>p, <2>1, <3>3 DEF PanelInv
    <3>5. RecordInv' /\ SavesKept
      BY <1>t, <1>p, <2>1, <3>3, <3>4, NoFileTouched
    <3>6. BoxType' /\ BoxInv'
      <4>1. CASE widget.output
        BY <2>2, <3>2, <3>3, <4>1, SaveOpens DEF Saves, CanStop
      <4>2. CASE ~widget.output
        BY <1>t, <1>s, <2>1, <3>2, <3>3, <4>2, OpenKeeps DEF Boxes, Saves
      <4> QED BY <4>1, <4>2
    <3> QED BY <1>t, <2>1, <3>5, <3>6 DEF LiveInv, RestType
  <2>3. CASE ~CanStop
    <3>1. widget' = [widget EXCEPT !.reachedMax = TRUE] /\ Open("size")
      BY <1>12, <2>3 DEF OnCheckFileSize
    <3>2. /\ widget' \in WidgetType /\ Nested(widget')
          /\ widget'.file = widget.file /\ (widget'.output <=> widget.output)
          /\ widget'.waitSaving <=> widget.waitSaving
          /\ widget'.outputStarted <=> widget.outputStarted
          /\ widget'.recordStarted <=> widget.recordStarted
          /\ widget'.recordBtn <=> widget.recordBtn
          /\ widget'.settings <=> widget.settings
      BY <1>t, <3>1 DEF WidgetType, Nested, Wired
    <3>3. PanelInv'
      BY <1>t, <1>p, <2>1, <3>2 DEF PanelInv
    <3>4. RecordInv' /\ SavesKept
      BY <1>t, <1>p, <2>1, <3>2, <3>3, NoFileTouched
    <3>5. BoxType' /\ BoxInv'
      BY <1>t, <1>s, <2>1, <3>1, <3>2, OpenKeeps DEF Boxes, Saves
    <3> QED BY <1>t, <2>1, <3>4, <3>5 DEF LiveInv, RestType
  <2> QED BY <2>2, <2>3
<1> QED
  BY <1>1, <1>2, <1>3, <1>4, <1>5, <1>6, <1>7, <1>8, <1>9, <1>10, <1>11,
     <1>12
  DEF WidgetStep

\* The window is destroyed, whatever is open: the file of its output is removed
\* and nothing else changes for the files.
LEMMA DestroyWindowKeeps ==
  ASSUME RecordInv, RestType, DestroyWindow
  PROVE  IInv' /\ SavesKept
<1> DEFINE r == Discard(widget)
<1>1. /\ r \in WidgetType /\ Nested(r) /\ ~r.recordStarted /\ ~r.output
      /\ widget.recordStarted => ~r.reachedMax
      /\ r.reachedMax => widget.reachedMax
      /\ r.file = widget.file
  BY DiscardNests DEF RecordInv, RestType
<1>2. /\ widget' = [r EXCEPT !.timer = FALSE]
      /\ panel' = [panel EXCEPT !.visible = FALSE]
      /\ files' = FilesDiscarded /\ alive' = FALSE
      /\ boxes' = <<>> /\ signals' = 0
      /\ UNCHANGED <<big, audioWanted, shared>>
  BY DEF DestroyWindow
<1> HIDE DEF r
<1>3. /\ widget' \in WidgetType /\ Nested(widget')
      /\ ~widget'.recordStarted /\ ~widget'.output
      /\ widget.recordStarted => ~widget'.reachedMax
      /\ widget'.reachedMax => widget.reachedMax
      /\ widget'.file = widget.file
  BY <1>1, <1>2 DEF WidgetType, Nested, Wired
<1>4. panel' \in PanelType /\ ~panel'.visible
  BY <1>2 DEF PanelType, RecordInv
<1>5. RecordInv' /\ SavesKept
  BY <1>2, <1>3, <1>4, DiscardKeeps
<1>6. BoxType' /\ RestType'
  BY <1>2 DEF BoxType, RestType
<1> QED BY <1>2, <1>5, <1>6 DEF IInv

LEMMA NextKeeps == ASSUME IInv, Next PROVE IInv' /\ SavesKept
<1>1. CASE alive /\ WidgetStep /\ UNCHANGED alive
  BY <1>1, WidgetStepKeeps DEF IInv, LiveInv
<1>2. CASE DestroyWindow
  BY <1>2, DestroyWindowKeeps DEF IInv
<1>3. CASE OtherWindowAudio /\ UNCHANGED alive
  <2>1. UNCHANGED <<panel, widget, files, boxes, shared, alive>> /\ RestType'
    BY <1>3 DEF OtherWindowAudio, RestType, IInv
  <2>2. RecordInv' /\ SavesKept
    BY <2>1, NoFileTouched DEF IInv, RecordInv, PanelInv
  <2> QED BY <2>1, <2>2 DEF IInv, BoxType, BoxInv
<1> QED BY <1>1, <1>2, <1>3 DEF Next

LEMMA StepKeeps == IInv /\ [Next]_vars => IInv' /\ (SavesKept \/ UNCHANGED vars)
<1> SUFFICES ASSUME IInv, [Next]_vars
             PROVE  IInv' /\ (SavesKept \/ UNCHANGED vars)
  OBVIOUS
<1>1. CASE UNCHANGED vars
  BY <1>1
  DEF vars, IInv, RecordInv, PanelInv, FileInv, OutputHasItsFile, SharedIsSettled,
      BoxType, RestType, BoxInv
<1> QED BY <1>1, NextKeeps

-----------------------------------------------------------------------------
(* The theorems.                                                             *)

\* Every reachable state satisfies the inductive invariant.
LEMMA Invariant == Spec => []IInv
<1> QED BY InitInv, StepKeeps, PTL DEF Spec

\* Every variable keeps its type (recordscreenwidget.h).
THEOREM TypeCorrect == Spec => []TypeOK
<1>1. IInv => TypeOK
  <2> SUFFICES ASSUME IInv PROVE TypeOK
    OBVIOUS
  <2>1. /\ panel \in PanelType /\ widget \in WidgetType
        /\ files \in [Takes -> FileStates] /\ shared \in 0..MaxTakes
        /\ BoxType /\ RestType /\ alive \in BOOLEAN
    BY DEF IInv, RecordInv
  <2> QED
    BY <2>1 DEF TypeOK, PanelType, WidgetType, BoxType, RestType
<1> QED BY <1>1, Invariant, PTL

\* A recording, paused or not, always has its panel, and neither the record
\* button nor the settings can be used meanwhile: whatever boxes are nested,
\* OnCancelRecording and OnShareRecordedVideo hide the panel only when the
\* recording ends.
THEOREM RecordingStaysInReach == Spec => []RecordingInReach
<1>1. IInv => RecordingInReach
  BY DEF IInv, RecordInv, PanelInv, RecordingInReach
<1> QED BY <1>1, Invariant, PTL

\* The sources live only while the output is started and a sink is connected
\* only to a source that lives: UpdateInput is called wherever the output
\* starts or stops.
THEOREM SourcesFollowOutput == Spec => []InputsFollowOutput
<1>1. IInv => InputsFollowOutput
  <2> SUFFICES ASSUME IInv PROVE InputsFollowOutput
    OBVIOUS
  <2>1. widget \in WidgetType /\ Nested(widget)
    BY DEF IInv, RecordInv
  <2>2. widget.video = widget.inputStarted
    BY <2>1 DEF Nested, Wired, WidgetType
  <2> QED BY <2>1, <2>2 DEF Nested, Wired, InputsFollowOutput
<1> QED BY <1>1, Invariant, PTL

\* While the window exists the output manager that FinishOutput polls is there
\* until its dialog is closed, and no second save begins meanwhile: among all
\* that can happen in the dialog's loop only the destruction of the window
\* deletes it.
THEOREM OutputOutlivesItsSave == Spec => []OutputOutlivesSaving
<1>1. IInv => OutputOutlivesSaving
  <2> SUFFICES ASSUME IInv, alive PROVE OutputOutlivesSaving
    BY DEF OutputOutlivesSaving
  <2> DEFINE saves == {i \in DOMAIN boxes : boxes[i] \in Saves}
  <2>1. Nested(widget) /\ BoxInv /\ boxes \in Seq(Boxes)
    BY DEF IInv, RecordInv, BoxType
  <2>2. DOMAIN boxes = 1..Len(boxes) /\ Len(boxes) \in Nat
    BY <2>1
  <2>3. \A i \in saves : i = 1
    <3>1. \A n \in Nat : \A i \in 1..n : i \notin 2..n => i = 1
      OBVIOUS
    <3> QED BY <2>1, <2>2, <3>1 DEF BoxInv
  <2>4. boxes # <<>> => 1 \in DOMAIN boxes
    BY <2>1, <2>2, EmptyBoxes
  <2>5. widget.waitSaving <=> saves # {}
    BY <2>1, <2>3, <2>4 DEF BoxInv
  <2>6. \A i, j \in saves : i = j
    BY <2>3
  <2>7. widget.waitSaving =>
          widget.output /\ widget.recordStarted /\ ~widget.outputStarted
    BY <2>1 DEF BoxInv, Nested
  <2> QED BY <2>5, <2>6, <2>7 DEF OutputOutlivesSaving, Saves
<1> QED BY <1>1, Invariant, PTL

\* A file an output was made for is the one it writes to until it is saved or
\* removed: no pause, box, cancelled recording or destroyed window leaves
\* another behind.  The file of a start that fails is not among them.
THEOREM OutputsHaveTheirFiles == Spec => []OutputHasItsFile
<1>1. IInv => OutputHasItsFile
  BY DEF IInv, RecordInv, FileInv
<1> QED BY <1>1, Invariant, PTL

\* What OnShareRecordedVideo hands to Android is neither still written to nor
\* removed, then or later.
THEOREM SharedFilesAreSettled == Spec => []SharedIsSettled
<1>1. IInv => SharedIsSettled
  BY DEF IInv, RecordInv, FileInv
<1> QED BY <1>1, Invariant, PTL

\* No step removes or rewrites a file that was saved: StopRecord(false) and
\* StartOutput find the name of another.
THEOREM SavedFilesStay == Spec => SavedIsKept
<1>1. IInv /\ [Next]_vars =>
        [\A f \in Takes : files[f] = "saved" => files'[f] = "saved"]_vars
  BY StepKeeps DEF SavesKept
<1> QED BY <1>1, Invariant, PTL DEF Spec, SavedIsKept
=============================================================================
