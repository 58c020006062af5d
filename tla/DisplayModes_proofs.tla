------------------------ MODULE DisplayModes_proofs ------------------------
(***************************************************************************)
(* Theorems about DisplayModes, for any ids of the two displays, any set   *)
(* of rotations and any number of signals under way.                       *)
(*                                                                         *)
(* The inductive invariant is ModesInv: Sound, of a window whose widgets   *)
(* may not have been brought up to date yet, VisibleFollowsMode, and       *)
(* ParallelViewRemembered.                                                 *)
(***************************************************************************)
EXTENDS DisplayModes, SequenceTheorems, TLAPS

\* What every helper keeps, the widgets' visibility aside.
Sound(w) ==
    /\ w \in Window
    /\ w.mDisplayMode # "SINGLE_MAIN" => w.mAccessoryDisplay
    /\ w.mLastDisplayMode # "SINGLE_MAIN" => w.mAccessoryDisplay
    /\ w.mAccessoryDisplay => w.mAccessoryDisplayId = AccessoryId
    /\ ~w.mAccessoryDisplay => ~w.enabled["accessory"]
    /\ w.mDisplayMode = "SINGLE_ACCESSORY" => w.mLastDisplayMode = "MULTI"

\* UpdatesFollowMode, of a window.
Drawn(w) == w.shown /\ w.mMainDisplayId # NoId
                => w.enabled = ShownIn(w.mDisplayMode)

\* The way back to the parallel view, from the main display alone.
Remembers(w) == w.mDisplayMode = "SINGLE_MAIN" => w.mLastDisplayMode = "MULTI"

\* e differs from w in nothing but the updates.
SameButUpdates(e, w) ==
    /\ e.mDisplayMode = w.mDisplayMode
    /\ e.mLastDisplayMode = w.mLastDisplayMode
    /\ e.mMainDisplayId = w.mMainDisplayId
    /\ e.mAccessoryDisplayId = w.mAccessoryDisplayId
    /\ e.mAccessoryDisplay = w.mAccessoryDisplay
    /\ e.visible = w.visible
    /\ e.shown = w.shown
    /\ e.fullScreen = w.fullScreen

-----------------------------------------------------------------------------
(* Updates                                                                 *)

LEMMA ShownInType ==
    ASSUME NEW mode \in DisplayMode
    PROVE  /\ ShownIn(mode) \in [Displays -> BOOLEAN]
           /\ ShownIn(mode)["main"] = (mode # "SINGLE_ACCESSORY")
           /\ ShownIn(mode)["accessory"] = (mode # "SINGLE_MAIN")
BY DEF ShownIn, Displays

LEMMA EnableDisplayType ==
    ASSUME NEW w \in Window, NEW id, NEW b \in BOOLEAN
    PROVE  /\ EnableDisplay(w, id, b) \in Window
           /\ SameButUpdates(EnableDisplay(w, id, b), w)
           /\ EnableDisplay(w, id, b).enabled =
                  IF id = w.mMainDisplayId
                  THEN [w.enabled EXCEPT !["main"] = b]
                  ELSE IF id = w.mAccessoryDisplayId /\ w.mAccessoryDisplay
                  THEN [w.enabled EXCEPT !["accessory"] = b]
                  ELSE w.enabled
<1>1. /\ [w EXCEPT !.enabled["main"] = b] \in Window
      /\ [w EXCEPT !.enabled["accessory"] = b] \in Window
  BY DEF Window, Displays
<1> QED BY <1>1 DEF EnableDisplay, SameButUpdates, Window

\* Both displays get what is asked for, when they have their ids.
LEMMA EnableBothResult ==
    ASSUME NEW w, Sound(w), NEW m \in BOOLEAN, NEW a \in BOOLEAN
    PROVE  LET e == EnableBoth(w, m, a)
           IN  /\ e \in Window
               /\ SameButUpdates(e, w)
               /\ ~w.mAccessoryDisplay => ~e.enabled["accessory"]
               /\ w.mMainDisplayId # NoId =>
                      /\ e.enabled["main"] = m
                      /\ w.mAccessoryDisplay => e.enabled["accessory"] = a
<1> DEFINE f == EnableDisplay(w, w.mMainDisplayId, m)
           e == EnableDisplay(f, w.mAccessoryDisplayId, a)
<1>1. w \in Window
  BY DEF Sound
<1>2. /\ f \in Window /\ SameButUpdates(f, w)
      /\ f.enabled = [w.enabled EXCEPT !["main"] = m]
  BY <1>1, EnableDisplayType
<1> HIDE DEF f
<1>3. /\ e \in Window /\ SameButUpdates(e, f)
      /\ e.enabled = IF w.mAccessoryDisplayId = f.mMainDisplayId
                     THEN [f.enabled EXCEPT !["main"] = a]
                     ELSE IF /\ w.mAccessoryDisplayId = f.mAccessoryDisplayId
                             /\ f.mAccessoryDisplay
                     THEN [f.enabled EXCEPT !["accessory"] = a]
                     ELSE f.enabled
  BY <1>2, EnableDisplayType
<1>4. SameButUpdates(e, w)
  BY <1>2, <1>3 DEF SameButUpdates
<1>5. w.enabled \in [Displays -> BOOLEAN] /\ f.enabled \in [Displays -> BOOLEAN]
  BY <1>1, <1>2 DEF Window
<1>6. /\ w.mMainDisplayId \in {NoId, MainId}
      /\ w.mAccessoryDisplayId \in {NoId, AccessoryId}
      /\ MainId # NoId /\ AccessoryId # NoId /\ MainId # AccessoryId
  BY <1>1, IdsAssumption DEF Window, NoId
<1> HIDE DEF e
<1>7. ~w.mAccessoryDisplay => ~e.enabled["accessory"]
  BY <1>2, <1>3, <1>5 DEF Sound, SameButUpdates, Displays
<1>8. w.mMainDisplayId # NoId => w.mAccessoryDisplayId # f.mMainDisplayId
  BY <1>2, <1>6 DEF SameButUpdates
<1>9. ASSUME w.mMainDisplayId # NoId
      PROVE  /\ e.enabled["main"] = m
             /\ w.mAccessoryDisplay => e.enabled["accessory"] = a
  BY <1>2, <1>3, <1>5, <1>8, <1>9 DEF SameButUpdates, Displays
<1> QED BY <1>3, <1>4, <1>7, <1>9 DEF EnableBoth, e, f

\* showDisplays draws the displays of the mode.
LEMMA ShowDisplaysSound ==
    ASSUME NEW w, Sound(w)
    PROVE  /\ Sound(ShowDisplays(w))
           /\ Drawn(ShowDisplays(w))
           /\ SameButUpdates(ShowDisplays(w), w)
<1> DEFINE m == ShownIn(w.mDisplayMode)["main"]
           a == ShownIn(w.mDisplayMode)["accessory"]
           e == EnableBoth(w, m, a)
<1>1. /\ w \in Window /\ w.mDisplayMode \in DisplayMode
      /\ w.mAccessoryDisplay \in BOOLEAN
  BY DEF Sound, Window
<1>2. /\ m = (w.mDisplayMode # "SINGLE_ACCESSORY")
      /\ a = (w.mDisplayMode # "SINGLE_MAIN")
      /\ m \in BOOLEAN /\ a \in BOOLEAN
      /\ ShownIn(w.mDisplayMode) \in [Displays -> BOOLEAN]
  BY <1>1, ShownInType
<1> HIDE DEF m, a
<1>3. /\ e \in Window
      /\ SameButUpdates(e, w)
      /\ ~w.mAccessoryDisplay => ~e.enabled["accessory"]
      /\ w.mMainDisplayId # NoId =>
             /\ e.enabled["main"] = m
             /\ w.mAccessoryDisplay => e.enabled["accessory"] = a
  BY <1>2, EnableBothResult
<1> HIDE DEF e
<1>4. Sound(e)
  BY <1>3 DEF Sound, SameButUpdates
<1>5. ASSUME w.mMainDisplayId # NoId
      PROVE  e.enabled = ShownIn(w.mDisplayMode)
  <2>1. e.enabled \in [Displays -> BOOLEAN]
    BY <1>3 DEF Window
  <2>2. e.enabled["main"] = ShownIn(w.mDisplayMode)["main"]
    BY <1>3, <1>5 DEF m
  <2>3. CASE w.mAccessoryDisplay
    <3>1. e.enabled["accessory"] = ShownIn(w.mDisplayMode)["accessory"]
      BY <1>3, <1>5, <2>3 DEF a
    <3> QED BY <1>2, <2>1, <2>2, <3>1 DEF Displays
  <2>4. CASE ~w.mAccessoryDisplay
    <3>1. w.mDisplayMode = "SINGLE_MAIN"
      BY <2>4, <1>1 DEF Sound
    <3>2. e.enabled["accessory"] = FALSE
      BY <1>3, <2>1, <2>4 DEF Displays
    <3>3. ShownIn(w.mDisplayMode)["accessory"] = FALSE
      BY <1>1, <3>1, ShownInType
    <3> QED BY <1>2, <2>1, <2>2, <3>2, <3>3 DEF Displays
  <2> QED BY <1>1, <2>3, <2>4
<1>6. Drawn(e)
  BY <1>3, <1>5 DEF Drawn, SameButUpdates
<1> QED BY <1>3, <1>4, <1>6 DEF ShowDisplays, e, m, a

LEMMA HideDisplaysSound ==
    ASSUME NEW w, Sound(w)
    PROVE  /\ Sound(HideDisplays(w))
           /\ SameButUpdates(HideDisplays(w), w)
<1> DEFINE e == EnableBoth(w, FALSE, FALSE)
<1>1. /\ e \in Window
      /\ SameButUpdates(e, w)
      /\ ~w.mAccessoryDisplay => ~e.enabled["accessory"]
  BY EnableBothResult
<1> HIDE DEF e
<1>2. Sound(e)
  BY <1>1 DEF Sound, SameButUpdates
<1> QED BY <1>1, <1>2 DEF HideDisplays, e

-----------------------------------------------------------------------------
(* Modes                                                                   *)

\* What a change of the mode keeps: a mode that only a multi display may be
\* left for, and the widgets as they were.
LEMMA SetDisplayModeSound ==
    ASSUME NEW w, Sound(w), NEW mode \in DisplayMode, NEW multi \in BOOLEAN,
           mode # "SINGLE_MAIN" => w.mAccessoryDisplay,
           mode = "SINGLE_ACCESSORY" =>
               ~multi /\ w.mDisplayMode \in {"MULTI", "SINGLE_ACCESSORY"}
    PROVE  LET e == SetDisplayMode(w, mode, multi)
           IN  /\ Sound(e)
               /\ Drawn(w) => Drawn(e)
               /\ e.mDisplayMode = mode
               /\ e.shown = w.shown
               /\ e.mAccessoryDisplay = w.mAccessoryDisplay
               /\ e.mMainDisplayId = w.mMainDisplayId
               /\ w.mDisplayMode # mode =>
                      e.mLastDisplayMode = IF multi THEN mode
                                                    ELSE w.mDisplayMode
               /\ w.mDisplayMode = mode => e = w
<1> DEFINE c == [w EXCEPT !.mLastDisplayMode = IF multi THEN mode
                                                        ELSE w.mDisplayMode,
                          !.mDisplayMode = mode]
           e == ShowDisplays(c)
<1>1. CASE w.mDisplayMode = mode
  BY <1>1 DEF SetDisplayMode
<1>2. CASE w.mDisplayMode # mode
  <2>1. w \in Window
    BY DEF Sound
  <2>2. /\ c \in Window
        /\ c.mDisplayMode = mode
        /\ c.mLastDisplayMode = IF multi THEN mode ELSE w.mDisplayMode
        /\ c.mAccessoryDisplay = w.mAccessoryDisplay
        /\ c.mAccessoryDisplayId = w.mAccessoryDisplayId
        /\ c.mMainDisplayId = w.mMainDisplayId
        /\ c.shown = w.shown
        /\ c.enabled = w.enabled
    BY <2>1 DEF Window
  <2> HIDE DEF c
  <2>3. Sound(c)
    BY <1>2, <2>2 DEF Sound
  <2>4. Sound(e) /\ Drawn(e) /\ SameButUpdates(e, c)
    BY <2>3, ShowDisplaysSound
  <2> HIDE DEF e
  <2>5. SetDisplayMode(w, mode, multi) = e
    BY <1>2 DEF SetDisplayMode, e, c
  <2> QED BY <1>2, <2>2, <2>4, <2>5 DEF SameButUpdates
<1> QED BY <1>1, <1>2

\* What the helpers that choose a mode keep.
Keeps(e, w) ==
    /\ Sound(e)
    /\ Drawn(w) => Drawn(e)
    /\ Remembers(w) => Remembers(e)
    /\ e.shown = w.shown
    /\ e.mMainDisplayId = w.mMainDisplayId
    /\ e.mAccessoryDisplay = w.mAccessoryDisplay

\* The three changes of mode that the helpers make.
LEMMA ModeChangesKeep ==
    ASSUME NEW w, Sound(w)
    PROVE  /\ w.mAccessoryDisplay => Keeps(SetDisplayMode(w, "MULTI", FALSE), w)
           /\ w.mDisplayMode # "SINGLE_MAIN" =>
                  Keeps(SetDisplayMode(w, "SINGLE_ACCESSORY", FALSE), w)
           /\ w.mDisplayMode = "MULTI" =>
                  Keeps(SetDisplayMode(w, "SINGLE_MAIN", FALSE), w)
<1>1. /\ w.mDisplayMode \in DisplayMode
      /\ w.mDisplayMode # "SINGLE_MAIN" => w.mAccessoryDisplay
  BY DEF Sound, Window
<1>2. ASSUME w.mAccessoryDisplay
      PROVE  Keeps(SetDisplayMode(w, "MULTI", FALSE), w)
  <2> DEFINE e == SetDisplayMode(w, "MULTI", FALSE)
  <2>1. /\ Sound(e) /\ (Drawn(w) => Drawn(e))
        /\ e.mDisplayMode = "MULTI" /\ e.shown = w.shown
        /\ e.mAccessoryDisplay = w.mAccessoryDisplay
        /\ e.mMainDisplayId = w.mMainDisplayId
    BY <1>2, SetDisplayModeSound DEF DisplayMode
  <2> HIDE DEF e
  <2>2. Keeps(e, w)
    BY <2>1 DEF Keeps, Remembers
  <2> QED BY <2>2 DEF e
<1>3. ASSUME w.mDisplayMode # "SINGLE_MAIN"
      PROVE  Keeps(SetDisplayMode(w, "SINGLE_ACCESSORY", FALSE), w)
  <2> DEFINE e == SetDisplayMode(w, "SINGLE_ACCESSORY", FALSE)
  <2>typed. /\ w.mAccessoryDisplay
            /\ w.mDisplayMode \in {"MULTI", "SINGLE_ACCESSORY"}
            /\ "SINGLE_ACCESSORY" \in DisplayMode
    BY <1>1, <1>3 DEF DisplayMode
  <2>1. /\ Sound(e) /\ (Drawn(w) => Drawn(e))
        /\ e.mDisplayMode = "SINGLE_ACCESSORY" /\ e.shown = w.shown
        /\ e.mAccessoryDisplay = w.mAccessoryDisplay
        /\ e.mMainDisplayId = w.mMainDisplayId
    BY <2>typed, SetDisplayModeSound
  <2> HIDE DEF e
  <2>2. Keeps(e, w)
    BY <2>1 DEF Keeps, Remembers
  <2> QED BY <2>2 DEF e
<1>4. ASSUME w.mDisplayMode = "MULTI"
      PROVE  Keeps(SetDisplayMode(w, "SINGLE_MAIN", FALSE), w)
  <2> DEFINE e == SetDisplayMode(w, "SINGLE_MAIN", FALSE)
  <2>1. /\ Sound(e) /\ (Drawn(w) => Drawn(e))
        /\ e.mLastDisplayMode = "MULTI" /\ e.shown = w.shown
        /\ e.mAccessoryDisplay = w.mAccessoryDisplay
        /\ e.mMainDisplayId = w.mMainDisplayId
    BY <1>4, SetDisplayModeSound DEF DisplayMode
  <2> HIDE DEF e
  <2>2. Keeps(e, w)
    BY <2>1 DEF Keeps, Remembers
  <2> QED BY <2>2 DEF e
<1> QED BY <1>2, <1>3, <1>4

LEMMA SwitchOrientationSound ==
    ASSUME NEW w, Sound(w), NEW isMain \in BOOLEAN, NEW changed \in BOOLEAN
    PROVE  Keeps(SwitchOrientation(w, isMain, changed), w)
<1>1. Keeps(w, w)
  BY DEF Keeps
<1>2. w.mLastDisplayMode = "MULTI" => w.mAccessoryDisplay
  BY DEF Sound
<1> QED BY <1>1, <1>2, ModeChangesKeep
        DEF SwitchOrientation, SwitchPortrait, SwitchLandscape

LEMMA FitToScreenSound ==
    ASSUME NEW w, Sound(w)
    PROVE  /\ Keeps(FitToScreen(w), w)
           /\ Keeps(AutoAdjustMultiplier(w), w)
<1>1. Keeps(w, w)
  BY DEF Keeps
<1>2. w.mDisplayMode = "SINGLE_ACCESSORY" => w.mAccessoryDisplay
  BY DEF Sound
<1>3. Keeps(AutoAdjustMultiplier(w), w)
  BY <1>1, ModeChangesKeep DEF AutoAdjustMultiplier
<1> QED BY <1>1, <1>2, <1>3, ModeChangesKeep DEF FitToScreen

-----------------------------------------------------------------------------
(* Sizes and widgets                                                       *)

\* A window whose handler has ended: updates and widgets follow the mode.
Settled(w) == /\ Sound(w)
              /\ Drawn(w)
              /\ w.visible = ShownIn(w.mDisplayMode)

LEMMA SetDisplaySizeSettles ==
    ASSUME NEW w, Sound(w), Drawn(w)
    PROVE  LET e == SetDisplaySize(w)
           IN  /\ Settled(e)
               /\ Remembers(w) => Remembers(e)
               /\ e.mMainDisplayId = w.mMainDisplayId
               /\ e.mAccessoryDisplay = w.mAccessoryDisplay
<1> DEFINE v == [d \in Displays |-> /\ ShownIn(w.mDisplayMode)[d]
                                    /\ d = "accessory" => w.mAccessoryDisplay]
           e == [w EXCEPT !.visible = v]
<1>1. w \in Window /\ w.mDisplayMode \in DisplayMode
  BY DEF Sound, Window
<1>2. v = ShownIn(w.mDisplayMode)
  <2>1. v["main"] = ShownIn(w.mDisplayMode)["main"]
    BY <1>1, ShownInType DEF Displays
  <2>2. v["accessory"] = ShownIn(w.mDisplayMode)["accessory"]
    BY <1>1, ShownInType DEF Displays, Sound
  <2> QED BY <1>1, <2>1, <2>2, ShownInType DEF Displays
<1>3. v \in [Displays -> BOOLEAN]
  BY <1>1, <1>2, ShownInType
<1> HIDE DEF v
<1>4. /\ e \in Window
      /\ e.visible = v
      /\ e.mDisplayMode = w.mDisplayMode
      /\ e.mLastDisplayMode = w.mLastDisplayMode
      /\ e.mAccessoryDisplay = w.mAccessoryDisplay
      /\ e.mAccessoryDisplayId = w.mAccessoryDisplayId
      /\ e.mMainDisplayId = w.mMainDisplayId
      /\ e.enabled = w.enabled /\ e.shown = w.shown
  BY <1>1, <1>3 DEF Window
<1> HIDE DEF e
<1>5. Sound(e)
  BY <1>4 DEF Sound
<1>6. Drawn(e) /\ (Remembers(w) => Remembers(e))
  BY <1>4 DEF Drawn, Remembers
<1>7. e.visible = ShownIn(e.mDisplayMode)
  BY <1>2, <1>4
<1>8. SetDisplaySize(w) = e
  BY DEF SetDisplaySize, e, v
<1> QED BY <1>4, <1>5, <1>6, <1>7, <1>8 DEF Settled

\* Changes of the fields that no part of Sound speaks of.
LEMMA OtherFields ==
    ASSUME NEW w, Sound(w), NEW r \in Rotations, NEW b \in BOOLEAN,
           NEW id \in {NoId, MainId, AccessoryId},
           NEW e \in {[w EXCEPT !.rotation = r],
                      [w EXCEPT !.fullScreen = b],
                      [w EXCEPT !.mWindowUnfocused = b],
                      [w EXCEPT !.mCurrentFocusedDisplayId = id],
                      [w EXCEPT !.mCurrentFocusedDisplayId = id,
                                !.mWindowUnfocused = FALSE]}
    PROVE  /\ Sound(e)
           /\ Drawn(w) => Drawn(e)
           /\ Settled(w) => Settled(e)
           /\ Remembers(w) => Remembers(e)
           /\ e.mMainDisplayId = w.mMainDisplayId
           /\ e.mAccessoryDisplayId = w.mAccessoryDisplayId
           /\ e.mDisplayMode = w.mDisplayMode
           /\ e.shown = w.shown
<1>1. w \in Window
  BY DEF Sound
<1>2. /\ e \in Window
      /\ e.mDisplayMode = w.mDisplayMode
      /\ e.mLastDisplayMode = w.mLastDisplayMode
      /\ e.mAccessoryDisplay = w.mAccessoryDisplay
      /\ e.mAccessoryDisplayId = w.mAccessoryDisplayId
      /\ e.mMainDisplayId = w.mMainDisplayId
      /\ e.enabled = w.enabled /\ e.shown = w.shown
      /\ e.visible = w.visible
  <2>1. CASE e = [w EXCEPT !.rotation = r]
    BY <1>1, <2>1 DEF Window
  <2>2. CASE e = [w EXCEPT !.fullScreen = b]
    BY <1>1, <2>2 DEF Window
  <2>3. CASE e = [w EXCEPT !.mWindowUnfocused = b]
    BY <1>1, <2>3 DEF Window
  <2>4. CASE e = [w EXCEPT !.mCurrentFocusedDisplayId = id]
    BY <1>1, <2>4 DEF Window
  <2>5. CASE e = [w EXCEPT !.mCurrentFocusedDisplayId = id,
                            !.mWindowUnfocused = FALSE]
    BY <1>1, <2>5 DEF Window
  <2> QED BY <2>1, <2>2, <2>3, <2>4, <2>5
<1>3. Sound(e)
  BY <1>2 DEF Sound
<1>4. (Drawn(w) => Drawn(e)) /\ (Remembers(w) => Remembers(e))
  BY <1>2 DEF Drawn, Remembers
<1> QED BY <1>2, <1>3, <1>4 DEF Settled

LEMMA ResizeSettles ==
    ASSUME NEW w, Sound(w), Drawn(w),
           NEW isMain \in BOOLEAN, NEW changed \in BOOLEAN
    PROVE  /\ Settled(ResizeNormalScreen(w, isMain, changed))
           /\ Settled(ResizeFullScreen(w, isMain, changed))
           /\ Settled(ResizeWindow(w, isMain, changed))
           /\ Remembers(w) =>
                  /\ Remembers(ResizeNormalScreen(w, isMain, changed))
                  /\ Remembers(ResizeFullScreen(w, isMain, changed))
                  /\ Remembers(ResizeWindow(w, isMain, changed))
<1> DEFINE s == SwitchOrientation(w, isMain, changed)
           f == FitToScreen(s)
<1>1. Keeps(s, w)
  BY SwitchOrientationSound
<1> HIDE DEF s
<1>2. Keeps(f, s)
  BY <1>1, FitToScreenSound DEF Keeps
<1> HIDE DEF f
<1>3. /\ Sound(s) /\ Drawn(s) /\ (Remembers(w) => Remembers(s))
      /\ Sound(f) /\ Drawn(f) /\ (Remembers(w) => Remembers(f))
  BY <1>1, <1>2 DEF Keeps
<1>4. /\ Settled(SetDisplaySize(s)) /\ Settled(SetDisplaySize(f))
      /\ Remembers(w) => /\ Remembers(SetDisplaySize(s))
                         /\ Remembers(SetDisplaySize(f))
  BY <1>3, SetDisplaySizeSettles
<1> QED BY <1>4
        DEF ResizeWindow, ResizeNormalScreen, ResizeFullScreen, s, f

\* What comes before showDisplays: an id, or the window itself.
LEMMA ConnectedSound ==
    ASSUME NEW w, Sound(w), NEW b \in BOOLEAN,
           NEW e \in {[w EXCEPT !.mMainDisplayId = MainId],
                      [w EXCEPT !.shown = b]}
    PROVE  /\ Sound(e)
           /\ e.visible = w.visible
           /\ e.mDisplayMode = w.mDisplayMode
           /\ e.mLastDisplayMode = w.mLastDisplayMode
           /\ e = [w EXCEPT !.shown = b] => e.shown = b
<1>1. w \in Window
  BY DEF Sound
<1>2. /\ e \in Window
      /\ e.mDisplayMode = w.mDisplayMode
      /\ e.mLastDisplayMode = w.mLastDisplayMode
      /\ e.mAccessoryDisplay = w.mAccessoryDisplay
      /\ e.mAccessoryDisplayId = w.mAccessoryDisplayId
      /\ e.visible = w.visible
      /\ e.enabled = w.enabled
      /\ e = [w EXCEPT !.shown = b] => e.shown = b
  BY <1>1 DEF Window
<1>3. Sound(e)
  BY <1>2 DEF Sound
<1> QED BY <1>2, <1>3

LEMMA ShowSettles ==
    ASSUME NEW w, Sound(w), w.visible = ShownIn(w.mDisplayMode)
    PROVE  /\ Settled(ShowDisplays(w))
           /\ Remembers(w) => Remembers(ShowDisplays(w))
           /\ ShowDisplays(w).mMainDisplayId = w.mMainDisplayId
<1> DEFINE e == ShowDisplays(w)
<1>1. Sound(e) /\ Drawn(e) /\ SameButUpdates(e, w)
  BY ShowDisplaysSound
<1> HIDE DEF e
<1>2. Settled(e) /\ (Remembers(w) => Remembers(e))
  BY <1>1 DEF SameButUpdates, Settled, Remembers
<1> QED BY <1>1, <1>2 DEF e, SameButUpdates

\* A window that is being shown.
LEMMA ShowWindowSettles ==
    ASSUME NEW w, Sound(w), w.visible = ShownIn(w.mDisplayMode)
    PROVE  LET e == ShowDisplays([w EXCEPT !.shown = TRUE])
           IN  /\ Settled(e)
               /\ Remembers(w) => Remembers(e)
<1> DEFINE v == [w EXCEPT !.shown = TRUE]
<1>1. /\ Sound(v)
      /\ v.visible = w.visible
      /\ v.mDisplayMode = w.mDisplayMode
      /\ v.mLastDisplayMode = w.mLastDisplayMode
  BY ConnectedSound
<1> HIDE DEF v
<1>2. Remembers(w) => Remembers(v)
  BY <1>1 DEF Remembers
<1>3. Settled(ShowDisplays(v)) /\ (Remembers(v) => Remembers(ShowDisplays(v)))
  BY <1>1, ShowSettles
<1> QED BY <1>2, <1>3 DEF v

LEMMA SetDefaultWindowSizeSettles ==
    ASSUME NEW w, Settled(w)
    PROVE  /\ Settled(SetDefaultWindowSize(w))
           /\ Remembers(w) => Remembers(SetDefaultWindowSize(w))
<1> DEFINE n == IF w.fullScreen /\ ~w.shown
                THEN ShowDisplays([w EXCEPT !.shown = TRUE])
                ELSE w
           u == [n EXCEPT !.fullScreen = FALSE]
           m == (n.mDisplayMode # "SINGLE_ACCESSORY")
<1>1. Settled(n) /\ (Remembers(w) => Remembers(n))
  BY ShowWindowSettles DEF Settled
<1> HIDE DEF n
<1>2. Settled(u) /\ (Remembers(n) => Remembers(u))
  <2>1. u \in {[n EXCEPT !.fullScreen = FALSE]} /\ 0 \in Rotations
    BY RotationsAssumption
  <2>2. Sound(n)
    BY <1>1 DEF Settled
  <2> QED BY <1>1, <2>1, <2>2, OtherFields
<1> HIDE DEF u
<1>3. m \in BOOLEAN
  OBVIOUS
<1> HIDE DEF m
<1>4. /\ Settled(ResizeNormalScreen(u, m, FALSE))
      /\ Remembers(u) => Remembers(ResizeNormalScreen(u, m, FALSE))
  BY <1>2, <1>3, ResizeSettles DEF Settled
<1> QED BY <1>1, <1>2, <1>4 DEF SetDefaultWindowSize, n, u, m

LEMMA CreateAccessoryDisplaySettles ==
    ASSUME NEW w, Settled(w), ~w.mAccessoryDisplay
    PROVE  /\ Settled(CreateAccessoryDisplay(w, AccessoryId))
           /\ CreateAccessoryDisplay(w, AccessoryId).mAccessoryDisplay
           /\ CreateAccessoryDisplay(w, AccessoryId).mMainDisplayId
                  = w.mMainDisplayId
           /\ CreateAccessoryDisplay(w, AccessoryId).mDisplayMode
                  = w.mDisplayMode
<1> DEFINE e == CreateAccessoryDisplay(w, AccessoryId)
<1>1. w \in Window /\ w.mDisplayMode = "SINGLE_MAIN"
  BY DEF Settled, Sound, Window
<1>2. w.visible = [w.visible EXCEPT !["accessory"] = FALSE]
  <2>1. /\ w.visible = ShownIn("SINGLE_MAIN")
        /\ ShownIn("SINGLE_MAIN") \in [Displays -> BOOLEAN]
        /\ ShownIn("SINGLE_MAIN")["accessory"] = FALSE
    BY <1>1, ShownInType DEF Settled, DisplayMode
  <2> QED BY <2>1 DEF Displays
<1>3. /\ e \in Window
      /\ e.mDisplayMode = w.mDisplayMode
      /\ e.mLastDisplayMode = w.mLastDisplayMode
      /\ e.mMainDisplayId = w.mMainDisplayId
      /\ e.mAccessoryDisplay = TRUE
      /\ e.mAccessoryDisplayId = AccessoryId
      /\ e.visible = w.visible
      /\ e.enabled = w.enabled
      /\ e.shown = w.shown
  BY <1>1, <1>2 DEF Window, CreateAccessoryDisplay, Displays
<1> HIDE DEF e
<1>4. Sound(e) /\ Drawn(e)
  BY <1>3 DEF Settled, Sound, Drawn
<1> QED BY <1>3, <1>4 DEF Settled, e

LEMMA ChangeMultiplierSettles ==
    ASSUME NEW w, Settled(w), w.mAccessoryDisplay, NEW enable \in BOOLEAN,
           w.mDisplayMode # IF enable THEN "MULTI" ELSE "SINGLE_MAIN"
    PROVE  /\ Settled(ChangeMultiplier(w, enable))
           /\ enable => Remembers(ChangeMultiplier(w, enable))
           /\ ChangeMultiplier(w, enable).mMainDisplayId = w.mMainDisplayId
           /\ ChangeMultiplier(w, enable).mAccessoryDisplay
<1> DEFINE mode == IF enable THEN "MULTI" ELSE "SINGLE_MAIN"
           s == SetDisplayMode(w, mode, TRUE)
           a == AutoAdjustMultiplier(s)
<1>1. /\ mode \in DisplayMode /\ mode # "SINGLE_ACCESSORY"
      /\ w.mDisplayMode # mode
      /\ enable => mode = "MULTI"
  BY DEF DisplayMode
<1>2. Sound(w) /\ Drawn(w)
  BY DEF Settled
<1> HIDE DEF mode
<1>3. /\ Sound(s) /\ Drawn(s) /\ s.mDisplayMode = mode
      /\ s.mMainDisplayId = w.mMainDisplayId /\ s.mAccessoryDisplay
  BY <1>1, <1>2, SetDisplayModeSound
<1> HIDE DEF s
<1>4. Keeps(a, s)
  BY <1>3, FitToScreenSound
<1> HIDE DEF a
<1>5. /\ Sound(a) /\ Drawn(a) /\ (enable => Remembers(a))
      /\ a.mMainDisplayId = w.mMainDisplayId /\ a.mAccessoryDisplay
  BY <1>1, <1>3, <1>4 DEF Keeps, Remembers
<1>6. /\ Settled(SetDisplaySize(a))
      /\ enable => Remembers(SetDisplaySize(a))
      /\ SetDisplaySize(a).mMainDisplayId = w.mMainDisplayId
      /\ SetDisplaySize(a).mAccessoryDisplay
  BY <1>5, SetDisplaySizeSettles
<1> QED BY <1>6 DEF ChangeMultiplier, mode, s, a

-----------------------------------------------------------------------------
(* The input focus                                                         *)

FocusIds == {0, -MainId, 1, NoId, MainId, AccessoryId}

LEMMA FocusDisplaySettles ==
    ASSUME inputFocus \in FocusIds,
           NEW w, Settled(w), NEW id, NEW force \in BOOLEAN,
           FocusDisplayByDisplayId(w, id, force)
    PROVE  /\ Settled(win')
           /\ Remembers(w) => Remembers(win')
           /\ inputFocus' \in FocusIds
<1> DEFINE e == [w EXCEPT !.mCurrentFocusedDisplayId = id]
<1>1. CASE FocusSent(w, id, force)
  <2>1. id \in {NoId, MainId, AccessoryId}
    BY <1>1 DEF FocusSent, Settled, Sound, Window
  <2>2. Settled(e) /\ (Remembers(w) => Remembers(e))
    BY <2>1, OtherFields, RotationsAssumption DEF Settled
  <2>3. win' = e /\ inputFocus' = id
    BY <1>1 DEF FocusDisplayByDisplayId
  <2> QED BY <2>1, <2>2, <2>3 DEF FocusIds
<1>2. CASE ~FocusSent(w, id, force)
  BY <1>2 DEF FocusDisplayByDisplayId
<1> QED BY <1>1, <1>2

LEMMA FocusWindowSettles ==
    ASSUME inputFocus \in FocusIds,
           NEW w, Settled(w), FocusWindow(w)
    PROVE  /\ Settled(win')
           /\ Remembers(w) => Remembers(win')
           /\ inputFocus' \in FocusIds
<1> DEFINE id == IF w.mCurrentFocusedDisplayId
                       \in {w.mMainDisplayId, w.mAccessoryDisplayId}
                 THEN w.mCurrentFocusedDisplayId
                 ELSE IF w.mDisplayMode = "SINGLE_ACCESSORY"
                 THEN w.mAccessoryDisplayId
                 ELSE w.mMainDisplayId
           e == [w EXCEPT !.mCurrentFocusedDisplayId = id,
                          !.mWindowUnfocused = FALSE]
<1>1. id \in {NoId, MainId, AccessoryId}
  BY DEF Settled, Sound, Window
<1>2. FocusDisplayByDisplayId(e, id, TRUE)
  BY DEF FocusWindow
<1> HIDE DEF id
<1>3. Settled(e) /\ (Remembers(w) => Remembers(e))
  BY <1>1, OtherFields, RotationsAssumption DEF Settled
<1> HIDE DEF e
<1> QED BY <1>2, <1>3, FocusDisplaySettles

-----------------------------------------------------------------------------
(* The inductive invariant                                                 *)

ModesInv ==
    /\ Settled(win)
    /\ parallel => Remembers(win)
    /\ screen \in Orientations
    /\ inputFocus \in FocusIds
    /\ frameRotation \in [Displays -> Rotations \cup {NoRotation}]
    /\ signals \in Seq([display : Displays, rotation : Rotations])
    /\ parallel \in BOOLEAN

LEMMA InvInit == Init => ModesInv
<1> SUFFICES ASSUME Init PROVE ModesInv
  OBVIOUS
<1>1. /\ "SINGLE_MAIN" \in DisplayMode
      /\ ShownIn("SINGLE_MAIN") \in [Displays -> BOOLEAN]
      /\ [d \in Displays |-> FALSE] \in [Displays -> BOOLEAN]
  BY ShownInType DEF DisplayMode
<1>2. /\ win \in Window
      /\ win.mDisplayMode = "SINGLE_MAIN"
      /\ win.mLastDisplayMode = "SINGLE_MAIN"
      /\ win.mMainDisplayId = NoId
      /\ win.mAccessoryDisplay = FALSE
      /\ win.visible = ShownIn("SINGLE_MAIN")
      /\ win.enabled = [d \in Displays |-> FALSE]
  BY <1>1, RotationsAssumption DEF Init, Window
<1>3. Settled(win)
  BY <1>2 DEF Settled, Sound, Drawn, Displays
<1>4. /\ screen \in Orientations
      /\ inputFocus \in FocusIds
      /\ signals \in Seq([display : Displays, rotation : Rotations])
  BY DEF Init, FocusIds
<1>5. frameRotation \in [Displays -> Rotations \cup {NoRotation}]
  BY RotationsAssumption DEF Init
<1>6. parallel = FALSE
  BY DEF Init
<1> QED BY <1>3, <1>4, <1>5, <1>6 DEF ModesInv

LEMMA HeadOfSignals ==
    ASSUME signals \in Seq([display : Displays, rotation : Rotations]),
           signals # <<>>
    PROVE  /\ Head(signals).rotation \in Rotations
           /\ Tail(signals) \in
                  Seq([display : Displays, rotation : Rotations])
<1>1. /\ Head(signals) \in [display : Displays, rotation : Rotations]
      /\ Tail(signals) \in Seq([display : Displays, rotation : Rotations])
  BY HeadTailProperties
<1> QED BY <1>1

LEMMA InvStep == ModesInv /\ [Next]_vars => ModesInv'
<1> SUFFICES ASSUME ModesInv, [Next]_vars PROVE ModesInv'
  OBVIOUS
<1>inv. /\ Settled(win) /\ Sound(win)
        /\ win.visible = ShownIn(win.mDisplayMode)
        /\ win.mAccessoryDisplay \in BOOLEAN
  BY DEF ModesInv, Settled, Sound, Window
<1>rest. ASSUME Settled(win'), Remembers(win) => Remembers(win'),
                UNCHANGED <<screen, inputFocus, frameRotation, signals, parallel>>
         PROVE  ModesInv'
  BY <1>rest DEF ModesInv, Settled, Sound, Drawn, Remembers
<1>1. CASE LaunchCompleted
  <2> DEFINE c == [win EXCEPT !.mMainDisplayId = MainId]
             s == ShowDisplays([c EXCEPT !.shown = TRUE])
             f == [s EXCEPT !.mCurrentFocusedDisplayId = MainId]
  <2>1. /\ Sound(c) /\ c.visible = ShownIn(c.mDisplayMode)
        /\ Remembers(win) => Remembers(c)
    BY <1>inv, ConnectedSound DEF Remembers
  <2>2. IF win.mWindowUnfocused
        THEN win' = s /\ UNCHANGED inputFocus
        ELSE FocusWindow(f)
    BY <1>1 DEF LaunchCompleted
  <2>3. UNCHANGED <<screen, frameRotation, signals, parallel>>
    BY <1>1 DEF LaunchCompleted
  <2> HIDE DEF c
  <2>4. Settled(s) /\ (Remembers(c) => Remembers(s))
    BY <2>1, ShowWindowSettles
  <2> HIDE DEF s
  <2>5. Settled(f) /\ (Remembers(s) => Remembers(f))
    BY <2>4, OtherFields, RotationsAssumption DEF Settled
  <2> HIDE DEF f
  <2>6. /\ Settled(win') /\ (Remembers(win) => Remembers(win'))
        /\ inputFocus' \in FocusIds
    BY <2>1, <2>2, <2>4, <2>5, FocusWindowSettles DEF ModesInv
  <2> QED BY <2>3, <2>6 DEF ModesInv, Settled, Sound, Drawn, Remembers
<1>2. CASE CreateAccessoryDisplayFailed
  <2> DEFINE e == [win EXCEPT !.mAccessoryDisplayId = AccessoryId]
  <2>1. win \in Window /\ win' = e /\ ~win.mAccessoryDisplay
    BY <1>2, <1>inv DEF CreateAccessoryDisplayFailed, Sound
  <2>2. /\ e \in Window
        /\ e.mDisplayMode = win.mDisplayMode
        /\ e.mLastDisplayMode = win.mLastDisplayMode
        /\ e.mMainDisplayId = win.mMainDisplayId
        /\ e.mAccessoryDisplay = win.mAccessoryDisplay
        /\ e.visible = win.visible /\ e.enabled = win.enabled
        /\ e.shown = win.shown
    BY <2>1 DEF Window
  <2> HIDE DEF e
  <2>3. Settled(e) /\ (Remembers(win) => Remembers(e))
    BY <1>inv, <2>1, <2>2 DEF Settled, Sound, Drawn, Remembers
  <2> QED BY <1>2, <1>rest, <2>1, <2>3 DEF CreateAccessoryDisplayFailed
<1>3. ASSUME NEW id \in {0, AccessoryId}, NEW enable \in BOOLEAN,
             OnMultiplierSwitch(id, enable)
      PROVE  ModesInv'
  <2> DEFINE w == IF win.mAccessoryDisplay
                  THEN win ELSE CreateAccessoryDisplay(win, id)
             changed == (w.mDisplayMode #
                            IF enable THEN "MULTI" ELSE "SINGLE_MAIN")
             c == IF changed THEN ChangeMultiplier(w, enable) ELSE w
             d == IF enable THEN w.mAccessoryDisplayId ELSE w.mMainDisplayId
  <2>1. /\ FocusDisplayByDisplayId(c, d, changed)
        /\ parallel' = enable
        /\ UNCHANGED <<screen, frameRotation, signals>>
    BY <1>3 DEF OnMultiplierSwitch, SwitchMultiplier
  <2>2. win.mAccessoryDisplay \/ id = AccessoryId
    BY <1>3 DEF OnMultiplierSwitch
  <2>3. Settled(w) /\ w.mAccessoryDisplay
    BY <1>inv, <2>2, CreateAccessoryDisplaySettles
  <2> HIDE DEF w
  <2>4. changed \in BOOLEAN
    OBVIOUS
  <2>5. Settled(c) /\ (enable => Remembers(c))
    BY <2>3, ChangeMultiplierSettles DEF Remembers
  <2> HIDE DEF c, d, changed
  <2>6. /\ Settled(win') /\ (Remembers(c) => Remembers(win'))
        /\ inputFocus' \in FocusIds
    BY <2>1, <2>4, <2>5, FocusDisplaySettles DEF ModesInv
  <2>7. Settled(win)' /\ (parallel => Remembers(win))'
    BY <2>1, <2>5, <2>6 DEF Settled, Sound, Drawn, Remembers
  <2> QED BY <2>1, <2>6, <2>7 DEF ModesInv
<1>4. ASSUME NEW d \in Displays, NEW r \in Rotations, FrameRotated(d, r)
      PROVE  ModesInv'
  <2>1. /\ frameRotation' \in [Displays -> Rotations \cup {NoRotation}]
        /\ signals' \in Seq([display : Displays, rotation : Rotations])
        /\ UNCHANGED <<win, screen, inputFocus, parallel>>
    BY <1>4 DEF FrameRotated, ModesInv
  <2> QED BY <2>1 DEF ModesInv, Settled, Sound, Drawn, Remembers
<1>5. CASE OnDisplayRotationChanged
  <2> DEFINE g == Head(signals)
             r == [win EXCEPT !.rotation = g.rotation]
             isMain == (g.display = "main")
             changed == (win.rotation # g.rotation)
  <2>1. /\ win' = ResizeWindow(r, isMain, changed)
        /\ signals' = Tail(signals) /\ signals # <<>>
        /\ UNCHANGED <<screen, inputFocus, frameRotation, parallel>>
    BY <1>5 DEF OnDisplayRotationChanged
  <2>2. /\ g.rotation \in Rotations
        /\ signals' \in Seq([display : Displays, rotation : Rotations])
    BY <2>1, HeadOfSignals DEF ModesInv
  <2>3. isMain \in BOOLEAN /\ changed \in BOOLEAN
    OBVIOUS
  <2> HIDE DEF isMain, changed, g
  <2>4. Settled(r) /\ (Remembers(win) => Remembers(r))
    BY <1>inv, <2>2, OtherFields
  <2> HIDE DEF r
  <2>5. Settled(win') /\ (Remembers(win) => Remembers(win'))
    BY <2>1, <2>3, <2>4, ResizeSettles DEF Settled
  <2> QED BY <2>1, <2>2, <2>5 DEF ModesInv, Settled, Sound, Drawn, Remembers
<1>6. CASE HideEvent
  <2> DEFINE e == [win EXCEPT !.shown = FALSE]
             h == HideDisplays(e)
  <2>1. /\ Sound(e) /\ e.visible = win.visible /\ e.shown = FALSE
        /\ e.mDisplayMode = win.mDisplayMode
        /\ e.mLastDisplayMode = win.mLastDisplayMode
    BY <1>inv, ConnectedSound
  <2> HIDE DEF e
  <2>2. Sound(h) /\ SameButUpdates(h, e)
    BY <2>1, HideDisplaysSound
  <2> HIDE DEF h
  <2>3. Settled(h) /\ (Remembers(win) => Remembers(h))
    BY <1>inv, <2>1, <2>2 DEF Settled, Drawn, SameButUpdates, Remembers
  <2> QED BY <1>6, <1>rest, <2>3 DEF HideEvent, h, e
<1>7. CASE ShowMainWindow
  BY <1>7, <1>rest, <1>inv, ShowWindowSettles DEF ShowMainWindow
<1>8. CASE EnterFullscreen
  <2> DEFINE e == [win EXCEPT !.fullScreen = TRUE]
             m == (win.mDisplayMode # "SINGLE_ACCESSORY")
  <2>1. Settled(e) /\ (Remembers(win) => Remembers(e))
    BY <1>inv, OtherFields, RotationsAssumption
  <2>2. m \in BOOLEAN
    OBVIOUS
  <2>3. /\ win' = ResizeFullScreen(e, m, FALSE)
        /\ UNCHANGED <<screen, inputFocus, frameRotation, signals, parallel>>
    BY <1>8 DEF EnterFullscreen
  <2> HIDE DEF e, m
  <2>4. Settled(win') /\ (Remembers(win) => Remembers(win'))
    BY <2>1, <2>2, <2>3, ResizeSettles DEF Settled
  <2> QED BY <1>rest, <2>3, <2>4
<1>9. CASE ExitFullscreen
  BY <1>9, <1>rest, <1>inv, SetDefaultWindowSizeSettles DEF ExitFullscreen
<1>10. ASSUME NEW o \in Orientations, ScreenChanged(o)
       PROVE  ModesInv'
  <2>1. Settled(win') /\ (Remembers(win) => Remembers(win'))
    BY <1>10, <1>inv, SetDefaultWindowSizeSettles DEF ScreenChanged
  <2> QED BY <1>10, <2>1
          DEF ScreenChanged, ModesInv, Settled, Sound, Drawn, Remembers
<1>11. CASE PanelResized
  <2>1. Settled(win') /\ (Remembers(win) => Remembers(win'))
    BY <1>11, <1>inv, ResizeSettles DEF PanelResized, Settled
  <2> QED BY <1>11, <1>rest, <2>1 DEF PanelResized
<1>focus. ASSUME /\ Settled(win') /\ (Remembers(win) => Remembers(win'))
                 /\ inputFocus' \in FocusIds,
                 UNCHANGED <<screen, frameRotation, signals, parallel>>
          PROVE  ModesInv'
  BY <1>focus DEF ModesInv, Settled, Sound, Drawn, Remembers
<1>12. CASE FocusIn
  <2>1. /\ FocusWindow(win)
        /\ UNCHANGED <<screen, frameRotation, signals, parallel>>
    BY <1>12 DEF FocusIn
  <2> QED BY <1>inv, <1>focus, <2>1, FocusWindowSettles DEF ModesInv
<1>13. CASE FocusOut
  <2> DEFINE e == [win EXCEPT !.mWindowUnfocused = TRUE]
  <2>1. Settled(e) /\ (Remembers(win) => Remembers(e))
    BY <1>inv, OtherFields, RotationsAssumption
  <2>2. -win.mMainDisplayId \in FocusIds
    BY <1>inv, IdsAssumption DEF Sound, Window, FocusIds, NoId
  <2> QED BY <1>13, <1>focus, <2>1, <2>2 DEF FocusOut
<1>14. CASE FocusElsewhere
  BY <1>14, <1>inv, <1>focus DEF FocusElsewhere, FocusIds
<1>15. ASSUME NEW d \in Displays, Click(d)
       PROVE  ModesInv'
  <2> DEFINE id == IF d = "main" THEN win.mMainDisplayId
                                 ELSE win.mAccessoryDisplayId
  <2>1. /\ FocusDisplayByDisplayId(win, id, FALSE)
        /\ UNCHANGED <<screen, frameRotation, signals, parallel>>
    BY <1>15 DEF Click
  <2> HIDE DEF id
  <2> QED BY <1>inv, <1>focus, <2>1, FocusDisplaySettles DEF ModesInv
<1>16. CASE UNCHANGED vars
  BY <1>16 DEF vars, ModesInv, Settled, Sound, Drawn, Remembers
<1> QED BY <1>1, <1>2, <1>3, <1>4, <1>5, <1>6, <1>7, <1>8, <1>9, <1>10,
           <1>11, <1>12, <1>13, <1>14, <1>15, <1>16 DEF Next

LEMMA InvAlways == Spec => []ModesInv
<1> QED BY InvInit, InvStep, PTL DEF Spec

-----------------------------------------------------------------------------
(* Theorems                                                                *)

\* The state of a window's displays is well typed.
THEOREM TypeCorrect == Spec => []TypeOK
<1>1. ModesInv => TypeOK
  BY DEF ModesInv, Settled, Sound, FocusIds, TypeOK
<1> QED BY <1>1, InvAlways, PTL

\* setDisplaySize has come after the last change of the mode, whatever the
\* sequence of rotations, switches, screens and full screens.
THEOREM WidgetsFollowMode == Spec => []VisibleFollowsMode
<1>1. ModesInv => VisibleFollowsMode
  BY DEF ModesInv, Settled, VisibleFollowsMode
<1> QED BY <1>1, InvAlways, PTL

\* A window on the screen draws the displays of its mode and no other: the
\* calls of showDisplays in setDisplayMode, show and showMainWindow are enough.
THEOREM DrawingFollowsMode == Spec => []UpdatesFollowMode
<1>1. ModesInv => UpdatesFollowMode
  BY DEF ModesInv, Settled, Drawn, UpdatesFollowMode
<1> QED BY <1>1, InvAlways, PTL

\* While the parallel view is on, mLastDisplayMode leads back to it.
THEOREM WayBackIsKept == Spec => []ParallelViewRemembered
<1>1. ModesInv => ParallelViewRemembered
  BY DEF ModesInv, Settled, Sound, Remembers, ParallelViewRemembered
<1> QED BY <1>1, InvAlways, PTL

\* The display that a multiplier switch turns to gets the input.
THEOREM SwitchMovesInput == Spec => SwitchedDisplayGetsInput
<1>1. ASSUME ModesInv, NEW id \in {0, AccessoryId}, NEW enable \in BOOLEAN,
             OnMultiplierSwitch(id, enable),
             win.mDisplayMode # IF enable THEN "MULTI" ELSE "SINGLE_MAIN"
      PROVE  inputFocus' = IF enable THEN AccessoryId ELSE win.mMainDisplayId
  <2> DEFINE w == IF win.mAccessoryDisplay
                  THEN win ELSE CreateAccessoryDisplay(win, id)
             c == ChangeMultiplier(w, enable)
             d == IF enable THEN w.mAccessoryDisplayId ELSE w.mMainDisplayId
  <2>1. /\ Settled(win) /\ win.mAccessoryDisplay \in BOOLEAN
        /\ win.mAccessoryDisplay \/ id = AccessoryId
    BY <1>1 DEF ModesInv, Settled, Sound, Window, OnMultiplierSwitch
  <2>2. /\ Settled(w) /\ w.mAccessoryDisplay
        /\ w.mMainDisplayId = win.mMainDisplayId
        /\ w.mDisplayMode = win.mDisplayMode
    BY <2>1, CreateAccessoryDisplaySettles
  <2>3. FocusDisplayByDisplayId(c, d, TRUE)
    BY <1>1, <2>2 DEF OnMultiplierSwitch, SwitchMultiplier
  <2>4. w.mAccessoryDisplayId = AccessoryId
    BY <2>2 DEF Settled, Sound
  <2> HIDE DEF w
  <2>5. /\ Settled(c) /\ c.mAccessoryDisplay
        /\ c.mMainDisplayId = w.mMainDisplayId
    BY <1>1, <2>2, ChangeMultiplierSettles
  <2>6. c.mAccessoryDisplayId = AccessoryId
    BY <2>5 DEF Settled, Sound
  <2> HIDE DEF c
  <2>7. FocusSent(c, d, TRUE)
    BY <2>4, <2>5, <2>6 DEF FocusSent
  <2>8. inputFocus' = d
    BY <2>3, <2>7 DEF FocusDisplayByDisplayId
  <2> QED BY <2>2, <2>4, <2>8
<1>2. ModesInv /\ [Next]_vars =>
          [\A id \in {0, AccessoryId}, enable \in BOOLEAN :
              /\ OnMultiplierSwitch(id, enable)
              /\ win.mDisplayMode # IF enable THEN "MULTI" ELSE "SINGLE_MAIN"
              => inputFocus' = IF enable THEN AccessoryId
                                         ELSE win.mMainDisplayId]_vars
  BY <1>1
<1> QED BY <1>2, InvAlways, PTL DEF Spec, SwitchedDisplayGetsInput
=============================================================================
