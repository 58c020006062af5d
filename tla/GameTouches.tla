---------------------------- MODULE GameTouches ----------------------------
(***************************************************************************)
(* KeyboardGamekeyManager: keys and mouse buttons of one window are turned *)
(* into touches of Android's screen.  A touch has a slot: the first free   *)
(* one of mButtonClickOrder, or one of three reserved for the direction    *)
(* wheel, the view wheel and the locked view.  Timers tap for combo keys   *)
(* and move the view, the widget's focus comes and goes with keys held     *)
(* down, EventManager drops what is sent while another display has the     *)
(* input, and the keys may be edited, or removed by a rotation, at any     *)
(* time.                                                                   *)
(*                                                                         *)
(* Game keys are the names that keys are configured under.  A name depends *)
(* on the modifiers at the moment of the event, so the release of a key    *)
(* may come under another name than its press (mapGameKeyModifiers).       *)
(* Positions are left out, except that the view may reach a border.        *)
(***************************************************************************)
EXTENDS Integers, FiniteSets

CONSTANTS
    N,             \* slots of mButtonClickOrder that any key may take (6)
    Clicks, Combos, Wheels, Views, Locks, Brains, Fires, \* keys by their type
    Others,        \* names that are not set to anything
    Buttons,       \* the names of mouse buttons; the left one can only fire
    Value,         \* what a wheel's or view's key adds to the direction
    Physical,      \* the key on the keyboard or mouse behind a name
    NoKey,
    MaxHeld,       \* bound: keys that are held down together
    MaxValue,      \* bound: sums of directions
    Reconfigured,  \* whether game keys are edited and removed
    InputMoves     \* whether the input goes to other displays on its own

Keys == UNION {Clicks, Combos, Wheels, Views, Locks, Brains, Fires, Others}

ASSUME SlotAssumption == N \in Nat \ {0} /\ MaxValue \in Nat
ASSUME KeyAssumption == NoKey \notin Keys /\ Value \in [Keys -> Int]
                        /\ Buttons \subseteq Keys
ASSUME KindAssumption ==
    \A k \in Keys :
        Cardinality({S \in {Clicks, Combos, Wheels, Views, Locks, Brains, Fires, Others} :
                        k \in S}) = 1

VARIABLES
    order,         \* mButtonClickOrder, the slots that any key may take
    fixed,         \* the reserved slots of mButtonClickOrder that are taken
    mPovValue, mViewValue,
    mViewTimer,    \* whether it runs
    mIsMouseClick, isViewLockPress,
    mBrainPressGameKey,  \* NoKey when isBrainPress is false
    tap,           \* the slot a combo key's timer taps, 0 when it is stopped
    dropped,       \* slots tapped by timers that mGameKeyMap has lost
    mGameKeyStatus,\* "use" (KeyMouseUse), "removed" (the same, but a rotation
                   \* has removed the keys) or "other"
    firstRepeat,
    held,          \* keys down on the keyboard and mouse
    focus,         \* the display widget has the keyboard's focus
    mWindowUnfocused,
    input,         \* EventManager::mFocusedDisplayId is this display
    down           \* external: the slots Android holds a touch in

touches == <<order, fixed, down>>
wheels == <<mPovValue, mViewValue, mViewTimer>>
lock == <<mIsMouseClick, isViewLockPress>>
timers == <<tap, dropped>>
focusing == <<focus, mWindowUnfocused, input>>
manager == <<touches, wheels, lock, mBrainPressGameKey, timers>>
vars == <<manager, mGameKeyStatus, firstRepeat, held, focusing>>

-----------------------------------------------------------------------------
(* Slots. No slot is -1: it is sent all the same, and means nothing there.  *)
Free == 1 .. N
None == -1
Dir == N + 1
View == N + 2
Move == N + 3
Fixed == {Dir, View, Move}
Slots == Free \cup {None}

\* The wheel stands still at 0; beyond 4 the sum is no direction.
Directions == (-4 .. 4) \ {0}

\* The first slot of order that holds k, in the order of the array.
First(k) ==
    IF \E i \in Free : order[i] = k
    THEN CHOOSE i \in Free : order[i] = k /\ \A j \in 1 .. i - 1 : order[j] # k
    ELSE None

\* order with entry k put into slot i, if there is one.
Entered(i, k) == IF i = None THEN order ELSE [order EXCEPT ![i] = k]

\* What Android sees of touches put down or lifted: nothing without the input.
Touched(S) == IF input THEN down \cup (S \ {None}) ELSE down
Lifted(S) == IF input THEN down \ S ELSE down

Init ==
    /\ order = [i \in Free |-> NoKey] /\ fixed = {} /\ down = {}
    /\ mPovValue = 0 /\ mViewValue = 0 /\ mViewTimer = FALSE
    /\ mIsMouseClick = TRUE /\ isViewLockPress = FALSE
    /\ mBrainPressGameKey = NoKey
    /\ tap = [k \in Combos |-> 0] /\ dropped = {}
    /\ mGameKeyStatus = "use"
    /\ firstRepeat = FALSE /\ held = {}
    /\ focus = TRUE /\ mWindowUnfocused = FALSE /\ input = TRUE

-----------------------------------------------------------------------------
(* keyboardGamekeyMethod, by the type of the key.                          *)

GameKeyPress(k) ==
    /\ order' = Entered(First(NoKey), k)
    /\ down' = Touched({First(NoKey)})

GameKeyRelease(k) ==
    /\ order' = Entered(First(k), NoKey)
    /\ down' = Lifted({First(k)})

ClickKey(k, pressed) ==
    /\ k \in Clicks
    /\ IF pressed THEN GameKeyPress(k) ELSE GameKeyRelease(k)
    /\ UNCHANGED <<fixed, wheels, lock, mBrainPressGameKey, timers>>

\* Only while the view is locked: the mouse then fires instead of clicking.
FireKey(k, pressed) ==
    /\ k \in Fires
    /\ IF mIsMouseClick THEN UNCHANGED <<order, down>>
       ELSE IF pressed THEN GameKeyPress(k) ELSE GameKeyRelease(k)
    /\ UNCHANGED <<fixed, wheels, lock, mBrainPressGameKey, timers>>

\* A tap puts its slot down and lifts it.
ComboPress(k) ==
    LET slot == First(NoKey) IN
    /\ order' = Entered(slot, k)
    /\ tap' = [tap EXCEPT ![k] = slot]
    /\ down' = IF tap[k] = 0 THEN Lifted({slot}) ELSE down

ComboRelease(k) ==
    /\ order' = Entered(First(k), NoKey)
    /\ tap' = [tap EXCEPT ![k] = 0]
    /\ UNCHANGED down

ComboKey(k, pressed) ==
    /\ k \in Combos
    /\ IF pressed THEN ComboPress(k) ELSE ComboRelease(k)
    /\ UNCHANGED <<fixed, wheels, lock, mBrainPressGameKey, dropped>>

Turned(value, k, pressed) == IF pressed THEN value + Value[k] ELSE value - Value[k]

\* Mutant: the wheel is not let go when the keys make no direction.
WheelKeyNoDefault(k, pressed) ==
    /\ k \in Wheels
    /\ mPovValue' = Turned(mPovValue, k, pressed)
    /\ mPovValue' \in -MaxValue .. MaxValue
    /\ LET touched == IF mPovValue = 0 THEN {Dir} ELSE {} IN
       fixed' = fixed \cup touched /\ down' = Touched(touched)
    /\ UNCHANGED <<order, mViewValue, mViewTimer, lock, mBrainPressGameKey, timers>>

\* wheelGamekey: the wheel is touched when it leaves 0, whether a key was
\* pressed or released, and let go when the sum is no direction.
WheelKey(k, pressed) ==
    /\ k \in Wheels
    /\ mPovValue' = Turned(mPovValue, k, pressed)
    /\ mPovValue' \in -MaxValue .. MaxValue
    /\ LET touched == IF mPovValue = 0 THEN {Dir} ELSE {} IN
       IF mPovValue' \in Directions
       THEN fixed' = fixed \cup touched /\ down' = Touched(touched)
       ELSE fixed' = fixed \ {Dir} /\ down' = Lifted({Dir})
    /\ UNCHANGED <<order, mViewValue, mViewTimer, lock, mBrainPressGameKey, timers>>

\* The view's touch is left to mViewTimer.
ViewKey(k, pressed) ==
    /\ k \in Views
    /\ mViewValue' = Turned(mViewValue, k, pressed)
    /\ mViewValue' \in -MaxValue .. MaxValue
    /\ LET touched == IF mViewValue = 0 THEN {View} ELSE {} IN
       fixed' = fixed \cup touched /\ down' = Touched(touched)
    /\ mViewTimer' = TRUE
    /\ UNCHANGED <<order, mPovValue, lock, mBrainPressGameKey, timers>>

MouseViewLock ==
    IF mIsMouseClick
    THEN /\ mIsMouseClick' = FALSE /\ isViewLockPress' = TRUE
         /\ UNCHANGED <<fixed, down>>
    ELSE /\ mIsMouseClick' = TRUE /\ isViewLockPress' = FALSE
         /\ fixed' = fixed \ {Move} /\ down' = Lifted({Move})

LockKey(k, pressed) ==
    /\ k \in Locks
    /\ IF pressed THEN MouseViewLock ELSE UNCHANGED <<lock, fixed, down>>
    /\ UNCHANGED <<order, wheels, mBrainPressGameKey, timers>>

\* The mouse steers a brain key while it is held, and is given back to the
\* locked view afterwards. Only the first of several brain keys counts.
BrainPress(k) ==
    /\ mBrainPressGameKey = NoKey
    /\ mBrainPressGameKey' = k
    /\ mIsMouseClick' = (mIsMouseClick \/ isViewLockPress)
    /\ GameKeyPress(k)

\* Mutant: the release takes the mouse away although the view is not locked.
BrainReleaseLocks(k) ==
    /\ mBrainPressGameKey = k
    /\ mBrainPressGameKey' = NoKey
    /\ mIsMouseClick' = FALSE
    /\ GameKeyRelease(k)

BrainRelease(k) ==
    /\ mBrainPressGameKey = k
    /\ mBrainPressGameKey' = NoKey
    /\ mIsMouseClick' = (mIsMouseClick /\ ~isViewLockPress)
    /\ GameKeyRelease(k)

BrainKey(k, pressed) ==
    /\ k \in Brains
    /\ \/ pressed /\ BrainPress(k)
       \/ ~pressed /\ BrainRelease(k)
       \/ /\ mBrainPressGameKey # (IF pressed THEN NoKey ELSE k)
          /\ UNCHANGED <<mBrainPressGameKey, mIsMouseClick, order, down>>
    /\ UNCHANGED <<fixed, wheels, isViewLockPress, timers>>

\* The mode is KeyMouseUse, and names have keys.
InUse == mGameKeyStatus = "use"

KeyboardGamekeyMethod(k, pressed) ==
    IF InUse /\ k \notin Others
    THEN \/ ClickKey(k, pressed) \/ FireKey(k, pressed) \/ ComboKey(k, pressed)
         \/ WheelKey(k, pressed) \/ ViewKey(k, pressed)
         \/ LockKey(k, pressed) \/ BrainKey(k, pressed)
    ELSE UNCHANGED manager

-----------------------------------------------------------------------------
(* Events of keys, mouse and timers.                                       *)

Pressed(k) ==
    /\ held' = held \cup {Physical[k]}
    /\ KeyboardGamekeyMethod(k, TRUE)
    /\ UNCHANGED <<mGameKeyStatus, focusing>>

Released(k) ==
    /\ Physical[k] \in held
    /\ held' = held \ {Physical[k]}
    /\ KeyboardGamekeyMethod(k, FALSE)
    /\ UNCHANGED <<mGameKeyStatus, firstRepeat, focusing>>

\* An auto-repeat counts as a press once after the focus was lost.
KeyPress(k) ==
    /\ k \notin Buttons /\ focus
    /\ \/ Physical[k] \notin held /\ Cardinality(held) < MaxHeld
       \/ Physical[k] \in held /\ firstRepeat
    /\ firstRepeat' = FALSE
    /\ Pressed(k)

KeyRelease(k) == k \notin Buttons /\ focus /\ Released(k)

\* A click gives the widget the focus first, unless its window is not active;
\* the widget that a button was pressed on is told of the release, focus or not.
ButtonPress(k) ==
    /\ k \in Buttons
    /\ focus \/ mWindowUnfocused
    /\ Physical[k] \notin held /\ Cardinality(held) < MaxHeld
    /\ Pressed(k)
    /\ UNCHANGED firstRepeat

ButtonRelease(k) == k \in Buttons /\ Released(k)

\* Without the focus, a release may go to somebody else.
KeyReleasedElsewhere ==
    /\ ~focus
    /\ \E p \in held : held' = held \ {p}
    /\ UNCHANGED <<manager, mGameKeyStatus, firstRepeat, focusing>>

\* getMouseGamekeyMove: the locked view follows the mouse. recoverMousePos
\* lifts the touch and puts it down again.
MouseMove ==
    /\ ~mIsMouseClick
    /\ fixed' = fixed \cup {Move}
    /\ \/ down' = (IF Move \in fixed THEN down ELSE Touched({Move}))
       \/ down' = Touched({Move})
    /\ UNCHANGED <<order, wheels, lock, mBrainPressGameKey, timers, mGameKeyStatus,
                   firstRepeat, held, focusing>>

\* gameKeySolt of a timer, in mGameKeyMap or lost to it.
ComboTick ==
    /\ \E slot \in {tap[k] : k \in Combos} \cup dropped :
           slot # 0 /\ down' = Lifted({slot})
    /\ UNCHANGED <<order, fixed, wheels, lock, mBrainPressGameKey, timers, mGameKeyStatus,
                   firstRepeat, held, focusing>>

\* Mutant: the timer ends, the touch stays.
ViewTickNoRelease ==
    /\ mViewTimer /\ mViewValue = 0
    /\ mViewTimer' = FALSE
    /\ UNCHANGED <<touches, mPovValue, mViewValue, lock, mBrainPressGameKey, timers,
                   mGameKeyStatus, firstRepeat, held, focusing>>

\* viewGamekeyMethod. At a border the touch is lifted and put down again,
\* away from one it is only moved.
ViewTick ==
    /\ mViewTimer
    /\ \/ /\ mViewValue \in Directions
          /\ \/ down' = Touched({View}) /\ fixed' = fixed \cup {View}
             \/ UNCHANGED <<down, fixed>>
          /\ UNCHANGED mViewTimer
       \/ /\ mViewValue = 0
          /\ down' = Lifted({View}) /\ fixed' = fixed \ {View}
          /\ mViewTimer' = FALSE
    /\ UNCHANGED <<order, mPovValue, mViewValue, lock, mBrainPressGameKey, timers,
                   mGameKeyStatus, firstRepeat, held, focusing>>

-----------------------------------------------------------------------------
(* focusOutMethod: all that is down is let go.                             *)

Taken == {i \in Free : order[i] # NoKey}
Names == {order[i] : i \in Taken}

\* What the loop over the slots finds when it comes to slot i: a brain key
\* released before has given the mouse back to the locked view.
ClicksAt(i) ==
    /\ mIsMouseClick
    /\ ~ /\ InUse /\ isViewLockPress /\ mBrainPressGameKey # NoKey
         /\ \E j \in Free : j < i /\ order[j] = mBrainPressGameKey

\* The slots whose touch is lifted: combo keys have none between two taps.
LiftedByFocusOut ==
    {i \in Taken :
        /\ InUse
        /\ \/ order[i] \in Clicks
           \/ order[i] \in Fires /\ ~ClicksAt(i)
           \/ order[i] \in Brains /\ order[i] = mBrainPressGameKey
                /\ \A j \in 1 .. i - 1 : order[j] # order[i]}

LetGo(sent) ==
    LET clicks == ClicksAt(N + 1)
        unlocked == Move \in fixed /\ ~clicks
        lifted == LiftedByFocusOut \cup (fixed \cap {Dir, View})
                    \cup (IF unlocked THEN {Move} ELSE {})
    IN
    /\ order' = [i \in Free |-> NoKey] /\ fixed' = {}
    /\ down' = IF sent THEN down \ lifted ELSE down
    /\ tap' = [k \in Combos |-> IF InUse /\ k \in Names THEN 0 ELSE tap[k]]
    /\ mBrainPressGameKey' = IF InUse /\ mBrainPressGameKey \in Names
                             THEN NoKey ELSE mBrainPressGameKey
    /\ mPovValue' = IF Dir \in fixed THEN 0 ELSE mPovValue
    /\ mViewValue' = IF View \in fixed THEN 0 ELSE mViewValue
    /\ mViewTimer' = (mViewTimer /\ View \notin fixed)
    /\ mIsMouseClick' = (IF Move \in fixed THEN ~clicks ELSE clicks)
    /\ isViewLockPress' = (IF Move \in fixed THEN clicks ELSE isViewLockPress)
    /\ UNCHANGED dropped

FocusOutMethod(sent) ==
    IF mGameKeyStatus # "other" THEN LetGo(sent) ELSE UNCHANGED manager

-----------------------------------------------------------------------------
(* The focus, seen by Qt and by Android.                                   *)

\* QEvent::FocusOut: the focus goes to another widget or window.
FocusOut ==
    /\ focus
    /\ focus' = FALSE /\ firstRepeat' = TRUE
    /\ FocusOutMethod(input)
    /\ UNCHANGED <<mGameKeyStatus, held, mWindowUnfocused, input>>

FocusIn ==
    /\ ~focus /\ ~mWindowUnfocused
    /\ focus' = TRUE
    /\ UNCHANGED <<manager, mGameKeyStatus, firstRepeat, held, mWindowUnfocused, input>>

\* Qt has taken the focus from the widget by then. The input is given away
\* before changeWidgetFocus, so nothing that it lets go is sent.
UnFocusWindow ==
    /\ ~focus /\ ~mWindowUnfocused
    /\ mWindowUnfocused' = TRUE /\ input' = FALSE
    /\ firstRepeat' = TRUE
    /\ FocusOutMethod(FALSE)
    /\ UNCHANGED <<mGameKeyStatus, held, focus>>

FocusWindow ==
    /\ mWindowUnfocused' = FALSE /\ input' = TRUE /\ focus' = TRUE
    /\ UNCHANGED <<manager, mGameKeyStatus, firstRepeat, held>>

\* Another window takes the input (focusWindowDisplay), or a late answer of
\* Android gives it away (onFocusDisplayById).
LoseInput ==
    /\ InputMoves /\ input
    /\ input' = FALSE
    /\ UNCHANGED <<manager, mGameKeyStatus, firstRepeat, held, focus, mWindowUnfocused>>

-----------------------------------------------------------------------------
(* JoystickManager: the keys are edited, hidden and removed.               *)

ToSettings ==
    /\ Reconfigured /\ mGameKeyStatus # "other"
    /\ mGameKeyStatus' = "other"
    /\ UNCHANGED <<manager, firstRepeat, held, focusing>>

\* exitJoystickSetting and gameKeyInit: mGameKeyMap is cleared, but its timers
\* are not deleted.
ExitSettings ==
    /\ mGameKeyStatus = "other"
    /\ mGameKeyStatus' \in {"use", "removed"}
    /\ tap' = [k \in Combos |-> 0]
    /\ dropped' = dropped \cup (Free \cap {tap[k] : k \in Combos})
    /\ UNCHANGED <<touches, wheels, lock, mBrainPressGameKey, firstRepeat, held,
                   focusing>>

HideGameKeysWhileRotation ==
    /\ Reconfigured /\ mGameKeyStatus = "use"
    /\ mGameKeyStatus' = "removed"
    /\ UNCHANGED <<manager, firstRepeat, held, focusing>>

Next ==
    \/ \E k \in Keys : \/ KeyPress(k) \/ KeyRelease(k)
                      \/ ButtonPress(k) \/ ButtonRelease(k)
    \/ KeyReleasedElsewhere \/ MouseMove
    \/ ComboTick \/ ViewTick
    \/ FocusOut \/ FocusIn \/ UnFocusWindow \/ FocusWindow \/ LoseInput
    \/ ToSettings \/ ExitSettings \/ HideGameKeysWhileRotation

Spec == Init /\ [][Next]_vars

-----------------------------------------------------------------------------
TypeOK ==
    /\ order \in [Free -> Keys \cup {NoKey}] /\ fixed \subseteq Fixed
    /\ mPovValue \in -MaxValue .. MaxValue /\ mViewValue \in -MaxValue .. MaxValue
    /\ mViewTimer \in BOOLEAN /\ mIsMouseClick \in BOOLEAN
    /\ isViewLockPress \in BOOLEAN
    /\ mBrainPressGameKey \in Brains \cup {NoKey}
    /\ tap \in [Combos -> Slots \cup {0}] /\ dropped \subseteq Free
    /\ mGameKeyStatus \in {"use", "removed", "other"}
    /\ firstRepeat \in BOOLEAN /\ held \subseteq {Physical[k] : k \in Keys}
    /\ focus \in BOOLEAN /\ mWindowUnfocused \in BOOLEAN /\ input \in BOOLEAN
    /\ down \subseteq Free \cup Fixed

\* The view's touch and its timer come and go together, through borders,
\* losses of the focus and changes of the keys: a touch without the timer would
\* never be lifted, a timer without the touch would move nothing.
ViewTouchHasTimer == View \in fixed <=> mViewTimer

\* The wheel is touched only while the held keys make a direction.
WheelTouchHasDirection == Dir \in fixed => mPovValue \in Directions

\* The mouse is taken from clicking by a locked view only, and while the view is
\* locked it is given back to a brain key only; the view is touched only then.
MouseFollowsLock ==
    /\ ~mIsMouseClick => isViewLockPress
    /\ isViewLockPress /\ mIsMouseClick => mBrainPressGameKey # NoKey
    /\ Move \in fixed => isViewLockPress

\* A window without the focus holds no touch in Android. The comment in
\* unFocusWindow (displaymanager.cpp:529) says that changeWidgetFocus keeps a
\* long-pressed control from not being released when the focus goes out.
FocusOutReleases == mWindowUnfocused => down = {}
=============================================================================
