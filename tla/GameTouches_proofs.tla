------------------------- MODULE GameTouches_proofs -------------------------
(***************************************************************************)
(* GameTouches is type correct, the view's touch lives as long as its      *)
(* timer, the wheel is touched only in a direction, and the mouse is taken *)
(* from clicking by a locked view only, for any keys, slots and bounds.    *)
(***************************************************************************)
EXTENDS GameTouches, WellFoundedInduction, TLAPS

-----------------------------------------------------------------------------
(* Slots.                                                                  *)

\* A set of numbers that is not empty has a least one.
LEMMA Least ==
    ASSUME NEW T \in SUBSET Nat, T # {}
    PROVE  \E x \in T : \A y \in T : ~(y < x)
<1> DEFINE R == {ss \in Nat \X Nat : ss[1] < ss[2]}
<1>1. IsWellFoundedOn(R, Nat)
    BY NatLessThanWellFounded DEF OpToRel
<1>2. \E x \in T : \A y \in T : ~ (<<y, x>> \in R)
    <2> HIDE DEF R
    <2> QED BY <1>1, WFMin
<1> QED BY <1>2

\* The reserved slots are three, and no key may take them.
LEMMA Reserved ==
    /\ Dir \notin Free /\ View \notin Free /\ Move \notin Free
    /\ Dir # View /\ Dir # Move /\ View # Move
    /\ None \notin Free \cup Fixed
BY SlotAssumption DEF Dir, View, Move, Free, Fixed, None

Order == order \in [Free -> Keys \cup {NoKey}]

\* First finds a slot of order, or no slot.
LEMMA FirstIsSlot ==
    ASSUME Order, NEW k
    PROVE  First(k) \in Slots
<1>1. CASE \E i \in Free : order[i] = k
    <2> DEFINE T == {i \in Free : order[i] = k}
    <2>1. T \in SUBSET Nat /\ T # {}
        BY <1>1, SlotAssumption DEF Free
    <2>2. PICK x \in T : \A y \in T : ~(y < x)
        <3> HIDE DEF T
        <3> QED BY <2>1, Least
    <2>3. \A j \in 1 .. x - 1 : order[j] # k
        BY <2>2, SlotAssumption DEF Free
    <2> QED BY <1>1, <2>2, <2>3 DEF First, Slots
<1>2. CASE ~ \E i \in Free : order[i] = k
    BY <1>2 DEF First, Slots
<1> QED BY <1>1, <1>2

LEMMA EnteredType ==
    ASSUME Order, NEW i \in Slots, NEW k \in Keys \cup {NoKey}
    PROVE  Entered(i, k) \in [Free -> Keys \cup {NoKey}]
BY DEF Order, Entered, Slots

\* Android holds touches of slots only, whatever is sent.
LEMMA TouchedType ==
    ASSUME down \subseteq Free \cup Fixed, NEW S, S \subseteq Slots \cup Fixed
    PROVE  Touched(S) \subseteq Free \cup Fixed /\ Lifted(S) \subseteq Free \cup Fixed
BY DEF Touched, Lifted, Slots

-----------------------------------------------------------------------------
(* Types.                                                                  *)

\* The part of TypeOK that is about the manager.
ManagerOK ==
    /\ order \in [Free -> Keys \cup {NoKey}] /\ fixed \subseteq Fixed
    /\ mPovValue \in -MaxValue .. MaxValue /\ mViewValue \in -MaxValue .. MaxValue
    /\ mViewTimer \in BOOLEAN /\ mIsMouseClick \in BOOLEAN
    /\ isViewLockPress \in BOOLEAN
    /\ mBrainPressGameKey \in Brains \cup {NoKey}
    /\ tap \in [Combos -> Slots \cup {0}] /\ dropped \subseteq Free
    /\ down \subseteq Free \cup Fixed

\* The rest: the keys of the user, and who has the focus.
UserOK ==
    /\ mGameKeyStatus \in {"use", "removed", "other"}
    /\ firstRepeat \in BOOLEAN /\ held \subseteq {Physical[k] : k \in Keys}
    /\ focus \in BOOLEAN /\ mWindowUnfocused \in BOOLEAN /\ input \in BOOLEAN

LEMMA TypeSplit == TypeOK <=> ManagerOK /\ UserOK
BY DEF TypeOK, ManagerOK, UserOK

LEMMA TypeSplitNext == TypeOK' <=> ManagerOK' /\ UserOK'
BY DEF TypeOK, ManagerOK, UserOK

LEMMA PressType ==
    ASSUME ManagerOK, NEW k \in Keys, GameKeyPress(k) \/ GameKeyRelease(k)
    PROVE  /\ order' \in [Free -> Keys \cup {NoKey}]
           /\ down' \subseteq Free \cup Fixed
<1>1. Order BY DEF ManagerOK, Order
<1>2. First(NoKey) \in Slots /\ First(k) \in Slots BY <1>1, FirstIsSlot
<1>3. Entered(First(NoKey), k) \in [Free -> Keys \cup {NoKey}]
    BY <1>1, <1>2, EnteredType
<1>4. Entered(First(k), NoKey) \in [Free -> Keys \cup {NoKey}]
    BY <1>1, <1>2, EnteredType
<1>5. Touched({First(NoKey)}) \subseteq Free \cup Fixed
    BY <1>2, TouchedType DEF ManagerOK
<1>6. Lifted({First(k)}) \subseteq Free \cup Fixed
    BY <1>2, TouchedType DEF ManagerOK
<1> QED BY <1>3, <1>4, <1>5, <1>6 DEF GameKeyPress, GameKeyRelease

LEMMA MethodType ==
    ASSUME ManagerOK, NEW k \in Keys, NEW pressed \in BOOLEAN,
           KeyboardGamekeyMethod(k, pressed)
    PROVE  ManagerOK'
<1>1. CASE ClickKey(k, pressed)
    <2>1. GameKeyPress(k) \/ GameKeyRelease(k) BY <1>1 DEF ClickKey
    <2>2. /\ order' \in [Free -> Keys \cup {NoKey}]
          /\ down' \subseteq Free \cup Fixed
        BY <2>1, PressType
    <2> QED BY <1>1, <2>2 DEF ClickKey, ManagerOK, wheels, lock, timers
<1>2. CASE FireKey(k, pressed)
    <2>1. \/ GameKeyPress(k) \/ GameKeyRelease(k)
          \/ UNCHANGED <<order, down>>
        BY <1>2 DEF FireKey
    <2>2. /\ order' \in [Free -> Keys \cup {NoKey}]
          /\ down' \subseteq Free \cup Fixed
        BY <2>1, PressType DEF ManagerOK
    <2> QED BY <1>2, <2>2 DEF FireKey, ManagerOK, wheels, lock, timers
<1>3. CASE ComboKey(k, pressed)
    <2>1. Order BY DEF ManagerOK, Order
    <2>2. First(NoKey) \in Slots /\ First(k) \in Slots BY <2>1, FirstIsSlot
    <2>3. Entered(First(NoKey), k) \in [Free -> Keys \cup {NoKey}]
        BY <2>1, <2>2, EnteredType
    <2>4. Entered(First(k), NoKey) \in [Free -> Keys \cup {NoKey}]
        BY <2>1, <2>2, EnteredType
    <2>5. Lifted({First(NoKey)}) \subseteq Free \cup Fixed
        BY <2>2, TouchedType DEF ManagerOK
    <2>6. k \in Combos /\ UNCHANGED <<fixed, wheels, lock, mBrainPressGameKey, dropped>>
        BY <1>3 DEF ComboKey
    <2>7. CASE ComboPress(k)
        <3>1. /\ order' \in [Free -> Keys \cup {NoKey}]
              /\ tap' = [tap EXCEPT ![k] = First(NoKey)]
              /\ down' \subseteq Free \cup Fixed
            BY <2>7, <2>3, <2>5 DEF ComboPress, ManagerOK
        <3>2. tap' \in [Combos -> Slots \cup {0}]
            BY <3>1, <2>2 DEF ManagerOK
        <3> QED BY <3>1, <3>2, <2>6 DEF ManagerOK, wheels, lock
    <2>8. CASE ComboRelease(k)
        <3>1. /\ order' \in [Free -> Keys \cup {NoKey}]
              /\ tap' = [tap EXCEPT ![k] = 0]
              /\ down' = down
            BY <2>8, <2>4 DEF ComboRelease
        <3>2. tap' \in [Combos -> Slots \cup {0}]
            BY <3>1 DEF ManagerOK
        <3> QED BY <3>1, <3>2, <2>6 DEF ManagerOK, wheels, lock
    <2> QED BY <1>3, <2>7, <2>8 DEF ComboKey
<1>4. CASE WheelKey(k, pressed)
    <2> DEFINE touched == IF mPovValue = 0 THEN {Dir} ELSE {}
    <2>1. touched \subseteq Slots \cup Fixed /\ {Dir} \subseteq Slots \cup Fixed
        BY DEF Fixed
    <2>2. touched \subseteq Fixed
        BY DEF Fixed
    <2> HIDE DEF touched
    <2>3. Touched(touched) \subseteq Free \cup Fixed /\ Lifted({Dir}) \subseteq Free \cup Fixed
        BY <2>1, TouchedType DEF ManagerOK
    <2>4. /\ \/ fixed' = fixed \cup touched /\ down' = Touched(touched)
             \/ fixed' = fixed \ {Dir} /\ down' = Lifted({Dir})
          /\ mPovValue' \in -MaxValue .. MaxValue
          /\ UNCHANGED <<order, mViewValue, mViewTimer, lock, mBrainPressGameKey, timers>>
        BY <1>4 DEF WheelKey, touched
    <2> QED BY <2>2, <2>3, <2>4 DEF ManagerOK, lock, timers
<1>5. CASE ViewKey(k, pressed)
    <2> DEFINE touched == IF mViewValue = 0 THEN {View} ELSE {}
    <2>1. touched \subseteq Slots \cup Fixed /\ touched \subseteq Fixed
        BY DEF Fixed
    <2> HIDE DEF touched
    <2>2. Touched(touched) \subseteq Free \cup Fixed
        BY <2>1, TouchedType DEF ManagerOK
    <2>3. /\ fixed' = fixed \cup touched /\ down' = Touched(touched)
          /\ mViewValue' \in -MaxValue .. MaxValue /\ mViewTimer' = TRUE
          /\ UNCHANGED <<order, mPovValue, lock, mBrainPressGameKey, timers>>
        BY <1>5 DEF ViewKey, touched
    <2> QED BY <2>1, <2>2, <2>3 DEF ManagerOK, lock, timers
<1>6. CASE LockKey(k, pressed)
    <2>1. Lifted({Move}) \subseteq Free \cup Fixed
        BY TouchedType DEF ManagerOK, Fixed
    <2>2. /\ \/ UNCHANGED <<fixed, down>>
             \/ fixed' = fixed \ {Move} /\ down' = Lifted({Move})
          /\ \/ UNCHANGED lock
             \/ mIsMouseClick' \in BOOLEAN /\ isViewLockPress' \in BOOLEAN
          /\ UNCHANGED <<order, wheels, mBrainPressGameKey, timers>>
        BY <1>6 DEF LockKey, MouseViewLock
    <2> QED BY <2>1, <2>2 DEF ManagerOK, wheels, lock, timers
<1>7. CASE BrainKey(k, pressed)
    <2>1. k \in Brains /\ UNCHANGED <<fixed, wheels, isViewLockPress, timers>>
        BY <1>7 DEF BrainKey
    <2>2. \/ GameKeyPress(k) \/ GameKeyRelease(k)
          \/ UNCHANGED <<order, down>>
        BY <1>7 DEF BrainKey, BrainPress, BrainRelease
    <2>3. /\ order' \in [Free -> Keys \cup {NoKey}]
          /\ down' \subseteq Free \cup Fixed
        BY <2>2, PressType DEF ManagerOK
    <2>4. /\ mBrainPressGameKey' \in Brains \cup {NoKey}
          /\ mIsMouseClick' \in BOOLEAN
        BY <1>7, <2>1 DEF BrainKey, BrainPress, BrainRelease, ManagerOK
    <2> QED BY <2>1, <2>3, <2>4 DEF ManagerOK, wheels, timers
<1>8. CASE UNCHANGED manager
    BY <1>8 DEF manager, touches, wheels, lock, timers, ManagerOK
<1> QED BY <1>1, <1>2, <1>3, <1>4, <1>5, <1>6, <1>7, <1>8
        DEF KeyboardGamekeyMethod

LEMMA LetGoType ==
    ASSUME ManagerOK, MaxValue \in Nat, NEW sent \in BOOLEAN,
           FocusOutMethod(sent)
    PROVE  ManagerOK'
<1>1. CASE LetGo(sent)
    <2>1. /\ order' \in [Free -> Keys \cup {NoKey}]
          /\ fixed' = {} /\ dropped' = dropped
          /\ down' \subseteq down
        BY <1>1 DEF LetGo
    <2>2. tap' = [k \in Combos |-> IF InUse /\ k \in Names THEN 0 ELSE tap[k]]
        BY <1>1 DEF LetGo
    <2>3. tap' \in [Combos -> Slots \cup {0}]
        BY <2>2 DEF ManagerOK
    <2>4. mBrainPressGameKey' \in Brains \cup {NoKey}
        BY <1>1 DEF LetGo, ManagerOK
    <2>5. /\ mPovValue' \in {0, mPovValue} /\ mViewValue' \in {0, mViewValue}
        BY <1>1 DEF LetGo
    <2>6. 0 \in -MaxValue .. MaxValue
        OBVIOUS
    <2>7. ClicksAt(N + 1) \in BOOLEAN
        BY DEF ClicksAt
    <2>8. mViewTimer' \in BOOLEAN
        BY <1>1 DEF LetGo, ManagerOK
    <2>9. mIsMouseClick' \in BOOLEAN /\ isViewLockPress' \in BOOLEAN
        BY <1>1, <2>7 DEF LetGo, ManagerOK
    <2> QED BY <2>1, <2>3, <2>4, <2>5, <2>6, <2>8, <2>9 DEF ManagerOK
<1>2. CASE UNCHANGED manager
    BY <1>2 DEF manager, touches, wheels, lock, timers, ManagerOK
<1> QED BY <1>1, <1>2 DEF FocusOutMethod

\* What the user does with the keys: the manager does the rest.
LEMMA KeyType ==
    ASSUME TypeOK, NEW k \in Keys,
           \/ KeyPress(k) \/ KeyRelease(k) \/ ButtonPress(k) \/ ButtonRelease(k)
    PROVE  TypeOK'
<1>1. PICK pressed \in BOOLEAN : KeyboardGamekeyMethod(k, pressed)
    BY DEF KeyPress, KeyRelease, ButtonPress, ButtonRelease, Pressed, Released
<1>2. ManagerOK'
    BY <1>1, MethodType, TypeSplit
<1>3. UserOK
    BY TypeSplit
<1>4. UserOK'
    BY <1>3 DEF KeyPress, KeyRelease, ButtonPress, ButtonRelease, Pressed, Released,
                UserOK, focusing
<1> QED BY <1>2, <1>4, TypeSplitNext

\* Type correctness: no step leaves the values that the code's
\* variables have.
THEOREM TypeCorrect == Spec => []TypeOK
<1>1. Init => TypeOK
    <2> SUFFICES ASSUME Init PROVE TypeOK OBVIOUS
    <2>1. 0 \in -MaxValue .. MaxValue
        BY SlotAssumption
    <2> QED BY <2>1 DEF Init, TypeOK, Slots
<1>2. TypeOK /\ [Next]_vars => TypeOK'
    <2> SUFFICES ASSUME TypeOK, [Next]_vars PROVE TypeOK'
        OBVIOUS
    <2>1. ManagerOK /\ UserOK
        BY TypeSplit
    <2>2. ASSUME NEW k \in Keys,
                 \/ KeyPress(k) \/ KeyRelease(k) \/ ButtonPress(k) \/ ButtonRelease(k)
          PROVE  TypeOK'
        BY <2>2, KeyType
    <2>3. CASE KeyReleasedElsewhere
        BY <2>1, <2>3 DEF KeyReleasedElsewhere, TypeOK, ManagerOK, UserOK, manager,
                          touches, wheels, lock, timers, focusing
    <2>4. CASE MouseMove
        <3>1. Touched({Move}) \subseteq Free \cup Fixed
            BY <2>1, TouchedType DEF ManagerOK, Fixed
        <3>2. /\ down' \in {down, Touched({Move})} /\ fixed' = fixed \cup {Move}
              /\ UNCHANGED <<order, wheels, lock, mBrainPressGameKey, timers,
                             mGameKeyStatus, firstRepeat, held, focusing>>
            BY <2>4 DEF MouseMove
        <3> QED BY <2>1, <3>1, <3>2 DEF TypeOK, ManagerOK, UserOK, Fixed, wheels, lock,
                                        timers, focusing
    <2>5. CASE ComboTick
        <3>1. PICK slot : down' = Lifted({slot})
            BY <2>5 DEF ComboTick
        <3>2. down' \subseteq down
            BY <3>1 DEF Lifted
        <3> QED BY <2>1, <2>5, <3>2 DEF ComboTick, TypeOK, ManagerOK, UserOK, wheels, lock,
                                        timers, focusing
    <2>6. CASE ViewTick
        <3>1. /\ Touched({View}) \subseteq Free \cup Fixed
              /\ Lifted({View}) \subseteq Free \cup Fixed
            BY <2>1, TouchedType DEF ManagerOK, Fixed
        <3> QED BY <2>1, <2>6, <3>1 DEF ViewTick, TypeOK, ManagerOK, UserOK, Fixed, lock,
                                        timers, focusing
    <2>7. CASE FocusOut
        <3>1. ManagerOK'
            BY <2>1, <2>7, LetGoType, SlotAssumption DEF FocusOut, UserOK
        <3>2. UserOK'
            BY <2>1, <2>7 DEF FocusOut, UserOK
        <3> QED BY <3>1, <3>2, TypeSplitNext
    <2>8. CASE UnFocusWindow
        <3>1. ManagerOK'
            BY <2>1, <2>8, LetGoType, SlotAssumption DEF UnFocusWindow
        <3>2. UserOK'
            BY <2>1, <2>8 DEF UnFocusWindow, UserOK
        <3> QED BY <3>1, <3>2, TypeSplitNext
    <2>9. CASE FocusIn \/ FocusWindow \/ LoseInput \/ ToSettings
                 \/ HideGameKeysWhileRotation
        BY <2>1, <2>9 DEF FocusIn, FocusWindow, LoseInput, ToSettings,
                HideGameKeysWhileRotation, TypeOK, ManagerOK, UserOK, manager, touches,
                wheels, lock, timers, focusing
    <2>10. CASE ExitSettings
        <3>1. tap' \in [Combos -> Slots \cup {0}] /\ dropped' \subseteq Free
            BY <2>1, <2>10 DEF ExitSettings, ManagerOK
        <3> QED BY <2>1, <2>10, <3>1 DEF ExitSettings, TypeOK, ManagerOK, UserOK, touches,
                                         wheels, lock, focusing
    <2>11. CASE UNCHANGED vars
        BY <2>11 DEF vars, TypeOK, manager, touches, wheels, lock, timers, focusing
    <2> QED BY <2>2, <2>3, <2>4, <2>5, <2>6, <2>7, <2>8, <2>9, <2>10, <2>11 DEF Next
<1> QED BY <1>1, <1>2, PTL DEF Spec

-----------------------------------------------------------------------------
(* Wheels and the mouse.                                                   *)

\* ViewTouchHasTimer is not inductive: a second key of the view starts the
\* timer without a touch, unless the view is touched whenever it is turned.
ViewTurnedIsTouched == mViewValue # 0 => View \in fixed

WheelInv == ViewTouchHasTimer /\ ViewTurnedIsTouched /\ WheelTouchHasDirection

IInv == WheelInv /\ MouseFollowsLock

\* Presses and releases of keys that take no reserved slot keep IInv.
LEMMA OtherKeys ==
    ASSUME IInv, UNCHANGED <<fixed, wheels, lock, mBrainPressGameKey>>
    PROVE  IInv'
BY DEF IInv, WheelInv, ViewTouchHasTimer, ViewTurnedIsTouched, WheelTouchHasDirection,
       MouseFollowsLock, wheels, lock, Directions

LEMMA MethodKeeps ==
    ASSUME IInv, NEW k \in Keys, NEW pressed \in BOOLEAN,
           KeyboardGamekeyMethod(k, pressed)
    PROVE  IInv'
<1> USE Reserved
<1>1. CASE ClickKey(k, pressed) \/ FireKey(k, pressed) \/ ComboKey(k, pressed)
    BY <1>1, OtherKeys DEF ClickKey, FireKey, ComboKey
<1>2. CASE WheelKey(k, pressed)
    <2> DEFINE touched == IF mPovValue = 0 THEN {Dir} ELSE {}
    <2>1. /\ IF mPovValue' \in Directions
             THEN fixed' = fixed \cup touched
             ELSE fixed' = fixed \ {Dir}
          /\ UNCHANGED <<mViewValue, mViewTimer, lock, mBrainPressGameKey>>
        BY <1>2 DEF WheelKey, touched
    <2>2. /\ View \in fixed' <=> View \in fixed
          /\ Move \in fixed' <=> Move \in fixed
          /\ Dir \in fixed' => mPovValue' \in Directions
        BY <2>1
    <2>3. WheelInv'
        BY <2>1, <2>2 DEF IInv, WheelInv, ViewTouchHasTimer, ViewTurnedIsTouched,
                          WheelTouchHasDirection, Directions
    <2>4. MouseFollowsLock'
        BY <2>1, <2>2 DEF IInv, MouseFollowsLock, lock
    <2> QED BY <2>3, <2>4 DEF IInv
<1>3. CASE ViewKey(k, pressed)
    <2>1. /\ fixed' = fixed \cup (IF mViewValue = 0 THEN {View} ELSE {})
          /\ mViewTimer' = TRUE
          /\ UNCHANGED <<mPovValue, lock, mBrainPressGameKey>>
        BY <1>3 DEF ViewKey
    <2>2. View \in fixed'
        BY <2>1 DEF IInv, WheelInv, ViewTurnedIsTouched
    <2>3. /\ Dir \in fixed' <=> Dir \in fixed
          /\ Move \in fixed' <=> Move \in fixed
        BY <2>1
    <2>4. WheelInv'
        BY <2>1, <2>2, <2>3 DEF IInv, WheelInv, ViewTouchHasTimer, ViewTurnedIsTouched,
                                WheelTouchHasDirection, Directions
    <2>5. MouseFollowsLock'
        BY <2>1, <2>3 DEF IInv, MouseFollowsLock, lock
    <2> QED BY <2>4, <2>5 DEF IInv
<1>4. CASE LockKey(k, pressed)
    <2>1. UNCHANGED <<wheels, mBrainPressGameKey>>
        BY <1>4 DEF LockKey
    <2>2. CASE UNCHANGED <<lock, fixed, down>>
        BY <2>1, <2>2, OtherKeys
    <2>3. CASE MouseViewLock
        <3>1. fixed' \in {fixed, fixed \ {Move}}
            BY <2>3 DEF MouseViewLock
        <3>2. WheelInv'
            BY <2>1, <3>1 DEF IInv, WheelInv, ViewTouchHasTimer, ViewTurnedIsTouched,
                              WheelTouchHasDirection, wheels, Directions
        <3>3. MouseFollowsLock'
            BY <2>1, <2>3 DEF MouseViewLock, IInv, MouseFollowsLock
        <3> QED BY <3>2, <3>3 DEF IInv
    <2> QED BY <1>4, <2>2, <2>3 DEF LockKey
<1>5. CASE BrainKey(k, pressed)
    <2>1. k \in Brains /\ UNCHANGED <<fixed, wheels, isViewLockPress>>
        BY <1>5 DEF BrainKey
    <2>2. WheelInv'
        BY <2>1 DEF IInv, WheelInv, ViewTouchHasTimer, ViewTurnedIsTouched,
                    WheelTouchHasDirection, wheels, Directions
    <2>3. k # NoKey
        BY KeyAssumption
    <2>4. \/ /\ mBrainPressGameKey' = k
             /\ mIsMouseClick' = (mIsMouseClick \/ isViewLockPress)
          \/ mIsMouseClick' = (mIsMouseClick /\ ~isViewLockPress)
          \/ UNCHANGED <<mBrainPressGameKey, mIsMouseClick>>
        BY <1>5 DEF BrainKey, BrainPress, BrainRelease
    <2>5. MouseFollowsLock'
        <3>1. CASE /\ mBrainPressGameKey' = k
                   /\ mIsMouseClick' = (mIsMouseClick \/ isViewLockPress)
            BY <2>1, <2>3, <3>1 DEF IInv, MouseFollowsLock
        <3>2. CASE mIsMouseClick' = (mIsMouseClick /\ ~isViewLockPress)
            BY <2>1, <3>2 DEF IInv, MouseFollowsLock
        <3>3. CASE UNCHANGED <<mBrainPressGameKey, mIsMouseClick>>
            BY <2>1, <3>3 DEF IInv, MouseFollowsLock
        <3> QED BY <2>4, <3>1, <3>2, <3>3
    <2> QED BY <2>2, <2>5 DEF IInv
<1>6. CASE UNCHANGED manager
    BY <1>6, OtherKeys DEF manager, touches
<1> QED BY <1>1, <1>2, <1>3, <1>4, <1>5, <1>6 DEF KeyboardGamekeyMethod

\* A focus that goes out unlocks the view unless a brain key has the mouse.
LEMMA LetGoKeeps ==
    ASSUME IInv, Order, NEW sent, FocusOutMethod(sent)
    PROVE  IInv'
<1>1. CASE LetGo(sent)
    <2> DEFINE clicks == ClicksAt(N + 1)
    <2>1. /\ fixed' = {}
          /\ mViewValue' = IF View \in fixed THEN 0 ELSE mViewValue
          /\ mViewTimer' = (mViewTimer /\ View \notin fixed)
          /\ mBrainPressGameKey' = IF InUse /\ mBrainPressGameKey \in Names
                                   THEN NoKey ELSE mBrainPressGameKey
          /\ mIsMouseClick' = (IF Move \in fixed THEN ~clicks ELSE clicks)
          /\ isViewLockPress' = (IF Move \in fixed THEN clicks ELSE isViewLockPress)
        BY <1>1 DEF LetGo
    <2>2. WheelInv'
        BY <2>1 DEF IInv, WheelInv, ViewTouchHasTimer, ViewTurnedIsTouched,
                    WheelTouchHasDirection
    <2>3. clicks => mIsMouseClick
        BY DEF ClicksAt
    <2>4. ~clicks => isViewLockPress
        BY DEF ClicksAt, IInv, MouseFollowsLock
    <2>5. isViewLockPress /\ clicks => mBrainPressGameKey' # NoKey
        <3> SUFFICES ASSUME isViewLockPress, clicks
                     PROVE  mBrainPressGameKey' # NoKey
            OBVIOUS
        <3>1. mBrainPressGameKey # NoKey
            BY <2>3 DEF IInv, MouseFollowsLock
        <3>2. ~(InUse /\ \E j \in Free : j < N + 1 /\ order[j] = mBrainPressGameKey)
            BY <3>1 DEF ClicksAt
        <3>3. ~(InUse /\ mBrainPressGameKey \in Names)
            BY <3>2, SlotAssumption DEF Names, Taken, Free
        <3> QED BY <2>1, <3>1, <3>3
    <2> HIDE DEF clicks
    <2>6. MouseFollowsLock'
        BY <2>1, <2>3, <2>4, <2>5 DEF MouseFollowsLock
    <2> QED BY <2>2, <2>6 DEF IInv
<1>2. CASE UNCHANGED manager
    BY <1>2, OtherKeys DEF manager, touches
<1> QED BY <1>1, <1>2 DEF FocusOutMethod

LEMMA InvHolds == Spec => []IInv
<1>1. Init => IInv
    BY DEF Init, IInv, WheelInv, ViewTouchHasTimer, ViewTurnedIsTouched,
           WheelTouchHasDirection, MouseFollowsLock
<1>2. TypeOK /\ IInv /\ [Next]_vars => IInv'
    <2> SUFFICES ASSUME TypeOK, IInv, [Next]_vars PROVE IInv'
        OBVIOUS
    <2> USE Reserved
    <2>1. Order
        BY DEF TypeOK, Order
    <2>2. ASSUME NEW k \in Keys,
                 \/ KeyPress(k) \/ KeyRelease(k) \/ ButtonPress(k) \/ ButtonRelease(k)
          PROVE  IInv'
        <3>1. PICK pressed \in BOOLEAN : KeyboardGamekeyMethod(k, pressed)
            BY <2>2 DEF KeyPress, KeyRelease, ButtonPress, ButtonRelease, Pressed, Released
        <3> QED BY <3>1, MethodKeeps
    <2>3. CASE MouseMove
        <3>1. ~mIsMouseClick /\ fixed' = fixed \cup {Move}
              /\ UNCHANGED <<wheels, lock, mBrainPressGameKey>>
            BY <2>3 DEF MouseMove
        <3>2. WheelInv'
            BY <3>1 DEF IInv, WheelInv, ViewTouchHasTimer, ViewTurnedIsTouched,
                        WheelTouchHasDirection, wheels, Directions
        <3>3. MouseFollowsLock'
            BY <3>1 DEF IInv, MouseFollowsLock, lock
        <3> QED BY <3>2, <3>3 DEF IInv
    <2>4. CASE ViewTick
        <3>1. /\ UNCHANGED <<mPovValue, mViewValue, lock, mBrainPressGameKey>>
              /\ \/ /\ fixed' \in {fixed, fixed \cup {View}}
                    /\ mViewTimer /\ mViewTimer' = mViewTimer
                 \/ fixed' = fixed \ {View} /\ mViewValue = 0 /\ ~mViewTimer'
            BY <2>4 DEF ViewTick
        <3>2. WheelInv'
            BY <3>1 DEF IInv, WheelInv, ViewTouchHasTimer, ViewTurnedIsTouched,
                        WheelTouchHasDirection, Directions
        <3>3. MouseFollowsLock'
            BY <3>1 DEF IInv, MouseFollowsLock, lock
        <3> QED BY <3>2, <3>3 DEF IInv
    <2>5. CASE FocusOut
        BY <2>1, <2>5, LetGoKeeps DEF FocusOut
    <2>6. CASE UnFocusWindow
        BY <2>1, <2>6, LetGoKeeps DEF UnFocusWindow
    <2>7. CASE \/ KeyReleasedElsewhere \/ ComboTick \/ FocusIn \/ FocusWindow \/ LoseInput
               \/ ToSettings \/ ExitSettings \/ HideGameKeysWhileRotation
               \/ UNCHANGED vars
        <3>1. UNCHANGED <<fixed, wheels, lock, mBrainPressGameKey>>
            BY <2>7 DEF KeyReleasedElsewhere, ComboTick, FocusIn, FocusWindow, LoseInput,
                    ToSettings, ExitSettings, HideGameKeysWhileRotation, vars, manager,
                    touches
        <3> QED BY <3>1, OtherKeys
    <2> QED BY <2>2, <2>3, <2>4, <2>5, <2>6, <2>7 DEF Next
<1> QED BY <1>1, <1>2, TypeCorrect, PTL DEF Spec

\* No touch of the view is left behind without the timer
\* that lifts it.
THEOREM NoViewTouchLeft == Spec => []ViewTouchHasTimer
<1>1. IInv => ViewTouchHasTimer
    BY DEF IInv, WheelInv
<1> QED BY <1>1, InvHolds, PTL

\* The wheel is touched only in a direction.
THEOREM NoIdleWheelTouch == Spec => []WheelTouchHasDirection
<1>1. IInv => WheelTouchHasDirection
    BY DEF IInv, WheelInv
<1> QED BY <1>1, InvHolds, PTL

\* Only a locked view takes it, only a brain key borrows it.
THEOREM MouseIsGivenBack == Spec => []MouseFollowsLock
<1>1. IInv => MouseFollowsLock
    BY DEF IInv
<1> QED BY <1>1, InvHolds, PTL
=============================================================================
