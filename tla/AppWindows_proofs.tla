------------------------- MODULE AppWindows_proofs -------------------------
(***************************************************************************)
(* Theorems about AppWindows, for every set of apps, windows and startapp  *)
(* processes and every bound.                                              *)
(***************************************************************************)
EXTENDS AppWindows, SequenceTheorems, FiniteSetTheorems, TLAPS

-----------------------------------------------------------------------------
(* The invariant.  That the windows and the map match is not inductive by  *)
(* itself: a dialog of a window that is gone would, once answered, take    *)
(* the entry of another window out of the map.                             *)

\* Every dialog on screen belongs to a window that exists.
DialogsHaveWindows == \A m \in modals : win[m.win].open

IInv == TypeOK /\ MapMatchesWindows /\ DialogsHaveWindows

\* The part of TypeOK that the handlers of the GUI thread write.
GuiTypes == /\ mWindowMap \in [Pkgs -> Windows \cup {NoWindow}]
            /\ win \in [Windows -> Window]
            /\ modals \subseteq Modal /\ IsFiniteSet(modals)
            /\ process \in {"alive", "exited"}
            /\ toAndroid \in Seq(Pkgs)
            /\ hintClosed \subseteq Pkgs

ExitTypes == /\ mExitTimer \in {"none", "running", "stopped"}
             /\ container \in {"up", "stopping", "signalled", "stopped"}

AndroidTypes == /\ android \in [Pkgs -> {NoId} \cup 1 .. MaxId]
                /\ lastId \in 0 .. MaxId
                /\ lost \in 0 .. MaxLost

GuiInv == GuiTypes /\ MapMatchesWindows /\ DialogsHaveWindows

LEMMA IInvParts ==
    IInv <=> /\ GuiInv /\ ExitTypes /\ AndroidTypes
             /\ startapp \in [Starters -> Starter]
             /\ fromAndroid \in Seq(Message)
BY DEF IInv, TypeOK, GuiInv, GuiTypes, ExitTypes, AndroidTypes

LEMMA IInvPartsNext ==
    ASSUME GuiInv', ExitTypes', AndroidTypes', startapp' \in [Starters -> Starter],
           fromAndroid' \in Seq(Message)
    PROVE  IInv'
BY DEF IInv, TypeOK, GuiInv, GuiTypes, ExitTypes, AndroidTypes

-----------------------------------------------------------------------------
(* Dialogs                                                                 *)

LEMMA RestackedType ==
    ASSUME NEW ms \in SUBSET Modal, IsFiniteSet(ms)
    PROVE  /\ Restacked(ms) \subseteq Modal
           /\ IsFiniteSet(Restacked(ms))
           /\ \A r \in Restacked(ms) : \E m \in ms : r.win = m.win
<1> DEFINE count(m) == Cardinality({n \in ms : n.nth <= m.nth})
           image(m) == [m EXCEPT !.nth = count(m)]
           f        == [m \in ms |-> image(m)]
<1>1. ASSUME NEW m \in ms
      PROVE  image(m) \in Modal /\ image(m).win = m.win
  <2>1. IsFiniteSet({n \in ms : n.nth <= m.nth})
    BY FS_Subset
  <2>2. count(m) \in Nat
    BY <2>1, FS_CardinalityType
  <2> HIDE DEF count
  <2> QED BY <2>2 DEF Modal
<1>2. Restacked(ms) = {image(m) : m \in ms}
  BY DEF Restacked
<1> HIDE DEF image
<1>3. f \in Surjection(ms, Restacked(ms))
  BY <1>2 DEF Surjection
<1>4. IsFiniteSet(Restacked(ms))
  BY <1>3, FS_Surjection
<1> QED BY <1>1, <1>2, <1>4

LEMMA OpenedType ==
    ASSUME NEW ms \in SUBSET Modal, IsFiniteSet(ms),
           NEW kind \in {"timeout", "hint"}, NEW w \in Windows
    PROVE  /\ Opened(ms, kind, w) \subseteq Modal
           /\ IsFiniteSet(Opened(ms, kind, w))
           /\ \A r \in Opened(ms, kind, w) : r.win = w \/ \E m \in ms : r.win = m.win
<1> DEFINE new == [kind |-> kind, win |-> w, nth |-> Cardinality(ms) + 1]
<1>1. new \in Modal /\ new.win = w
  BY FS_CardinalityType DEF Modal
<1>2. Opened(ms, kind, w) = Restacked(ms) \cup {new}
  BY DEF Opened
<1> HIDE DEF new
<1>3. IsFiniteSet(Restacked(ms) \cup {new})
  BY RestackedType, FS_AddElement
<1> QED BY <1>1, <1>2, <1>3, RestackedType

-----------------------------------------------------------------------------
(* One window                                                              *)

LEMMA UnusedType == Unused \in Window /\ ~Unused.open /\ Unused.pkg \in Pkgs
<1>1. (CHOOSE p \in Pkgs : TRUE) \in Pkgs
  BY PkgAssumption
<1> QED BY <1>1 DEF Unused, Window

LEMMA NewWindowType ==
    ASSUME NEW p \in Pkgs, NEW id \in {NoId} \cup 1 .. MaxId, NEW b \in BOOLEAN
    PROVE  LET new == BootTimer(NewWindow(p, id), b)
           IN  new \in Window /\ new.open /\ new.pkg = p
BY DEF BootTimer, StartBootTimer, StopBootTimer, NewWindow, Window

LEMMA ShownWindowType ==
    ASSUME NEW o \in Window, NEW id \in {NoId} \cup 1 .. MaxId,
           NEW n \in BOOLEAN, NEW b \in BOOLEAN
    PROVE  LET new == BootTimer(ShowMainWindow(UpdateDisplay(o, id, n)), b)
           IN  new \in Window /\ new.open = o.open /\ new.pkg = o.pkg
<1>1. UpdateDisplay(o, id, n) \in Window /\ UpdateDisplay(o, id, n).open = o.open
      /\ UpdateDisplay(o, id, n).pkg = o.pkg
  BY DEF UpdateDisplay, Window
<1> DEFINE u == UpdateDisplay(o, id, n)
           s == ShowMainWindow(u)
<1> HIDE DEF u
<1>2. s \in Window /\ s.open = o.open /\ s.pkg = o.pkg
  BY <1>1 DEF u, ShowMainWindow, Window
<1> HIDE DEF s
<1>3. BootTimer(s, b) \in Window /\ BootTimer(s, b).open = o.open
      /\ BootTimer(s, b).pkg = o.pkg
  BY <1>2 DEF BootTimer, StartBootTimer, StopBootTimer, Window
<1> QED BY <1>3 DEF s, u

\* What the other changes to a window leave as it is.
LEMMA SameWindow ==
    ASSUME GuiInv, NEW w \in Windows, NEW new \in Window,
           new.open = win[w].open, new.pkg = win[w].pkg,
           win' = [win EXCEPT ![w] = new], UNCHANGED mWindowMap,
           NEW ms \in SUBSET Modal, IsFiniteSet(ms), modals' = ms,
           \A m \in ms : win[m.win].open,
           UNCHANGED <<process, toAndroid, hintClosed>>
    PROVE  GuiInv'
<1>1. win' \in [Windows -> Window]
  BY DEF GuiInv, GuiTypes
<1>2. \A v \in Windows : win'[v].open = win[v].open /\ win'[v].pkg = win[v].pkg
  BY DEF GuiInv, GuiTypes
<1>3. GuiTypes'
  BY <1>1 DEF GuiInv, GuiTypes
<1>4. MapMatchesWindows'
  BY <1>2 DEF GuiInv, GuiTypes, MapMatchesWindows
<1>5. DialogsHaveWindows'
  BY <1>2 DEF DialogsHaveWindows, Modal
<1> QED BY <1>3, <1>4, <1>5 DEF GuiInv

-----------------------------------------------------------------------------
(* The window map                                                          *)

LEMMA CloseWindowKeeps ==
    ASSUME GuiInv, NEW w \in Windows, win[w].open,
           NEW ms \in SUBSET modals, NEW crashed \in BOOLEAN,
           CloseWindow(w, ms, crashed)
    PROVE  GuiInv'
<1> DEFINE p    == win[w].pkg
           rest == {m \in ms : m.win # w}
<1>1. p \in Pkgs /\ mWindowMap[p] = w
  BY DEF GuiInv, GuiTypes, MapMatchesWindows, Window
<1>2. /\ mWindowMap' = [mWindowMap EXCEPT ![p] = NoWindow]
      /\ win' = [win EXCEPT ![w] = Unused]
      /\ modals' = Restacked(rest)
      /\ toAndroid' \in {toAndroid, Append(toAndroid, p)}
      /\ process' \in {"alive", "exited"}
      /\ hintClosed' \in {hintClosed, hintClosed \cup {p}}
  BY DEF CloseWindow, CloseApp, RequestClose
<1>3. rest \in SUBSET Modal /\ IsFiniteSet(rest)
  BY FS_Subset DEF GuiInv, GuiTypes
<1>4. /\ modals' \subseteq Modal /\ IsFiniteSet(modals')
      /\ \A r \in modals' : \E m \in rest : r.win = m.win
  <2> HIDE DEF rest
  <2> QED BY <1>2, <1>3, RestackedType
<1>5. toAndroid' \in Seq(Pkgs)
  BY <1>1, <1>2, AppendProperties DEF GuiInv, GuiTypes
<1>6. win' \in [Windows -> Window]
      /\ \A v \in Windows : win'[v] = IF v = w THEN Unused ELSE win[v]
  BY <1>2, UnusedType DEF GuiInv, GuiTypes
<1>7. mWindowMap' \in [Pkgs -> Windows \cup {NoWindow}]
      /\ \A q \in Pkgs : mWindowMap'[q] = IF q = p THEN NoWindow ELSE mWindowMap[q]
  BY <1>1, <1>2 DEF GuiInv, GuiTypes
<1>8. GuiTypes'
  BY <1>1, <1>2, <1>4, <1>5, <1>6, <1>7 DEF GuiInv, GuiTypes
<1>9. MapMatchesWindows'
  <2>1. ASSUME NEW q \in Pkgs, mWindowMap'[q] # NoWindow
        PROVE  win'[mWindowMap'[q]].open /\ win'[mWindowMap'[q]].pkg = q
    BY <2>1, <1>1, <1>6, <1>7 DEF GuiInv, GuiTypes, MapMatchesWindows
  <2>2. ASSUME NEW v \in Windows, win'[v].open
        PROVE  mWindowMap'[win'[v].pkg] = v
    <3>1. v # w /\ win'[v] = win[v]
      BY <2>2, <1>6, UnusedType
    <3>2. mWindowMap[win[v].pkg] = v /\ win[v].pkg \in Pkgs
      BY <2>2, <3>1 DEF GuiInv, GuiTypes, MapMatchesWindows, Window
    <3> QED BY <3>1, <3>2, <1>1, <1>7
  <2> QED BY <2>1, <2>2 DEF MapMatchesWindows
<1>10. DialogsHaveWindows'
  <2>1. ASSUME NEW r \in modals'
        PROVE  win'[r.win].open
    <3>1. PICK m \in rest : r.win = m.win
      BY <1>4
    <3>2. m.win # w /\ m.win \in Windows /\ win[m.win].open
      BY DEF GuiInv, GuiTypes, DialogsHaveWindows, Modal
    <3> QED BY <3>1, <3>2, <1>6
  <2> QED BY <2>1 DEF DialogsHaveWindows
<1> QED BY <1>8, <1>9, <1>10 DEF GuiInv

LEMMA CreateWindowKeeps ==
    ASSUME GuiInv, NEW p \in Pkgs, NEW id \in {NoId} \cup 1 .. MaxId,
           NEW n \in BOOLEAN, NEW b \in BOOLEAN, CreateWindow(p, id, n, b),
           hintClosed' = hintClosed \ {p},
           UNCHANGED <<modals, process, toAndroid>>
    PROVE  GuiInv'
<1>1. CASE mWindowMap[p] # NoWindow
  <2> DEFINE w   == mWindowMap[p]
             new == BootTimer(ShowMainWindow(UpdateDisplay(win[w], id, n)), b)
  <2>1. w \in Windows /\ win[w] \in Window
    BY <1>1 DEF GuiInv, GuiTypes
  <2>2. win' = [win EXCEPT ![w] = new] /\ UNCHANGED mWindowMap
    BY <1>1, <2>1 DEF CreateWindow, GuiInv, GuiTypes
  <2>3. new \in Window /\ new.open = win[w].open /\ new.pkg = win[w].pkg
    BY <2>1, ShownWindowType
  <2> HIDE DEF new
  <2>4. /\ win' \in [Windows -> Window]
        /\ \A v \in Windows : win'[v].open = win[v].open /\ win'[v].pkg = win[v].pkg
    BY <2>1, <2>2, <2>3 DEF GuiInv, GuiTypes
  <2>5. GuiTypes'
    BY <2>2, <2>4 DEF GuiInv, GuiTypes
  <2>6. MapMatchesWindows'
    BY <2>2, <2>4 DEF GuiInv, GuiTypes, MapMatchesWindows
  <2>7. DialogsHaveWindows'
    BY <2>4 DEF GuiInv, GuiTypes, DialogsHaveWindows, Modal
  <2> QED BY <2>5, <2>6, <2>7 DEF GuiInv
<1>2. CASE mWindowMap[p] = NoWindow
  <2> DEFINE new == BootTimer(NewWindow(p, id), b)
  <2>1. PICK w \in Fresh : /\ mWindowMap' = [mWindowMap EXCEPT ![p] = w]
                           /\ win' = [win EXCEPT ![w] = new]
    BY <1>2 DEF CreateWindow
  <2>2. w \in Windows /\ ~win[w].open
    BY DEF Fresh
  <2>3. new \in Window /\ new.open /\ new.pkg = p
    BY NewWindowType
  <2> HIDE DEF new
  <2>4. /\ win' \in [Windows -> Window]
        /\ \A v \in Windows : win'[v] = IF v = w THEN new ELSE win[v]
    BY <2>1, <2>2, <2>3 DEF GuiInv, GuiTypes
  <2>5. /\ mWindowMap' \in [Pkgs -> Windows \cup {NoWindow}]
        /\ \A q \in Pkgs : mWindowMap'[q] = IF q = p THEN w ELSE mWindowMap[q]
    BY <2>1, <2>2 DEF GuiInv, GuiTypes
  <2>6. GuiTypes'
    BY <2>4, <2>5 DEF GuiInv, GuiTypes
  <2>7. MapMatchesWindows'
    <3>1. ASSUME NEW q \in Pkgs, mWindowMap'[q] # NoWindow
          PROVE  win'[mWindowMap'[q]].open /\ win'[mWindowMap'[q]].pkg = q
      BY <3>1, <2>2, <2>3, <2>4, <2>5 DEF GuiInv, GuiTypes, MapMatchesWindows
    <3>2. ASSUME NEW v \in Windows, win'[v].open
          PROVE  mWindowMap'[win'[v].pkg] = v
      <4>1. CASE v = w
        BY <4>1, <2>3, <2>4, <2>5
      <4>2. CASE v # w
        <5>1. mWindowMap[win[v].pkg] = v /\ win[v].pkg \in Pkgs
          BY <4>2, <3>2, <2>4 DEF GuiInv, GuiTypes, MapMatchesWindows, Window
        <5>2. win[v].pkg # p
          BY <5>1, <1>2, WindowAssumption
        <5> QED BY <4>2, <5>1, <5>2, <2>4, <2>5
      <4> QED BY <4>1, <4>2
    <3> QED BY <3>1, <3>2 DEF MapMatchesWindows
  <2>8. DialogsHaveWindows'
    BY <2>2, <2>4 DEF GuiInv, GuiTypes, DialogsHaveWindows, Modal
  <2> QED BY <2>6, <2>7, <2>8 DEF GuiInv
<1> QED BY <1>1, <1>2

-----------------------------------------------------------------------------
(* The steps                                                               *)

LEMMA MessageTyped ==
    ASSUME fromAndroid \in Seq(Message), NEW i \in DOMAIN fromAndroid
    PROVE  /\ fromAndroid[i] \in Message
           /\ RemoveAt(fromAndroid, i) \in Seq(Message)
BY DEF RemoveAt

LEMMA Unchanged ==
    ASSUME GuiInv, UNCHANGED <<guiVars, process, toAndroid>>
    PROVE  GuiInv'
BY DEF GuiInv, GuiTypes, MapMatchesWindows, DialogsHaveWindows, guiVars

LEMMA ActiveAppKeeps ==
    ASSUME GuiInv, NEW p \in Pkgs, ActiveApp(p)
    PROVE  GuiInv'
<1>1. CASE mWindowMap[p] # NoWindow
  <2> DEFINE w   == mWindowMap[p]
             new == ShowMainWindow(win[w])
  <2>1. w \in Windows /\ win[w] \in Window
    BY <1>1 DEF GuiInv, GuiTypes
  <2>2. win' = [win EXCEPT ![w] = new]
    BY <1>1, <2>1 DEF ActiveApp, GuiInv, GuiTypes
  <2>3. new \in Window /\ new.open = win[w].open /\ new.pkg = win[w].pkg
    BY <2>1 DEF ShowMainWindow, Window
  <2>4. UNCHANGED <<mWindowMap, modals, process, toAndroid, hintClosed>>
    BY DEF ActiveApp
  <2>5. modals \in SUBSET Modal /\ IsFiniteSet(modals) /\ \A m \in modals : win[m.win].open
    BY DEF GuiInv, GuiTypes, DialogsHaveWindows
  <2> HIDE DEF new, w
  <2> QED BY <2>1, <2>2, <2>3, <2>4, <2>5, SameWindow
<1>2. CASE mWindowMap[p] = NoWindow
  BY <1>2, Unchanged DEF ActiveApp, guiVars
<1> QED BY <1>1, <1>2

LEMMA OnAppCloseSucceedKeeps ==
    ASSUME GuiInv, NEW p \in Pkgs, OnAppCloseSucceed(p)
    PROVE  GuiInv'
<1>1. CASE mWindowMap[p] # NoWindow
  <2> DEFINE w    == mWindowMap[p]
             rest == {m \in modals : m.kind = "hint" => m.win # w}
  <2>1. w \in Windows /\ win[w].open
    BY <1>1 DEF GuiInv, GuiTypes, MapMatchesWindows
  <2>2. rest \in SUBSET Modal /\ IsFiniteSet(rest)
    BY FS_Subset DEF GuiInv, GuiTypes
  <2>3. modals' = Opened(rest, "hint", w)
    BY <1>1 DEF OnAppCloseSucceed, ShowCrashedHintDialog
  <2>4. \A m \in rest : win[m.win].open
    BY DEF GuiInv, DialogsHaveWindows
  <2>5. UNCHANGED <<mWindowMap, win, process, toAndroid, hintClosed>>
    BY DEF OnAppCloseSucceed
  <2> HIDE DEF rest, w
  <2>6. modals' \in SUBSET Modal /\ IsFiniteSet(modals') /\ \A m \in modals' : win[m.win].open
    BY <2>1, <2>2, <2>3, <2>4, OpenedType
  <2> QED BY <2>5, <2>6
          DEF GuiInv, GuiTypes, MapMatchesWindows, DialogsHaveWindows
<1>2. CASE mWindowMap[p] = NoWindow
  BY <1>2, Unchanged DEF OnAppCloseSucceed, guiVars
<1> QED BY <1>1, <1>2

LEMMA AppUninstalledKeeps ==
    ASSUME GuiInv, NEW p \in Pkgs, AppUninstalled(p)
    PROVE  GuiInv' /\ UNCHANGED exitVars
<1>1. CASE mWindowMap[p] # NoWindow
  <2>1. mWindowMap[p] \in Windows /\ win[mWindowMap[p]].open
    BY <1>1 DEF GuiInv, GuiTypes, MapMatchesWindows
  <2>2. CloseWindow(mWindowMap[p], modals, FALSE)
    BY <1>1 DEF AppUninstalled
  <2>3. UNCHANGED exitVars
    BY <2>2 DEF CloseWindow
  <2> QED BY <2>1, <2>2, <2>3, CloseWindowKeeps
<1>2. CASE mWindowMap[p] = NoWindow
  BY <1>2, Unchanged DEF AppUninstalled, guiVars, exitVars
<1> QED BY <1>1, <1>2

LEMMA OnMessageKeeps ==
    ASSUME IInv, NEW i \in DOMAIN fromAndroid, OnMessage(i)
    PROVE  IInv'
<1> DEFINE m == fromAndroid[i]
<1>1. m \in Message /\ RemoveAt(fromAndroid, i) \in Seq(Message)
  BY IInvParts, MessageTyped
<1>2. m.pkg \in Pkgs /\ m.id \in {NoId} \cup 1 .. MaxId /\ m.named \in BOOLEAN
  BY <1>1 DEF Message
<1>3. /\ fromAndroid' \in Seq(Message)
      /\ UNCHANGED <<startapp, androidVars>>
  BY <1>1 DEF OnMessage
<1>4. \/ OnAppLaunchSucceed(m.pkg, m.id, m.named)
      \/ OnAppCloseSucceed(m.pkg)
      \/ AppUninstalled(m.pkg)
  BY DEF OnMessage
<1> HIDE DEF m
<1>5. GuiInv' /\ UNCHANGED exitVars
  <2>1. CASE OnAppLaunchSucceed(m.pkg, m.id, m.named)
    BY <2>1, <1>2, IInvParts, CreateWindowKeeps DEF OnAppLaunchSucceed
  <2>2. CASE OnAppCloseSucceed(m.pkg)
    BY <2>2, <1>2, IInvParts, OnAppCloseSucceedKeeps DEF OnAppCloseSucceed
  <2>3. CASE AppUninstalled(m.pkg)
    BY <2>3, <1>2, IInvParts, AppUninstalledKeeps
  <2> QED BY <2>1, <2>2, <2>3, <1>4
<1>6. ExitTypes' /\ AndroidTypes' /\ startapp' \in [Starters -> Starter]
  BY <1>3, <1>5, IInvParts DEF ExitTypes, AndroidTypes, exitVars, androidVars
<1> QED BY <1>3, <1>5, <1>6, IInvPartsNext

\* What a step of the GUI thread leaves alone, but for the startapp processes.
LEMMA GuiStepKeeps ==
    ASSUME IInv, GuiInv', UNCHANGED exitVars, UNCHANGED <<fromAndroid, androidVars>>,
           startapp' \in [Starters -> Starter]
    PROVE  IInv'
<1>1. ExitTypes' /\ AndroidTypes' /\ fromAndroid' \in Seq(Message)
  BY IInvParts DEF ExitTypes, AndroidTypes, exitVars, androidVars
<1> QED BY <1>1, IInvPartsNext

LEMMA BootTimeoutKeeps ==
    ASSUME IInv, NEW w \in Windows, BootTimeout(w)
    PROVE  IInv'
<1> DEFINE new == [win[w] EXCEPT !.boot = "stopped"]
<1>1. GuiInv /\ win[w] \in Window /\ startapp \in [Starters -> Starter]
  BY IInvParts DEF GuiInv, GuiTypes
<1>2. new \in Window /\ new.open = win[w].open /\ new.pkg = win[w].pkg
  BY <1>1 DEF Window
<1>3. /\ win' = [win EXCEPT ![w] = new]
      /\ modals' = Opened(modals, "timeout", w)
      /\ UNCHANGED <<mWindowMap, process, toAndroid, hintClosed, exitVars>>
      /\ UNCHANGED <<startapp, fromAndroid, androidVars>>
      /\ win[w].open
  BY <1>1 DEF BootTimeout, othersVars, exitVars, GuiInv, GuiTypes
<1>4. modals \in SUBSET Modal /\ IsFiniteSet(modals) /\ \A m \in modals : win[m.win].open
  BY <1>1 DEF GuiInv, GuiTypes, DialogsHaveWindows
<1>5. modals' \in SUBSET Modal /\ IsFiniteSet(modals') /\ \A m \in modals' : win[m.win].open
  BY <1>3, <1>4, OpenedType
<1> HIDE DEF new
<1>6. GuiInv'
  BY <1>1, <1>2, <1>3, <1>5, SameWindow
<1> QED BY <1>1, <1>3, <1>6, GuiStepKeeps

LEMMA DismissTimeoutKeeps ==
    ASSUME IInv, NEW d \in modals, DismissTimeout(d)
    PROVE  IInv'
<1>1. GuiInv /\ d.win \in Windows /\ win[d.win].open
  BY IInvParts DEF GuiInv, GuiTypes, DialogsHaveWindows, Modal
<1>2. CloseWindow(d.win, modals \ {d}, FALSE) /\ UNCHANGED othersVars
  BY DEF DismissTimeout
<1>3. GuiInv' /\ UNCHANGED exitVars
  BY <1>1, <1>2, CloseWindowKeeps DEF CloseWindow
<1> QED BY <1>2, <1>3, IInvParts, GuiStepKeeps DEF othersVars

LEMMA AnswerHintKeeps ==
    ASSUME IInv, NEW d \in modals, NEW restart \in BOOLEAN, AnswerHint(d, restart)
    PROVE  IInv'
<1>1. GuiInv /\ d.win \in Windows /\ win[d.win].open /\ win[d.win].pkg \in Pkgs
  BY IInvParts DEF GuiInv, GuiTypes, DialogsHaveWindows, Modal, Window
<1>2. CloseWindow(d.win, modals, TRUE) /\ UNCHANGED <<fromAndroid, androidVars>>
  BY DEF AnswerHint
<1>3. GuiInv' /\ UNCHANGED exitVars
  BY <1>1, <1>2, CloseWindowKeeps DEF CloseWindow
<1>4. startapp' \in [Starters -> Starter]
  BY <1>1, IInvParts DEF AnswerHint, Starter
<1> QED BY <1>2, <1>3, <1>4, GuiStepKeeps

LEMMA UserStepKeeps ==
    ASSUME IInv, NEW w \in Windows, UserStep(w)
    PROVE  IInv'
<1>1. /\ GuiInv /\ win[w] \in Window /\ startapp \in [Starters -> Starter]
      /\ modals \in SUBSET Modal /\ IsFiniteSet(modals)
      /\ \A m \in modals : win[m.win].open
  BY IInvParts DEF GuiInv, GuiTypes, DialogsHaveWindows
<1>2. ASSUME win[w].open, CloseWindow(w, modals, FALSE), UNCHANGED othersVars
      PROVE  IInv'
  <2>1. GuiInv' /\ UNCHANGED exitVars
    BY <1>1, <1>2, CloseWindowKeeps DEF CloseWindow
  <2> QED BY <2>1, <1>1, <1>2, GuiStepKeeps DEF othersVars
<1>3. ASSUME NEW new \in Window, new.open = win[w].open, new.pkg = win[w].pkg,
             win' = [win EXCEPT ![w] = new], UNCHANGED othersVars,
             UNCHANGED <<mWindowMap, modals, process, toAndroid, exitVars, hintClosed>>
      PROVE  IInv'
  <2>1. GuiInv'
    BY <1>1, <1>3, SameWindow
  <2> QED BY <2>1, <1>1, <1>3, GuiStepKeeps DEF othersVars
<1>4. CASE UserClose(w)
  <2>1. CASE win[w].boot # "none" \/ win[w].pkg \notin TrayPkgs
    BY <1>2, <1>4, <2>1 DEF UserClose
  <2>2. CASE ~(win[w].boot # "none" \/ win[w].pkg \notin TrayPkgs)
    <3> DEFINE new == [win[w] EXCEPT !.shown = FALSE]
    <3>1. new \in Window /\ new.open = win[w].open /\ new.pkg = win[w].pkg
      BY <1>1 DEF Window
    <3>2. /\ win' = [win EXCEPT ![w] = new] /\ UNCHANGED othersVars
          /\ UNCHANGED <<mWindowMap, modals, process, toAndroid, exitVars, hintClosed>>
      BY <1>1, <1>4, <2>2 DEF UserClose, GuiInv, GuiTypes
    <3> HIDE DEF new
    <3> QED BY <1>3, <3>1, <3>2
  <2> QED BY <2>1, <2>2
<1>5. CASE UserQuit(w)
  BY <1>2, <1>5 DEF UserQuit
<1>6. CASE TrayOpen(w)
  <2> DEFINE new == ShowMainWindow(win[w])
  <2>1. new \in Window /\ new.open = win[w].open /\ new.pkg = win[w].pkg
    BY <1>1 DEF Window, ShowMainWindow
  <2>2. /\ win' = [win EXCEPT ![w] = new] /\ UNCHANGED othersVars
        /\ UNCHANGED <<mWindowMap, modals, process, toAndroid, exitVars, hintClosed>>
    BY <1>1, <1>6 DEF TrayOpen, othersVars, GuiInv, GuiTypes
  <2> HIDE DEF new
  <2> QED BY <1>3, <2>1, <2>2
<1>7. CASE ConfirmCloseEnv(w)
  <2>1. GuiInv'
    BY <1>1, <1>7, Unchanged DEF ConfirmCloseEnv
  <2>2. ExitTypes' /\ AndroidTypes' /\ fromAndroid' \in Seq(Message) /\ UNCHANGED startapp
    BY <1>7, IInvParts
       DEF ConfirmCloseEnv, WaitForExit, ExitTypes, AndroidTypes, othersVars, androidVars
  <2> QED BY <2>1, <2>2, <1>1, IInvPartsNext
<1> QED BY <1>4, <1>5, <1>6, <1>7 DEF UserStep

LEMMA QuitKeeps ==
    ASSUME IInv, OnKmreDockerEnvStopped \/ ExitTimeout
    PROVE  IInv'
<1>1. QuitSafely /\ ExitTypes'
  BY IInvParts DEF OnKmreDockerEnvStopped, ExitTimeout, ExitTypes
<1>2. /\ win' = [w \in Windows |-> Unused]
      /\ mWindowMap' = [p \in Pkgs |-> NoWindow]
      /\ modals' = {} /\ process' = "exited"
      /\ UNCHANGED <<toAndroid, startapp, fromAndroid, androidVars, hintClosed>>
  BY <1>1 DEF QuitSafely
<1>3. GuiInv'
  BY <1>2, IInvParts, UnusedType, FS_EmptySet
     DEF GuiInv, GuiTypes, MapMatchesWindows, DialogsHaveWindows
<1>4. AndroidTypes' /\ startapp' \in [Starters -> Starter] /\ fromAndroid' \in Seq(Message)
  BY <1>2, IInvParts DEF AndroidTypes, androidVars
<1> QED BY <1>1, <1>3, <1>4, IInvPartsNext

LEMMA AndroidLaunchTypes ==
    ASSUME IInv, NEW p \in Pkgs, AndroidLaunch(p), UNCHANGED lost
    PROVE  AndroidTypes' /\ fromAndroid' \in Seq(Message)
<1>1. /\ android \in [Pkgs -> {NoId} \cup 1 .. MaxId] /\ lastId \in 0 .. MaxId
      /\ lost \in 0 .. MaxLost /\ fromAndroid \in Seq(Message)
  BY IInvParts DEF AndroidTypes
<1>2. ASSUME NEW id \in {NoId} \cup 1 .. MaxId, Send("launched", p, id)
      PROVE  fromAndroid' \in Seq(Message)
  <2>1. \A n \in BOOLEAN : [kind |-> "launched", pkg |-> p, id |-> id, named |-> n] \in Message
    BY DEF Message
  <2> QED BY <1>1, <1>2, <2>1, AppendProperties DEF Send
<1>3. CASE Send("launched", p, android[p]) /\ UNCHANGED <<android, lastId>>
  BY <1>1, <1>2, <1>3 DEF AndroidTypes
<1>4. CASE /\ lastId < MaxId /\ Send("launched", p, lastId + 1)
           /\ lastId' = lastId + 1 /\ android' = [android EXCEPT ![p] = lastId + 1]
  <2>1. lastId + 1 \in 1 .. MaxId
    BY <1>1, <1>4, BoundAssumption
  <2>2. fromAndroid' \in Seq(Message)
    BY <1>2, <1>4, <2>1
  <2> QED BY <1>1, <1>4, <2>1, <2>2, BoundAssumption DEF AndroidTypes
<1> QED BY <1>3, <1>4 DEF AndroidLaunch

LEMMA AppStopsTypes ==
    ASSUME IInv, NEW p \in Pkgs, NEW kind \in {"closed", "crashed", "uninstalled"},
           AppStops(p, kind), UNCHANGED <<lastId, lost>>
    PROVE  AndroidTypes' /\ fromAndroid' \in Seq(Message)
<1>1. \A n \in BOOLEAN : [kind |-> kind, pkg |-> p, id |-> android[p], named |-> n] \in Message
  BY IInvParts DEF AndroidTypes, Message
<1>2. fromAndroid' \in Seq(Message)
  BY <1>1, IInvParts, AppendProperties DEF AppStops, Send
<1> QED BY <1>2, IInvParts DEF AppStops, AndroidTypes

LEMMA StarterTypes ==
    ASSUME IInv, NEW s \in Starters
    PROVE  /\ startapp[s].pkg \in Pkgs
           /\ \A pc \in {"seen", "unseen", "locked", "shown"} :
                 StarterAt(s, pc) => startapp' \in [Starters -> Starter]
           /\ StarterEnds(s) => startapp' \in [Starters -> Starter]
<1>1. startapp \in [Starters -> Starter]
  BY IInvParts
<1>2. startapp[s] \in Starter
  BY <1>1
<1>3. ASSUME NEW pc \in {"seen", "unseen", "locked", "shown"}, StarterAt(s, pc)
      PROVE  startapp' \in [Starters -> Starter]
  <2> DEFINE new == [startapp[s] EXCEPT !.pc = pc]
  <2>1. new \in Starter
    BY <1>2 DEF Starter
  <2>2. startapp' = [startapp EXCEPT ![s] = new]
    BY <1>1, <1>3 DEF StarterAt
  <2> HIDE DEF new
  <2> QED BY <1>1, <2>1, <2>2
<1>4. NoStarter \in Starter
  BY UnusedType DEF NoStarter, Starter
<1>5. StarterEnds(s) => startapp' \in [Starters -> Starter]
  BY <1>1, <1>4 DEF StarterEnds
<1> QED BY <1>2, <1>3, <1>5 DEF Starter

LEMMA StarterStepKeeps ==
    ASSUME IInv, NEW s \in Starters, StarterStep(s) \/ \E p \in Pkgs : StartApp(s, p)
    PROVE  IInv'
<1>1. /\ GuiInv /\ startapp[s].pkg \in Pkgs
      /\ startapp \in [Starters -> Starter]
  BY IInvParts, StarterTypes
<1>2. ASSUME startapp' \in [Starters -> Starter],
             UNCHANGED <<guiVars, exitVars, process, toAndroid, fromAndroid, androidVars>>
      PROVE  IInv'
  BY <1>1, <1>2, Unchanged, GuiStepKeeps
<1>3. ASSUME NEW p \in Pkgs, StartApp(s, p)
      PROVE  IInv'
  <2>1. startapp' \in [Starters -> Starter]
    BY <1>1, <1>3 DEF StartApp, Starter
  <2> QED BY <1>2, <1>3, <2>1 DEF StartApp
<1>4. CASE GetRunningAppList(s)
  <2>1. startapp' \in [Starters -> Starter]
    BY <1>4, StarterTypes DEF GetRunningAppList
  <2> QED BY <1>2, <1>4, <2>1 DEF GetRunningAppList
<1>5. CASE CallActiveApp(s)
  <2>1. startapp' \in [Starters -> Starter]
    BY <1>5, StarterTypes DEF CallActiveApp
  <2>2. GuiInv' /\ UNCHANGED exitVars
    BY <1>1, <1>5, ActiveAppKeeps DEF CallActiveApp, ActiveApp
  <2> QED BY <1>5, <2>1, <2>2, GuiStepKeeps DEF CallActiveApp
<1>6. CASE TryLock(s)
  <2>1. startapp' \in [Starters -> Starter]
    BY <1>6, StarterTypes DEF TryLock
  <2> QED BY <1>2, <1>6, <2>1 DEF TryLock
<1>7. CASE CallLaunchApp(s)
  <2>1. startapp' \in [Starters -> Starter]
    BY <1>7, StarterTypes DEF CallLaunchApp
  <2>2. GuiInv' /\ UNCHANGED exitVars
    BY <1>1, <1>7, CreateWindowKeeps DEF CallLaunchApp, LaunchApp
  <2> QED BY <1>7, <2>1, <2>2, GuiStepKeeps DEF CallLaunchApp
<1>8. CASE RequestLaunch(s)
  <2>1. startapp' \in [Starters -> Starter]
    BY <1>8, StarterTypes DEF RequestLaunch
  <2>2. UNCHANGED <<guiVars, exitVars, process, toAndroid, lost>>
    BY <1>8 DEF RequestLaunch
  <2>3. GuiInv' /\ ExitTypes'
    BY <1>1, <2>2, Unchanged, IInvParts DEF ExitTypes, exitVars
  <2>4. AndroidTypes' /\ fromAndroid' \in Seq(Message)
    <3>1. CASE AndroidLaunch(startapp[s].pkg)
      BY <3>1, <2>2, <1>1, AndroidLaunchTypes
    <3>2. CASE UNCHANGED <<fromAndroid, android, lastId>>
      BY <3>2, <2>2, IInvParts DEF AndroidTypes
    <3> QED BY <3>1, <3>2, <1>8 DEF RequestLaunch
  <2> QED BY <2>1, <2>3, <2>4, IInvPartsNext
<1> QED BY <1>3, <1>4, <1>5, <1>6, <1>7, <1>8 DEF StarterStep

LEMMA AndroidKeeps ==
    ASSUME IInv, AndroidTypes', fromAndroid' \in Seq(Message),
           UNCHANGED <<guiVars, process, toAndroid, exitVars, startapp>>
    PROVE  IInv'
<1>1. GuiInv' /\ ExitTypes' /\ startapp' \in [Starters -> Starter]
  BY IInvParts, Unchanged DEF ExitTypes, exitVars
<1> QED BY <1>1, IInvPartsNext

LEMMA AndroidStepKeeps ==
    ASSUME IInv, NEW p \in Pkgs, AndroidStep(p)
    PROVE  IInv'
<1>1. CASE AndroidStarts(p)
  <2>1. AndroidTypes' /\ fromAndroid' \in Seq(Message)
    BY <1>1, AndroidLaunchTypes DEF AndroidStarts
  <2> QED BY <1>1, <2>1, AndroidKeeps DEF AndroidStarts
<1>2. CASE AppCrashes(p)
  <2>1. AndroidTypes' /\ fromAndroid' \in Seq(Message)
    BY <1>2, AppStopsTypes DEF AppCrashes
  <2> QED BY <1>2, <2>1, AndroidKeeps DEF AppCrashes
<1>3. CASE Uninstall(p)
  <2>1. AndroidTypes' /\ fromAndroid' \in Seq(Message)
    BY <1>3, AppStopsTypes DEF Uninstall
  <2> QED BY <1>3, <2>1, AndroidKeeps DEF Uninstall
<1> QED BY <1>1, <1>2, <1>3 DEF AndroidStep

LEMMA AndroidClosesKeeps ==
    ASSUME IInv, AndroidCloses
    PROVE  IInv'
<1>1. Head(toAndroid) \in Pkgs /\ Tail(toAndroid) \in Seq(Pkgs)
  BY IInvParts, HeadTailProperties DEF AndroidCloses, GuiInv, GuiTypes
<1>2. AndroidTypes' /\ fromAndroid' \in Seq(Message)
  <2>1. CASE AndroidUp /\ android[Head(toAndroid)] # NoId
    BY <1>1, <2>1, AppStopsTypes DEF AndroidCloses
  <2>2. CASE ~(AndroidUp /\ android[Head(toAndroid)] # NoId)
    BY <2>2, IInvParts DEF AndroidCloses, AndroidTypes
  <2> QED BY <2>1, <2>2
<1>3. /\ UNCHANGED <<guiVars, exitVars, process, startapp>>
      /\ toAndroid' = Tail(toAndroid)
  BY DEF AndroidCloses
<1>4. GuiInv'
  BY <1>1, <1>3, IInvParts
     DEF GuiInv, GuiTypes, MapMatchesWindows, DialogsHaveWindows, guiVars
<1>5. ExitTypes' /\ startapp' \in [Starters -> Starter]
  BY <1>3, IInvParts DEF ExitTypes, exitVars
<1> QED BY <1>2, <1>4, <1>5, IInvPartsNext

LEMMA ContainerStopsKeeps ==
    ASSUME IInv, ContainerStops
    PROVE  IInv'
<1>1. GuiInv'
  BY IInvParts, Unchanged DEF ContainerStops
<1>2. /\ ExitTypes' /\ AndroidTypes' /\ fromAndroid' \in Seq(Message)
      /\ startapp' \in [Starters -> Starter]
  BY IInvParts DEF ContainerStops, ExitTypes, AndroidTypes
<1> QED BY <1>1, <1>2, IInvPartsNext

LEMMA LoseMessageKeeps ==
    ASSUME IInv, NEW i \in DOMAIN fromAndroid, LoseMessage(i)
    PROVE  IInv'
<1>1. fromAndroid' \in Seq(Message)
  BY IInvParts, MessageTyped DEF LoseMessage
<1>2. AndroidTypes'
  BY IInvParts, BoundAssumption DEF LoseMessage, AndroidTypes
<1> QED BY <1>1, <1>2, AndroidKeeps DEF LoseMessage

-----------------------------------------------------------------------------
(* The theorems                                                            *)

LEMMA InitIInv == Init => IInv
<1> SUFFICES ASSUME Init PROVE IInv
  OBVIOUS
<1>1. GuiInv
  BY UnusedType, FS_EmptySet, WindowAssumption
     DEF Init, GuiInv, GuiTypes, MapMatchesWindows, DialogsHaveWindows
<1>2. ExitTypes /\ AndroidTypes /\ fromAndroid \in Seq(Message)
  BY BoundAssumption DEF Init, ExitTypes, AndroidTypes
<1>3. startapp \in [Starters -> Starter]
  BY UnusedType DEF Init, NoStarter, Starter
<1> QED BY <1>1, <1>2, <1>3, IInvParts

LEMMA NextIInv == IInv /\ [Next]_vars => IInv'
<1> SUFFICES ASSUME IInv, [Next]_vars PROVE IInv'
  OBVIOUS
<1>1. ASSUME NEW i \in DOMAIN fromAndroid, OnMessage(i) \/ LoseMessage(i)
      PROVE  IInv'
  BY <1>1, OnMessageKeeps, LoseMessageKeeps
<1>2. ASSUME NEW d \in modals,
             DismissTimeout(d) \/ \E restart \in BOOLEAN : AnswerHint(d, restart)
      PROVE  IInv'
  BY <1>2, DismissTimeoutKeeps, AnswerHintKeeps
<1>3. ASSUME NEW w \in Windows, BootTimeout(w) \/ UserStep(w)
      PROVE  IInv'
  BY <1>3, BootTimeoutKeeps, UserStepKeeps
<1>4. ASSUME NEW s \in Starters, StarterStep(s) \/ \E p \in Pkgs : StartApp(s, p)
      PROVE  IInv'
  BY <1>4, StarterStepKeeps
<1>5. ASSUME NEW p \in Pkgs, AndroidStep(p)
      PROVE  IInv'
  BY <1>5, AndroidStepKeeps
<1>6. CASE OnKmreDockerEnvStopped \/ ExitTimeout
  BY <1>6, QuitKeeps
<1>7. CASE AndroidCloses
  BY <1>7, AndroidClosesKeeps
<1>8. CASE ContainerStops
  BY <1>8, ContainerStopsKeeps
<1>9. CASE UNCHANGED vars
  BY <1>9 DEF vars, IInv, TypeOK, MapMatchesWindows, DialogsHaveWindows
<1> QED BY <1>1, <1>2, <1>3, <1>4, <1>5, <1>6, <1>7, <1>8, <1>9 DEF Next

\* Every variable keeps its type.
THEOREM TypeCorrect == Spec => []TypeOK
<1>1. IInv => TypeOK
  BY DEF IInv
<1> QED BY InitIInv, NextIInv, <1>1, PTL DEF Spec

\* An app never has two windows, no window is lost from mWindowMap, and no
\* entry points to a deleted window, however handlers, timeouts, dialogs,
\* messages and startapp processes interleave.
THEOREM WindowsAccountedFor == Spec => []MapMatchesWindows
<1>1. IInv => MapMatchesWindows
  BY DEF IInv
<1> QED BY InitIInv, NextIInv, <1>1, PTL DEF Spec

-----------------------------------------------------------------------------
(* Apps without a window.  The argument is about one app p and every step: *)
(* a step that takes the window of p away queues a close request or is the *)
(* answer to a crash hint, and one that starts p announces it.             *)

Traced(p) == Orphan(p) => Explained(p)

\* What a sequence keeps when it grows at one end and shrinks at the other.
LEMMA QueueElements ==
    ASSUME NEW S, NEW s \in Seq(S), NEW e \in S
    PROVE  /\ ToSet(Append(s, e)) = ToSet(s) \cup {e}
           /\ s # << >> => ToSet(s) \subseteq ToSet(Tail(s)) \cup {Head(s)}
<1>1. ToSet(Append(s, e)) = ToSet(s) \cup {e}
  BY AppendProperties DEF ToSet
<1>2. ASSUME s # << >>, NEW i \in DOMAIN s
      PROVE  s[i] \in ToSet(Tail(s)) \cup {Head(s)}
  <2>1. CASE i = 1
    BY <2>1, <1>2, HeadTailProperties
  <2>2. CASE i # 1
    <3>1. i - 1 \in DOMAIN Tail(s) /\ Tail(s)[i - 1] = s[i]
      BY <2>2, <1>2, HeadTailProperties
    <3> QED BY <3>1 DEF ToSet
  <2> QED BY <2>1, <2>2
<1> QED BY <1>1, <1>2 DEF ToSet

LEMMA SendAnnounces ==
    ASSUME fromAndroid \in Seq(Message), NEW p \in Pkgs, NEW q \in Pkgs,
           NEW kind \in {"launched", "closed", "crashed", "uninstalled"},
           NEW id \in {NoId} \cup 1 .. MaxId, Send(kind, q, id)
    PROVE  /\ Announced(p) => Announced(p)'
           /\ kind = "launched" => Announced(q)'
<1>2. PICK n \in BOOLEAN :
          fromAndroid' = Append(fromAndroid, [kind |-> kind, pkg |-> q, id |-> id, named |-> n])
  BY DEF Send
<1> DEFINE m == [kind |-> kind, pkg |-> q, id |-> id, named |-> n]
<1>1. m \in Message /\ m.kind = kind /\ m.pkg = q
  BY DEF Message
<1> HIDE DEF m
<1>3. /\ DOMAIN fromAndroid' = 1 .. Len(fromAndroid) + 1
      /\ \A i \in DOMAIN fromAndroid : /\ i \in DOMAIN fromAndroid'
                                     /\ fromAndroid'[i] = fromAndroid[i]
      /\ fromAndroid'[Len(fromAndroid) + 1] = m
  <2>1. fromAndroid' = Append(fromAndroid, m)
    BY <1>2 DEF m
  <2> QED BY <1>1, <2>1, AppendProperties
<1> QED BY <1>1, <1>3 DEF Announced

\* Taking a message from the queue leaves the others there.
LEMMA RemovalAnnounces ==
    ASSUME fromAndroid \in Seq(Message), NEW p \in Pkgs, NEW i \in DOMAIN fromAndroid,
           fromAndroid' = RemoveAt(fromAndroid, i),
           ~(fromAndroid[i].kind = "launched" /\ fromAndroid[i].pkg = p),
           Announced(p)
    PROVE  Announced(p)'
<1>1. PICK j \in DOMAIN fromAndroid :
             fromAndroid[j].kind = "launched" /\ fromAndroid[j].pkg = p
  BY DEF Announced
<1>2. j # i
  BY <1>1
<1>3. CASE j < i
  <2>1. j \in DOMAIN fromAndroid' /\ fromAndroid'[j] = fromAndroid[j]
    BY <1>3 DEF RemoveAt
  <2> QED BY <1>1, <2>1 DEF Announced
<1>4. CASE j > i
  <2> DEFINE before == SubSeq(fromAndroid, 1, i - 1)
             after  == SubSeq(fromAndroid, i + 1, Len(fromAndroid))
  <2>1. /\ before \in Seq(Message) /\ Len(before) = i - 1
        /\ after \in Seq(Message) /\ Len(after) = Len(fromAndroid) - i
        /\ \A k \in 1 .. Len(fromAndroid) - i : after[k] = fromAndroid[i + k]
    OBVIOUS
  <2>2. fromAndroid' = before \o after
    BY DEF RemoveAt
  <2> HIDE DEF before, after
  <2>3. j - i \in 1 .. Len(after) /\ j - 1 = Len(before) + (j - i)
    BY <1>4, <2>1
  <2>4. j - 1 \in DOMAIN fromAndroid' /\ fromAndroid'[j - 1] = fromAndroid[j]
    <3>1. \A n \in 1 .. Len(before) + Len(after) :
             (before \o after)[n] = IF n <= Len(before) THEN before[n]
                                    ELSE after[n - Len(before)]
      BY <2>1, ConcatProperties
    <3>2. /\ i \in Nat /\ j \in Nat /\ j - 1 \in 1 .. Len(before) + Len(after)
          /\ j - 1 > Len(before) /\ (j - 1) - Len(before) = j - i
      <4>1. /\ i \in 1 .. Len(fromAndroid) /\ j \in 1 .. Len(fromAndroid)
            /\ Len(fromAndroid) \in Nat
        BY LenProperties
      <4>2. Len(before) = i - 1 /\ Len(after) = Len(fromAndroid) - i
        BY <2>1
      <4> QED BY <1>4, <4>1, <4>2
    <3>3. (before \o after)[j - 1] = after[j - i]
      <4>1. ~(j - 1 <= Len(before))
        BY <3>2, <2>1
      <4> QED BY <3>1, <3>2, <4>1
    <3>4. j - 1 \in DOMAIN (before \o after)
      <4>1. DOMAIN (before \o after) = 1 .. Len(before) + Len(after)
        BY <2>1, ConcatProperties, LenProperties
      <4> QED BY <3>2, <4>1
    <3> QED BY <3>3, <3>4, <2>1, <2>2, <2>3
  <2> QED BY <1>1, <2>4 DEF Announced
<1> QED BY <1>2, <1>3, <1>4

\* Steps that take no trace of p away and give it no display.
LEMMA TracesKept ==
    ASSUME NEW p \in Pkgs, Traced(p),
           process' = "alive" => process = "alive",
           android'[p] # NoId => android[p] # NoId,
           mWindowMap'[p] = NoWindow => mWindowMap[p] = NoWindow,
           Announced(p) => Announced(p)',
           p \in ToSet(toAndroid) => p \in ToSet(toAndroid'),
           p \in hintClosed => p \in hintClosed'
    PROVE  Traced(p)'
BY DEF Traced, Orphan, Explained

\* A window that is closed leaves a request, or a hint, behind.
LEMMA CloseWindowTraced ==
    ASSUME IInv, NEW p \in Pkgs, Traced(p), NEW w \in Windows,
           NEW ms, NEW crashed \in BOOLEAN, CloseWindow(w, ms, crashed),
           process = "alive", UNCHANGED android,
           Announced(p) => Announced(p)'
    PROVE  Traced(p)'
<1> DEFINE q == win[w].pkg
<1>1. q \in Pkgs /\ toAndroid \in Seq(Pkgs) /\ mWindowMap \in [Pkgs -> Windows \cup {NoWindow}]
  BY IInvParts DEF GuiInv, GuiTypes, Window
<1>2. ToSet(Append(toAndroid, q)) = ToSet(toAndroid) \cup {q}
  BY <1>1, QueueElements
<1>3. /\ mWindowMap' = [mWindowMap EXCEPT ![q] = NoWindow]
      /\ toAndroid' = IF crashed THEN toAndroid ELSE Append(toAndroid, q)
      /\ hintClosed' = IF crashed THEN hintClosed \cup {q} ELSE hintClosed
  BY DEF CloseWindow, CloseApp, RequestClose
<1> HIDE DEF q
<1>4. /\ ToSet(toAndroid) \subseteq ToSet(toAndroid')
      /\ hintClosed \subseteq hintClosed'
      /\ q \in ToSet(toAndroid') \/ q \in hintClosed'
  BY <1>2, <1>3
<1>5. CASE p = q
  BY <1>4, <1>5 DEF Traced, Explained
<1>6. CASE p # q
  <2>1. mWindowMap'[p] = mWindowMap[p]
    BY <1>1, <1>3, <1>6
  <2> QED BY <1>4, <2>1, TracesKept
<1> QED BY <1>5, <1>6

\* A window that is created or shown again makes the history of p forget a hint.
LEMMA CreateWindowTraced ==
    ASSUME IInv, NEW p \in Pkgs, Traced(p), NEW q \in Pkgs, NEW id, NEW named,
           NEW booting, CreateWindow(q, id, named, booting), hintClosed' = hintClosed \ {q},
           UNCHANGED <<process, toAndroid, android>>,
           p # q => (Announced(p) => Announced(p)')
    PROVE  Traced(p)'
<1>1. /\ mWindowMap \in [Pkgs -> Windows \cup {NoWindow}]
      /\ NoWindow \notin Windows
  BY IInvParts, WindowAssumption DEF GuiInv, GuiTypes
<1>2. /\ mWindowMap'[q] # NoWindow
      /\ p # q => mWindowMap'[p] = mWindowMap[p]
  <2>1. CASE mWindowMap[q] # NoWindow
    BY <1>1, <2>1 DEF CreateWindow
  <2>2. CASE mWindowMap[q] = NoWindow
    <3>1. PICK w \in Windows : mWindowMap' = [mWindowMap EXCEPT ![q] = w]
      BY <2>2 DEF CreateWindow, Fresh
    <3> QED BY <1>1, <3>1
  <2> QED BY <2>1, <2>2
<1>3. CASE p = q
  BY <1>2, <1>3 DEF Traced, Orphan
<1>4. CASE p # q
  BY <1>2, <1>4, TracesKept
<1> QED BY <1>3, <1>4

LEMMA OnMessageTraced ==
    ASSUME IInv, NEW p \in Pkgs, Traced(p), NEW i \in DOMAIN fromAndroid, OnMessage(i)
    PROVE  Traced(p)'
<1> DEFINE m == fromAndroid[i]
<1>1. /\ m \in Message /\ fromAndroid \in Seq(Message)
      /\ mWindowMap \in [Pkgs -> Windows \cup {NoWindow}]
  BY IInvParts, MessageTyped DEF GuiInv, GuiTypes
<1>2. m.pkg \in Pkgs
  BY <1>1 DEF Message
<1>3. /\ fromAndroid' = RemoveAt(fromAndroid, i) /\ process = "alive"
      /\ UNCHANGED android
  BY DEF OnMessage, androidVars
<1>4. ~(m.kind = "launched" /\ m.pkg = p) => (Announced(p) => Announced(p)')
  BY <1>1, <1>3, RemovalAnnounces
<1>5. CASE m.kind = "launched" /\ OnAppLaunchSucceed(m.pkg, m.id, m.named)
  <2> HIDE DEF m
  <2> QED BY <1>2, <1>3, <1>4, <1>5, CreateWindowTraced DEF OnAppLaunchSucceed
<1>6. CASE m.kind \in {"closed", "crashed"} /\ OnAppCloseSucceed(m.pkg)
  <2> HIDE DEF m
  <2>1. UNCHANGED <<mWindowMap, process, toAndroid, hintClosed>>
    BY <1>6 DEF OnAppCloseSucceed
  <2> QED BY <1>3, <1>4, <1>6, <2>1, TracesKept
<1>7. CASE m.kind = "uninstalled" /\ AppUninstalled(m.pkg)
  <2> HIDE DEF m
  <2>1. CASE mWindowMap[m.pkg] # NoWindow
    <3>1. mWindowMap[m.pkg] \in Windows /\ CloseWindow(mWindowMap[m.pkg], modals, FALSE)
      BY <1>1, <1>2, <1>7, <2>1 DEF AppUninstalled
    <3> QED BY <1>3, <1>4, <1>7, <3>1, CloseWindowTraced
  <2>2. CASE mWindowMap[m.pkg] = NoWindow
    <3>1. UNCHANGED <<mWindowMap, process, toAndroid, hintClosed>>
      BY <1>7, <2>2 DEF AppUninstalled
    <3> QED BY <1>3, <1>4, <1>7, <3>1, TracesKept
  <2> QED BY <2>1, <2>2
<1> QED BY <1>5, <1>6, <1>7 DEF OnMessage

LEMMA AndroidLaunchTraced ==
    ASSUME IInv, NEW p \in Pkgs, Traced(p), NEW q \in Pkgs, AndroidLaunch(q),
           UNCHANGED <<mWindowMap, process, toAndroid, hintClosed>>
    PROVE  Traced(p)'
<1>1. /\ android \in [Pkgs -> {NoId} \cup 1 .. MaxId] /\ lastId \in 0 .. MaxId
      /\ fromAndroid \in Seq(Message)
  BY IInvParts DEF AndroidTypes
<1>2. CASE android[q] # NoId /\ Send("launched", q, android[q]) /\ UNCHANGED android
  <2>1. Announced(p) => Announced(p)'
    BY <1>1, <1>2, SendAnnounces
  <2> QED BY <1>2, <2>1, TracesKept
<1>3. CASE /\ lastId < MaxId /\ Send("launched", q, lastId + 1)
           /\ android' = [android EXCEPT ![q] = lastId + 1]
  <2>1. lastId + 1 \in {NoId} \cup 1 .. MaxId
    BY <1>1, <1>3, BoundAssumption
  <2>2. (Announced(p) => Announced(p)') /\ Announced(q)'
    BY <1>1, <1>3, <2>1, SendAnnounces
  <2>3. CASE p = q
    BY <2>2, <2>3 DEF Traced, Explained
  <2>4. CASE p # q
    <3>1. android'[p] = android[p]
      BY <1>1, <1>3, <2>4
    <3> QED BY <2>2, <3>1, TracesKept
  <2> QED BY <2>3, <2>4
<1> QED BY <1>2, <1>3 DEF AndroidLaunch

\* An app that stops needs no explanation any more.
LEMMA AppStopsTraced ==
    ASSUME IInv, NEW p \in Pkgs, Traced(p), NEW q \in Pkgs,
           NEW kind \in {"closed", "crashed", "uninstalled"}, AppStops(q, kind),
           p # q => (p \in ToSet(toAndroid) => p \in ToSet(toAndroid')),
           UNCHANGED <<mWindowMap, process, hintClosed>>
    PROVE  Traced(p)'
<1>1. /\ android \in [Pkgs -> {NoId} \cup 1 .. MaxId]
      /\ fromAndroid \in Seq(Message)
  BY IInvParts DEF AndroidTypes
<1>2. android' = [android EXCEPT ![q] = NoId] /\ Send(kind, q, android[q])
  BY DEF AppStops
<1>3. Announced(p) => Announced(p)'
  BY <1>1, <1>2, SendAnnounces
<1>4. CASE p = q
  BY <1>1, <1>2, <1>4 DEF Traced, Orphan
<1>5. CASE p # q
  <2>1. android'[p] = android[p]
    BY <1>1, <1>2, <1>5
  <2> QED BY <1>3, <1>5, <2>1, TracesKept
<1> QED BY <1>4, <1>5

\* Without the container no app runs.
AppsStopped == ~AndroidUp => \A p \in Pkgs : android[p] = NoId

LEMMA AndroidClosesTraced ==
    ASSUME IInv, AppsStopped, NEW p \in Pkgs, Traced(p), AndroidCloses
    PROVE  Traced(p)'
<1> DEFINE q == Head(toAndroid)
<1>1. /\ toAndroid \in Seq(Pkgs) /\ toAndroid # << >>
      /\ toAndroid' = Tail(toAndroid)
  BY IInvParts DEF AndroidCloses, GuiInv, GuiTypes
<1>2. q \in Pkgs /\ ToSet(toAndroid) \subseteq ToSet(toAndroid') \cup {q}
  BY <1>1, QueueElements, HeadTailProperties
<1>3. UNCHANGED <<mWindowMap, process, hintClosed>>
  BY DEF AndroidCloses, guiVars
<1>4. CASE AndroidUp /\ android[q] # NoId
  <2>1. AppStops(q, "closed")
    BY <1>4 DEF AndroidCloses
  <2> HIDE DEF q
  <2> QED BY <1>2, <1>3, <2>1, AppStopsTraced
<1>5. CASE ~(AndroidUp /\ android[q] # NoId)
  <2>1. UNCHANGED <<fromAndroid, android>>
    BY <1>5 DEF AndroidCloses
  <2>2. Announced(p) => Announced(p)'
    BY <2>1 DEF Announced
  <2> HIDE DEF q
  <2>3. CASE android[q] = NoId
    <3>1. CASE p = q
      BY <2>1, <2>3, <3>1 DEF Traced, Orphan
    <3>2. CASE p # q
      BY <1>2, <1>3, <2>1, <2>2, <3>2, TracesKept
    <3> QED BY <3>1, <3>2
  <2> QED BY <1>2, <1>5, <2>3 DEF AppsStopped
<1> QED BY <1>4, <1>5

LEMMA StarterTraced ==
    ASSUME IInv, NEW p \in Pkgs, Traced(p), NEW s \in Starters,
           StarterStep(s) \/ \E q \in Pkgs : StartApp(s, q)
    PROVE  Traced(p)'
<1>1. startapp[s].pkg \in Pkgs
  BY StarterTypes
<1>2. ASSUME UNCHANGED <<guiVars, process, toAndroid, fromAndroid, androidVars>>
      PROVE  Traced(p)'
  BY <1>2, TracesKept DEF guiVars, androidVars, Announced
<1>3. CASE CallActiveApp(s)
  BY <1>3, TracesKept DEF CallActiveApp, ActiveApp, androidVars, Announced
<1>4. CASE CallLaunchApp(s)
  <2>1. /\ CreateWindow(startapp[s].pkg, NoId, FALSE, TRUE)
        /\ hintClosed' = hintClosed \ {startapp[s].pkg}
        /\ UNCHANGED <<process, toAndroid, android, fromAndroid>>
    BY <1>4 DEF CallLaunchApp, LaunchApp, androidVars
  <2>2. Announced(p) => Announced(p)'
    BY <2>1 DEF Announced
  <2> QED BY <1>1, <2>1, <2>2, CreateWindowTraced
<1>5. CASE RequestLaunch(s)
  <2>1. UNCHANGED <<mWindowMap, process, toAndroid, hintClosed>>
    BY <1>5 DEF RequestLaunch, guiVars
  <2>2. CASE AndroidLaunch(startapp[s].pkg)
    BY <1>1, <2>1, <2>2, AndroidLaunchTraced
  <2>3. CASE UNCHANGED <<fromAndroid, android, lastId>>
    BY <2>1, <2>3, TracesKept DEF Announced
  <2> QED BY <1>5, <2>2, <2>3 DEF RequestLaunch
<1>6. CASE GetRunningAppList(s) \/ TryLock(s) \/ \E q \in Pkgs : StartApp(s, q)
  BY <1>2, <1>6 DEF GetRunningAppList, TryLock, StartApp
<1> QED BY <1>3, <1>4, <1>5, <1>6 DEF StarterStep

\* The user and the timers: a window that goes to the tray is not closed.
LEMMA GuiTraced ==
    ASSUME IInv, NEW p \in Pkgs, Traced(p),
           \/ \E d \in modals : \/ DismissTimeout(d)
                               \/ \E restart \in BOOLEAN : AnswerHint(d, restart)
           \/ \E w \in Windows : BootTimeout(w) \/ UserStep(w)
           \/ OnKmreDockerEnvStopped \/ ExitTimeout
    PROVE  Traced(p)'
<1>1. \A d \in modals : d.win \in Windows
  BY IInvParts DEF GuiInv, GuiTypes, Modal
<1>2. UNCHANGED fromAndroid => (Announced(p) => Announced(p)')
  BY DEF Announced
<1>3. ASSUME NEW w \in Windows, NEW ms, NEW crashed \in BOOLEAN,
             CloseWindow(w, ms, crashed), process = "alive",
             UNCHANGED <<fromAndroid, androidVars>>
      PROVE  Traced(p)'
  BY <1>2, <1>3, CloseWindowTraced DEF androidVars
<1>4. ASSUME UNCHANGED <<mWindowMap, process, toAndroid, hintClosed, fromAndroid, androidVars>>
      PROVE  Traced(p)'
  BY <1>2, <1>4, TracesKept DEF androidVars
<1>5. ASSUME NEW d \in modals,
             DismissTimeout(d) \/ \E restart \in BOOLEAN : AnswerHint(d, restart)
      PROVE  Traced(p)'
  BY <1>1, <1>3, <1>5 DEF DismissTimeout, AnswerHint, othersVars
<1>6. ASSUME NEW w \in Windows, BootTimeout(w) \/ TrayOpen(w) \/ ConfirmCloseEnv(w)
      PROVE  Traced(p)'
  BY <1>4, <1>6 DEF BootTimeout, TrayOpen, ConfirmCloseEnv, othersVars, guiVars
<1>7. ASSUME NEW w \in Windows, UserClose(w) \/ UserQuit(w)
      PROVE  Traced(p)'
  BY <1>3, <1>4, <1>7 DEF UserClose, UserQuit, othersVars
<1>8. CASE OnKmreDockerEnvStopped \/ ExitTimeout
  BY <1>8 DEF OnKmreDockerEnvStopped, ExitTimeout, QuitSafely, Traced, Orphan
<1> QED BY <1>5, <1>6, <1>7, <1>8 DEF UserStep

LEMMA StoppedKeeps == IInv /\ AppsStopped /\ [Next]_vars => AppsStopped'
<1> SUFFICES ASSUME IInv, AppsStopped, [Next]_vars PROVE AppsStopped'
  OBVIOUS
<1>1. /\ android \in [Pkgs -> {NoId} \cup 1 .. MaxId]
      /\ container \in {"up", "stopping", "signalled", "stopped"}
  BY IInvParts DEF AndroidTypes, ExitTypes
<1>2. CASE UNCHANGED android /\ (AndroidUp => AndroidUp')
  BY <1>2 DEF AppsStopped
<1>3. CASE AndroidUp'
  BY <1>3 DEF AppsStopped
<1>4. CASE ContainerStops
  BY <1>4 DEF ContainerStops, AppsStopped
<1>5. ASSUME NEW i \in DOMAIN fromAndroid, OnMessage(i) \/ LoseMessage(i)
      PROVE  UNCHANGED android /\ (AndroidUp => AndroidUp')
  <2>1. CASE OnMessage(i)
    <3>1. UNCHANGED <<android, exitVars>>
      BY <2>1, IInvParts, MessageTyped DEF OnMessage, androidVars, OnAppLaunchSucceed,
              OnAppCloseSucceed, AppUninstalled, CloseWindow
    <3> QED BY <3>1 DEF exitVars, AndroidUp
  <2>2. CASE LoseMessage(i)
    BY <2>2 DEF LoseMessage, exitVars, AndroidUp
  <2> QED BY <1>5, <2>1, <2>2
<1>6. ASSUME NEW d \in modals,
             DismissTimeout(d) \/ \E restart \in BOOLEAN : AnswerHint(d, restart)
      PROVE  UNCHANGED android /\ (AndroidUp => AndroidUp')
  BY <1>6 DEF DismissTimeout, AnswerHint, CloseWindow, othersVars, androidVars, exitVars,
              AndroidUp
<1>7. ASSUME NEW w \in Windows, BootTimeout(w) \/ UserStep(w)
      PROVE  UNCHANGED android /\ (AndroidUp => AndroidUp')
  BY <1>7 DEF BootTimeout, UserStep, UserClose, UserQuit, TrayOpen, ConfirmCloseEnv,
              CloseWindow, othersVars, androidVars, exitVars, AndroidUp
<1>8. ASSUME NEW s \in Starters, StarterStep(s) \/ \E p \in Pkgs : StartApp(s, p)
      PROVE  AppsStopped'
  <2>1. UNCHANGED container
    BY <1>8 DEF StarterStep, StartApp, GetRunningAppList, CallActiveApp, ActiveApp, TryLock,
                CallLaunchApp, LaunchApp, RequestLaunch, exitVars
  <2>2. AndroidUp \/ UNCHANGED android
    BY <1>8 DEF StarterStep, StartApp, GetRunningAppList, CallActiveApp, TryLock,
                CallLaunchApp, RequestLaunch, AndroidLaunch, androidVars
  <2> QED BY <1>2, <1>3, <2>1, <2>2 DEF AndroidUp
<1>9. ASSUME NEW p \in Pkgs, AndroidStep(p)
      PROVE  AppsStopped'
  <2>1. AndroidUp /\ UNCHANGED container
    BY <1>9 DEF AndroidStep, AndroidStarts, AndroidLaunch, AppCrashes, Uninstall, exitVars
  <2> QED BY <1>3, <2>1 DEF AndroidUp
<1>10. CASE AndroidCloses
  BY <1>2, <1>3, <1>10 DEF AndroidCloses, exitVars, AndroidUp
<1>11. CASE OnKmreDockerEnvStopped \/ ExitTimeout
  BY <1>2, <1>11 DEF OnKmreDockerEnvStopped, ExitTimeout, QuitSafely, androidVars, AndroidUp
<1>12. CASE UNCHANGED vars
  BY <1>2, <1>12 DEF vars, AndroidUp
<1> QED BY <1>2, <1>4, <1>5, <1>6, <1>7, <1>8, <1>9, <1>10, <1>11, <1>12 DEF Next

LEMMA NextTraced == IInv /\ AppsStopped /\ OrphanOnlyAfterHint /\ [Next]_vars
                        => OrphanOnlyAfterHint'
<1> SUFFICES ASSUME IInv, AppsStopped, OrphanOnlyAfterHint, [Next]_vars,
                    lost' = 0, NEW p \in Pkgs
             PROVE  Traced(p)'
  BY DEF OrphanOnlyAfterHint, Traced
<1>1. CASE \E i \in DOMAIN fromAndroid : LoseMessage(i)
  <2>1. lost \in Nat /\ lost' = lost + 1
    BY <1>1, IInvParts, BoundAssumption DEF LoseMessage, AndroidTypes
  <2> QED BY <2>1
<1>2. CASE UNCHANGED lost
  <2>1. Traced(p)
    BY <1>2 DEF OrphanOnlyAfterHint, Traced
  <2>2. CASE \E i \in DOMAIN fromAndroid : OnMessage(i)
    BY <2>1, <2>2, OnMessageTraced
  <2>3. CASE \/ \E d \in modals : \/ DismissTimeout(d)
                                  \/ \E restart \in BOOLEAN : AnswerHint(d, restart)
             \/ \E w \in Windows : BootTimeout(w) \/ UserStep(w)
             \/ OnKmreDockerEnvStopped \/ ExitTimeout
    BY <2>1, <2>3, GuiTraced
  <2>4. CASE \E s \in Starters : StarterStep(s) \/ \E q \in Pkgs : StartApp(s, q)
    BY <2>1, <2>4, StarterTraced
  <2>5. CASE \E q \in Pkgs : AndroidStep(q)
    <3>1. PICK q \in Pkgs : AndroidStep(q)
      BY <2>5
    <3>2. CASE AndroidStarts(q)
      BY <2>1, <3>2, AndroidLaunchTraced DEF AndroidStarts, guiVars
    <3>3. CASE AppCrashes(q)
      BY <2>1, <3>3, AppStopsTraced DEF AppCrashes, guiVars
    <3>4. CASE Uninstall(q)
      BY <2>1, <3>4, AppStopsTraced DEF Uninstall, guiVars
    <3> QED BY <3>1, <3>2, <3>3, <3>4 DEF AndroidStep
  <2>6. CASE AndroidCloses
    BY <2>1, <2>6, AndroidClosesTraced
  <2>7. CASE ContainerStops
    BY <2>7 DEF ContainerStops, Traced, Orphan
  <2>8. CASE UNCHANGED vars
    BY <2>1, <2>8, TracesKept DEF vars, Announced
  <2>9. CASE \E i \in DOMAIN fromAndroid : LoseMessage(i)
    BY <1>1, <2>9
  <2>10. Next \/ UNCHANGED vars
    OBVIOUS
  <2> QED BY <2>2, <2>3, <2>4, <2>5, <2>6, <2>7, <2>8, <2>9, <2>10 DEF Next
<1>3. \/ \E i \in DOMAIN fromAndroid : LoseMessage(i)
      \/ UNCHANGED lost
  BY DEF Next, OnMessage, DismissTimeout, AnswerHint, BootTimeout, UserStep, UserClose,
         UserQuit, TrayOpen, ConfirmCloseEnv, StarterStep, StartApp, GetRunningAppList,
         CallActiveApp, TryLock, CallLaunchApp, RequestLaunch, AndroidStep, AndroidStarts,
         AppCrashes, Uninstall, OnKmreDockerEnvStopped, ExitTimeout, QuitSafely,
         AndroidCloses, ContainerStops, othersVars, androidVars, vars
<1> QED BY <1>1, <1>2, <1>3

\* As long as no message is lost, an app that runs in Android has a window, is
\* about to get one or to be closed, or the answer to a crash hint closed its
\* last window, for any number of apps, windows and startapp processes.
THEOREM NoAppForgotten == Spec => []OrphanOnlyAfterHint
<1>1. Init => AppsStopped /\ OrphanOnlyAfterHint
  BY DEF Init, AppsStopped, AndroidUp, OrphanOnlyAfterHint, Orphan
<1> QED BY <1>1, InitIInv, NextIInv, StoppedKeeps, NextTraced, PTL DEF Spec

-----------------------------------------------------------------------------
(* What the windows' liveness rests on.  Each of the three liveness        *)
(* properties has a part that needs no fairness: whatever a window waits   *)
(* for is on its way.                                                      *)

\* A window that waits for its display is watched: the boot timer runs or its
\* dialog is on screen (kmrewindow.cpp:197), unless its display has come without
\* a name: then updateDisplay has not taken it (kmrewindow.cpp:245) and the
\* timer has been stopped all the same (windowmanager.cpp:259).
BootIsWatched ==
    \A w \in Windows :
        win[w].open /\ win[w].mId = NoId =>
            \/ win[w].boot = "running" \/ HasDialog(modals, "timeout", w)
            \/ win[w].refused

\* While the container is being stopped the exit timer runs, and nothing stops
\* it before the process has ended (kmrewindow.cpp:594).
ExitIsTimed ==
    container = "stopping" => process = "exited" \/ mExitTimer = "running"

\* Message i says that display id of p is gone.
TellsEnd(i, p, id) == /\ i \in DOMAIN fromAndroid
                      /\ fromAndroid[i].kind # "launched"
                      /\ fromAndroid[i].pkg = p /\ fromAndroid[i].id = id

EndTold(p, id) == \E i \in DOMAIN fromAndroid : TellsEnd(i, p, id)

\* The display of w is the app's, or the user has been told, or a message that
\* makes the window close or tell the user is on its way.
Current(w) ==
    win[w].open /\ win[w].mId # NoId =>
        \/ android[win[w].pkg] = win[w].mId
        \/ HasDialog(modals, "hint", w)
        \/ EndTold(win[w].pkg, win[w].mId)

\* The messages come one after the other and none has been lost.
InSequence == ~Reordered /\ lost = 0 /\ AndroidUp

EndIsOnItsWay == InSequence => \A w \in Windows : Current(w)

-----------------------------------------------------------------------------
(* The invariants                                                          *)

\* A LaunchResult names a display.
Sound == {m \in Message : m.kind = "launched" => m.id # NoId}

Watched(w) == /\ win[w].open /\ win[w].mId = NoId =>
                    win[w].boot # "none" \/ win[w].refused
              /\ win[w].boot = "stopped" => HasDialog(modals, "timeout", w)

BootInv == /\ \A w \in Windows : Watched(w)
           /\ fromAndroid \in Seq(Sound)

ExitInv == /\ mExitTimer = "stopped" => process = "exited"
           /\ container = "stopping" => mExitTimer # "none"

\* A LaunchResult that is out of date has the end of its display behind it.
LaunchCurrent(i) ==
    fromAndroid[i].kind = "launched" =>
        \/ android[fromAndroid[i].pkg] = fromAndroid[i].id
        \/ \E j \in DOMAIN fromAndroid :
              j > i /\ TellsEnd(j, fromAndroid[i].pkg, fromAndroid[i].id)

EndInv == InSequence => /\ \A w \in Windows : Current(w)
                        /\ \A i \in DOMAIN fromAndroid : LaunchCurrent(i)

-----------------------------------------------------------------------------
(* Dialogs and windows                                                     *)

LEMMA RestackedDialogs ==
    ASSUME NEW ms \in SUBSET Modal, NEW kind, NEW w
    PROVE  HasDialog(Restacked(ms), kind, w) <=> HasDialog(ms, kind, w)
<1> DEFINE count(m) == Cardinality({n \in ms : n.nth <= m.nth})
           image(m) == [m EXCEPT !.nth = count(m)]
<1>1. ASSUME NEW m \in ms
      PROVE  image(m).win = m.win /\ image(m).kind = m.kind
  BY DEF Modal
<1>2. Restacked(ms) = {image(m) : m \in ms}
  BY DEF Restacked
<1> HIDE DEF image
<1> QED BY <1>1, <1>2 DEF HasDialog

LEMMA OpenedDialogs ==
    ASSUME NEW ms \in SUBSET Modal, NEW k, NEW v, NEW kind, NEW w
    PROVE  HasDialog(Opened(ms, k, v), kind, w)
               <=> HasDialog(ms, kind, w) \/ (kind = k /\ w = v)
<1> DEFINE new == [kind |-> k, win |-> v, nth |-> Cardinality(ms) + 1]
<1>1. new.kind = k /\ new.win = v
  OBVIOUS
<1>2. Opened(ms, k, v) = Restacked(ms) \cup {new}
  BY DEF Opened
<1> HIDE DEF new
<1>3. HasDialog(Restacked(ms) \cup {new}, kind, w)
          <=> HasDialog(Restacked(ms), kind, w) \/ (kind = k /\ w = v)
  BY <1>1 DEF HasDialog
<1> QED BY <1>2, <1>3, RestackedDialogs

\* The window is the same, and so are its dialogs.
SameApp(w) == /\ win'[w].open = win[w].open /\ win'[w].pkg = win[w].pkg
              /\ win'[w].mId = win[w].mId

\* What a step that is no LaunchResult does to window w: it is closed, it is
\* new and waits for its display, or it stays what it was.
Left(w) == \/ win'[w] = Unused
           \/ win'[w].mId = NoId /\ Watched(w)'
           \/ /\ SameApp(w) /\ Watched(w)'
              /\ HasDialog(modals, "hint", w) => HasDialog(modals, "hint", w)'

LEMMA LeftIsWatched ==
    ASSUME NEW w \in Windows, Left(w)
    PROVE  Watched(w)'
BY UnusedType DEF Left, Watched, Unused

LEMMA SameIsLeft ==
    ASSUME NEW w \in Windows, Watched(w), UNCHANGED <<win, modals>>
    PROVE  Left(w)
BY DEF Left, SameApp, Watched, HasDialog

LEMMA CloseWindowLeaves ==
    ASSUME GuiInv, NEW v \in Windows, NEW ms \in SUBSET modals,
           \A m \in modals \ ms : m.win = v,
           NEW crashed \in BOOLEAN, CloseWindow(v, ms, crashed),
           NEW w \in Windows, Watched(w)
    PROVE  Left(w)
<1> DEFINE rest == {m \in ms : m.win # v}
<1>1. rest \in SUBSET Modal /\ modals' = Restacked(rest)
      /\ win' = [win EXCEPT ![v] = Unused] /\ win \in [Windows -> Window]
  BY DEF CloseWindow, GuiInv, GuiTypes
<1>2. CASE w = v
  BY <1>1, <1>2 DEF Left
<1>3. CASE w # v
  <2>1. \A kind \in {"timeout", "hint"} :
            HasDialog(modals, kind, w) => HasDialog(rest, kind, w)
    BY <1>3 DEF HasDialog
  <2> HIDE DEF rest
  <2>2. \A kind \in {"timeout", "hint"} :
            HasDialog(modals, kind, w) => HasDialog(modals', kind, w)
    BY <1>1, <2>1, RestackedDialogs
  <2>3. win'[w] = win[w]
    BY <1>1, <1>3
  <2> QED BY <2>2, <2>3 DEF Left, SameApp, Watched
<1> QED BY <1>2, <1>3

\* A window that gets no display stays as it was or is new.
LEMMA LaunchAppLeaves ==
    ASSUME GuiInv, NEW p \in Pkgs, LaunchApp(p), NEW w \in Windows, Watched(w)
    PROVE  Left(w)
<1>1. CreateWindow(p, NoId, FALSE, TRUE) /\ UNCHANGED modals /\ win \in [Windows -> Window]
      /\ mWindowMap \in [Pkgs -> Windows \cup {NoWindow}]
  BY DEF LaunchApp, GuiInv, GuiTypes
<1>0. UNCHANGED modals => \A kind : HasDialog(modals, kind, w)' <=> HasDialog(modals, kind, w)
  BY DEF HasDialog
<1>2. CASE mWindowMap[p] # NoWindow
  <2> DEFINE v   == mWindowMap[p]
             new == BootTimer(ShowMainWindow(UpdateDisplay(win[v], NoId, FALSE)), TRUE)
  <2>1. v \in Windows /\ win' = [win EXCEPT ![v] = new]
    BY <1>1, <1>2 DEF CreateWindow
  <2>2. win[v] \in Window
    BY <1>1, <2>1
  <2>3. /\ new.open = win[v].open /\ new.pkg = win[v].pkg /\ new.mId = win[v].mId
        /\ new.boot # "none"
        /\ new.boot = "stopped" => win[v].boot = "stopped"
    BY <2>2 DEF UpdateDisplay, ShowMainWindow, BootTimer, StartBootTimer, Window
  <2> HIDE DEF new, v
  <2>4. CASE w = v
    BY <1>0, <1>1, <2>1, <2>3, <2>4 DEF Left, SameApp, Watched
  <2>5. CASE w # v
    BY <1>0, <1>1, <2>1, <2>5 DEF Left, SameApp, Watched
  <2> QED BY <2>4, <2>5
<1>3. CASE mWindowMap[p] = NoWindow
  <2> DEFINE new == BootTimer(NewWindow(p, NoId), TRUE)
  <2>1. PICK v \in Windows : win' = [win EXCEPT ![v] = new]
    BY <1>1, <1>3 DEF CreateWindow, Fresh
  <2>2. new.mId = NoId /\ new.boot = "running"
    BY DEF NewWindow, BootTimer, StartBootTimer
  <2> HIDE DEF new
  <2>4. CASE w = v
    BY <1>1, <2>1, <2>2, <2>4 DEF Left, Watched
  <2>5. CASE w # v
    BY <1>0, <1>1, <2>1, <2>5 DEF Left, SameApp, Watched
  <2> QED BY <2>4, <2>5
<1> QED BY <1>2, <1>3

\* A LaunchResult gives its display to one window, if that waits for one.
Gets(w, p, id) == /\ win'[w].pkg = p /\ win'[w].mId = id
                  /\ Watched(w)'

LEMMA LaunchResultLeaves ==
    ASSUME GuiInv, NEW p \in Pkgs, NEW id \in 1 .. MaxId, NEW n \in BOOLEAN,
           OnAppLaunchSucceed(p, id, n),
           NEW w \in Windows, Watched(w)
    PROVE  Left(w) \/ Gets(w, p, id)
<1>1. CreateWindow(p, id, n, FALSE) /\ UNCHANGED modals /\ win \in [Windows -> Window]
      /\ mWindowMap \in [Pkgs -> Windows \cup {NoWindow}]
  BY DEF OnAppLaunchSucceed, GuiInv, GuiTypes
<1>0. UNCHANGED modals => \A kind : HasDialog(modals, kind, w)' <=> HasDialog(modals, kind, w)
  BY DEF HasDialog
<1>n. id # NoId
  BY DEF NoId
<1>2. CASE mWindowMap[p] # NoWindow
  <2> DEFINE v   == mWindowMap[p]
             new == BootTimer(ShowMainWindow(UpdateDisplay(win[v], id, n)), FALSE)
  <2>1. v \in Windows /\ win' = [win EXCEPT ![v] = new]
    BY <1>1, <1>2 DEF CreateWindow
  <2>2. win[v] \in Window /\ win[v].pkg = p
    BY <1>1, <1>2, <2>1 DEF GuiInv, MapMatchesWindows
  <2>3. /\ new.open = win[v].open /\ new.pkg = p
        /\ new.mId = IF win[v].mId # NoId THEN win[v].mId ELSE IF n THEN id ELSE NoId
        /\ new.mId = NoId => new.refused
        /\ new.boot = "none"
    BY <2>2, <1>n DEF UpdateDisplay, ShowMainWindow, BootTimer, StopBootTimer, Window
  <2> HIDE DEF new, v
  <2>4. CASE w = v
    <3>1. win'[w] = new
      BY <1>1, <2>1, <2>4
    <3>2. Watched(w)'
      BY <3>1, <2>3 DEF Watched
    <3> QED BY <1>0, <1>1, <2>2, <2>3, <2>4, <3>1, <3>2 DEF Left, SameApp, Gets
  <2>5. CASE w # v
    BY <1>0, <1>1, <2>1, <2>5 DEF Left, SameApp, Watched
  <2> QED BY <2>4, <2>5
<1>3. CASE mWindowMap[p] = NoWindow
  <2> DEFINE new == BootTimer(NewWindow(p, id), FALSE)
  <2>1. PICK v \in Windows : win' = [win EXCEPT ![v] = new]
    BY <1>1, <1>3 DEF CreateWindow, Fresh
  <2>2. new.mId = id /\ new.boot = "none" /\ new.pkg = p
    BY DEF NewWindow, BootTimer, StopBootTimer
  <2> HIDE DEF new
  <2>4. CASE w = v
    BY <1>1, <1>n, <2>1, <2>2, <2>4 DEF Gets, Watched
  <2>5. CASE w # v
    BY <1>0, <1>1, <2>1, <2>5 DEF Left, SameApp, Watched
  <2> QED BY <2>4, <2>5
<1> QED BY <1>2, <1>3

LEMMA ActiveAppLeaves ==
    ASSUME GuiInv, NEW p \in Pkgs, ActiveApp(p), NEW w \in Windows, Watched(w)
    PROVE  Left(w)
<1>1. UNCHANGED modals /\ win \in [Windows -> Window]
      /\ mWindowMap \in [Pkgs -> Windows \cup {NoWindow}]
  BY DEF ActiveApp, GuiInv, GuiTypes
<1>2. /\ win'[w].open = win[w].open /\ win'[w].pkg = win[w].pkg
      /\ win'[w].mId = win[w].mId /\ win'[w].boot = win[w].boot
      /\ win'[w].refused = win[w].refused
  BY <1>1 DEF ActiveApp, ShowMainWindow, Window
<1> QED BY <1>1, <1>2 DEF Left, SameApp, Watched, HasDialog

\* The answer to a close, and the hint it makes.
LEMMA OnAppCloseSucceedLeaves ==
    ASSUME GuiInv, NEW p \in Pkgs, OnAppCloseSucceed(p), NEW w \in Windows, Watched(w)
    PROVE  /\ Left(w)
           /\ UNCHANGED win
           /\ win[w].open /\ win[w].pkg = p => HasDialog(modals, "hint", w)'
<1>1. UNCHANGED win /\ win \in [Windows -> Window]
      /\ mWindowMap \in [Pkgs -> Windows \cup {NoWindow}]
  BY DEF OnAppCloseSucceed, GuiInv, GuiTypes
<1>2. CASE mWindowMap[p] # NoWindow
  <2> DEFINE v    == mWindowMap[p]
             rest == {m \in modals : m.kind = "hint" => m.win # v}
  <2>1. v \in Windows /\ rest \in SUBSET Modal /\ modals' = Opened(rest, "hint", v)
    BY <1>1, <1>2 DEF OnAppCloseSucceed, ShowCrashedHintDialog, GuiInv, GuiTypes
  <2>2. /\ HasDialog(modals, "timeout", w) => HasDialog(rest, "timeout", w)
        /\ HasDialog(modals, "hint", w) => HasDialog(rest, "hint", w) \/ w = v
    BY DEF HasDialog
  <2>3. win[w].open /\ win[w].pkg = p => w = v
    BY DEF GuiInv, MapMatchesWindows
  <2> HIDE DEF rest, v
  <2>4. /\ HasDialog(modals, "timeout", w) => HasDialog(modals', "timeout", w)
        /\ HasDialog(modals, "hint", w) => HasDialog(modals', "hint", w)
        /\ w = v => HasDialog(modals', "hint", w)
    BY <2>1, <2>2, OpenedDialogs
  <2> QED BY <1>1, <2>3, <2>4 DEF Left, SameApp, Watched
<1>3. CASE mWindowMap[p] = NoWindow
  <2>1. UNCHANGED modals
    BY <1>3 DEF OnAppCloseSucceed
  <2>2. ~(win[w].open /\ win[w].pkg = p)
    BY <1>3, WindowAssumption DEF GuiInv, MapMatchesWindows
  <2> QED BY <1>1, <2>1, <2>2, SameIsLeft
<1> QED BY <1>2, <1>3

LEMMA AppUninstalledLeaves ==
    ASSUME GuiInv, NEW p \in Pkgs, AppUninstalled(p), NEW w \in Windows, Watched(w)
    PROVE  /\ Left(w)
           /\ win[w].open /\ win[w].pkg = p => ~win'[w].open
<1>1. /\ win \in [Windows -> Window]
      /\ mWindowMap \in [Pkgs -> Windows \cup {NoWindow}]
  BY DEF GuiInv, GuiTypes
<1>2. CASE mWindowMap[p] # NoWindow
  <2>1. mWindowMap[p] \in Windows /\ CloseWindow(mWindowMap[p], modals, FALSE)
    BY <1>1, <1>2 DEF AppUninstalled
  <2>2. Left(w)
    BY <2>1, CloseWindowLeaves
  <2>3. win[w].open /\ win[w].pkg = p => w = mWindowMap[p]
    BY DEF GuiInv, MapMatchesWindows
  <2>4. win' = [win EXCEPT ![mWindowMap[p]] = Unused]
    BY <2>1 DEF CloseWindow
  <2> QED BY <1>1, <2>1, <2>2, <2>3, <2>4, UnusedType
<1>3. CASE mWindowMap[p] = NoWindow
  <2>1. ~(win[w].open /\ win[w].pkg = p)
    BY <1>3, WindowAssumption DEF GuiInv, MapMatchesWindows
  <2>2. UNCHANGED <<win, modals>>
    BY <1>3 DEF AppUninstalled
  <2> QED BY <2>1, <2>2, SameIsLeft
<1> QED BY <1>2, <1>3

-----------------------------------------------------------------------------
(* The steps                                                               *)

\* Every step leaves a window as it was, closes it, makes it wait for its
\* display or gives it the display a LaunchResult names.
LEMMA NextLeaves ==
    ASSUME IInv, BootInv, [Next]_vars, NEW w \in Windows
    PROVE  \/ Left(w)
           \/ \E i \in DOMAIN fromAndroid :
                 /\ OnMessage(i) /\ fromAndroid[i].kind = "launched"
                 /\ Gets(w, fromAndroid[i].pkg, fromAndroid[i].id)
<1>1. GuiInv /\ Watched(w) /\ win \in [Windows -> Window] /\ modals \in SUBSET Modal
  BY IInvParts DEF BootInv, GuiInv, GuiTypes
<1>2. ASSUME UNCHANGED <<win, modals>>
      PROVE  Left(w)
  BY <1>1, <1>2, SameIsLeft
<1>3. ASSUME NEW i \in DOMAIN fromAndroid, OnMessage(i)
      PROVE  \/ Left(w)
             \/ /\ fromAndroid[i].kind = "launched"
                /\ Gets(w, fromAndroid[i].pkg, fromAndroid[i].id)
  <2> DEFINE m == fromAndroid[i]
  <2>1. m \in Sound
    BY DEF BootInv
  <2>2. m.pkg \in Pkgs /\ m.named \in BOOLEAN /\ (m.kind = "launched" => m.id \in 1 .. MaxId)
    BY <2>1 DEF Sound, Message
  <2>3. CASE m.kind = "launched" /\ OnAppLaunchSucceed(m.pkg, m.id, m.named)
    <3> HIDE DEF m
    <3>1. Left(w) \/ Gets(w, m.pkg, m.id)
      BY <1>1, <2>2, <2>3, LaunchResultLeaves
    <3> QED BY <2>3, <3>1 DEF m
  <2>4. CASE m.kind \in {"closed", "crashed"} /\ OnAppCloseSucceed(m.pkg)
    <3> HIDE DEF m
    <3> QED BY <1>1, <2>2, <2>4, OnAppCloseSucceedLeaves
  <2>5. CASE m.kind = "uninstalled" /\ AppUninstalled(m.pkg)
    <3> HIDE DEF m
    <3> QED BY <1>1, <2>2, <2>5, AppUninstalledLeaves
  <2> QED BY <1>3, <2>3, <2>4, <2>5 DEF OnMessage
<1>4. ASSUME NEW d \in modals,
             DismissTimeout(d) \/ \E restart \in BOOLEAN : AnswerHint(d, restart)
      PROVE  Left(w)
  <2>1. d.win \in Windows
    BY <1>1 DEF Modal
  <2>2. CASE DismissTimeout(d)
    <3>1. CloseWindow(d.win, modals \ {d}, FALSE)
      BY <2>2 DEF DismissTimeout
    <3>2. \A m \in modals \ (modals \ {d}) : m.win = d.win
      OBVIOUS
    <3> QED BY <1>1, <2>1, <3>1, <3>2, CloseWindowLeaves
  <2>3. CASE \E restart \in BOOLEAN : AnswerHint(d, restart)
    <3>1. CloseWindow(d.win, modals, TRUE)
      BY <2>3 DEF AnswerHint
    <3> QED BY <1>1, <2>1, <3>1, CloseWindowLeaves
  <2> QED BY <1>4, <2>2, <2>3
<1>5. ASSUME NEW v \in Windows, BootTimeout(v)
      PROVE  Left(w)
  <2>1. /\ win' = [win EXCEPT ![v].boot = "stopped"]
        /\ modals' = Opened(modals, "timeout", v)
    BY <1>5 DEF BootTimeout
  <2>2. \A kind \in {"timeout", "hint"} :
            HasDialog(modals', kind, w)
                <=> HasDialog(modals, kind, w) \/ (kind = "timeout" /\ w = v)
    BY <1>1, <2>1, OpenedDialogs
  <2>3. /\ win'[w].open = win[w].open /\ win'[w].pkg = win[w].pkg
        /\ win'[w].mId = win[w].mId
        /\ win'[w].refused = win[w].refused
        /\ win'[w].boot = IF w = v THEN "stopped" ELSE win[w].boot
    BY <1>1, <2>1 DEF Window
  <2> QED BY <1>1, <2>2, <2>3 DEF Left, SameApp, Watched
<1>6. ASSUME NEW v \in Windows, UserStep(v)
      PROVE  Left(w)
  <2>1. ASSUME CloseWindow(v, modals, FALSE) PROVE Left(w)
    BY <1>1, <2>1, CloseWindowLeaves
  <2>2. ASSUME NEW b \in BOOLEAN, win' = [win EXCEPT ![v].shown = b], UNCHANGED modals
        PROVE  Left(w)
    <3>1. /\ win'[w].open = win[w].open /\ win'[w].pkg = win[w].pkg
          /\ win'[w].mId = win[w].mId /\ win'[w].boot = win[w].boot
          /\ win'[w].refused = win[w].refused
      BY <1>1, <2>2 DEF Window
    <3> QED BY <1>1, <2>2, <3>1 DEF Left, SameApp, Watched, HasDialog
  <2>3. CASE UserClose(v)
    BY <2>1, <2>2, <2>3 DEF UserClose
  <2>4. CASE UserQuit(v)
    BY <2>1, <2>4 DEF UserQuit
  <2>5. CASE TrayOpen(v)
    BY <1>1, <2>2, <2>5 DEF TrayOpen, ShowMainWindow
  <2>6. CASE ConfirmCloseEnv(v)
    BY <1>2, <2>6 DEF ConfirmCloseEnv, guiVars
  <2> QED BY <1>6, <2>3, <2>4, <2>5, <2>6 DEF UserStep
<1>7. ASSUME NEW s \in Starters, StarterStep(s) \/ \E p \in Pkgs : StartApp(s, p)
      PROVE  Left(w)
  <2>1. startapp[s].pkg \in Pkgs
    BY StarterTypes
  <2>2. CASE CallActiveApp(s)
    BY <1>1, <2>1, <2>2, ActiveAppLeaves DEF CallActiveApp
  <2>3. CASE CallLaunchApp(s)
    BY <1>1, <2>1, <2>3, LaunchAppLeaves DEF CallLaunchApp
  <2>4. CASE \/ GetRunningAppList(s) \/ TryLock(s) \/ RequestLaunch(s)
             \/ \E p \in Pkgs : StartApp(s, p)
    BY <1>2, <2>4 DEF GetRunningAppList, TryLock, RequestLaunch, StartApp, guiVars
  <2> QED BY <1>7, <2>2, <2>3, <2>4 DEF StarterStep
<1>8. CASE OnKmreDockerEnvStopped \/ ExitTimeout
  BY <1>8 DEF OnKmreDockerEnvStopped, ExitTimeout, QuitSafely, Left
<1>9. ASSUME \/ \E p \in Pkgs : AndroidStep(p)
             \/ \E i \in DOMAIN fromAndroid : LoseMessage(i)
             \/ AndroidCloses \/ ContainerStops \/ UNCHANGED vars
      PROVE  Left(w)
  BY <1>2, <1>9 DEF AndroidStep, AndroidStarts, AppCrashes, Uninstall, LoseMessage,
                    AndroidCloses, ContainerStops, guiVars, vars
<1>10. Next \/ UNCHANGED vars
  OBVIOUS
<1> QED BY <1>3, <1>4, <1>5, <1>6, <1>7, <1>8, <1>9, <1>10 DEF Next

\* What is sent.
LEMMA SendSound ==
    ASSUME fromAndroid \in Seq(Sound), NEW p \in Pkgs,
           NEW kind \in {"launched", "closed", "crashed", "uninstalled"},
           NEW id \in {NoId} \cup 1 .. MaxId, kind = "launched" => id # NoId,
           Send(kind, p, id)
    PROVE  fromAndroid' \in Seq(Sound)
<1>1. \A n \in BOOLEAN : [kind |-> kind, pkg |-> p, id |-> id, named |-> n] \in Sound
  BY DEF Sound, Message
<1> DEFINE Tells(m) == m \in Sound /\ fromAndroid' = Append(fromAndroid, m)
<1>2. \E m : Tells(m)
  BY <1>1 DEF Send
<1> QED BY <1>2, AppendProperties

\* What Android does to the queue and its apps in a step.
AndroidActs ==
    \/ \E p \in Pkgs : AndroidLaunch(p)
    \/ \E p \in Pkgs, kind \in {"closed", "crashed", "uninstalled"} : AppStops(p, kind)

\* Every step takes a message, lets Android act, stops the container, or leaves
\* messages and apps alone.
LEMMA NextMessages ==
    ASSUME IInv, [Next]_vars
    PROVE  \/ \E i \in DOMAIN fromAndroid : OnMessage(i)
           \/ \E i \in DOMAIN fromAndroid : LoseMessage(i)
           \/ AndroidActs
           \/ ContainerStops
           \/ UNCHANGED <<fromAndroid, android>>
<1>1. CASE \E d \in modals : \/ DismissTimeout(d)
                             \/ \E restart \in BOOLEAN : AnswerHint(d, restart)
  BY <1>1 DEF DismissTimeout, AnswerHint, othersVars, androidVars
<1>2. CASE \E w \in Windows : BootTimeout(w) \/ UserStep(w)
  BY <1>2 DEF BootTimeout, UserStep, UserClose, UserQuit, TrayOpen, ConfirmCloseEnv,
              othersVars, androidVars
<1>3. CASE \E s \in Starters : StarterStep(s) \/ \E p \in Pkgs : StartApp(s, p)
  <2>1. PICK s \in Starters : StarterStep(s) \/ \E p \in Pkgs : StartApp(s, p)
    BY <1>3
  <2>2. startapp[s].pkg \in Pkgs
    BY StarterTypes
  <2>3. CASE RequestLaunch(s)
    BY <2>2, <2>3 DEF RequestLaunch, AndroidActs
  <2>4. CASE \/ GetRunningAppList(s) \/ CallActiveApp(s) \/ TryLock(s)
             \/ CallLaunchApp(s) \/ \E p \in Pkgs : StartApp(s, p)
    BY <2>4 DEF GetRunningAppList, CallActiveApp, TryLock, CallLaunchApp, StartApp,
                androidVars
  <2> QED BY <2>1, <2>3, <2>4 DEF StarterStep
<1>4. CASE \E p \in Pkgs : AndroidStep(p)
  BY <1>4 DEF AndroidStep, AndroidStarts, AppCrashes, Uninstall, AndroidActs
<1>5. CASE AndroidCloses
  <2>1. toAndroid # << >> /\ toAndroid \in Seq(Pkgs)
    BY <1>5, IInvParts DEF AndroidCloses, GuiInv, GuiTypes
  <2>2. Head(toAndroid) \in Pkgs
    BY <2>1, HeadTailProperties
  <2> QED BY <1>5, <2>2 DEF AndroidCloses, AndroidActs
<1>6. CASE OnKmreDockerEnvStopped \/ ExitTimeout
  BY <1>6 DEF OnKmreDockerEnvStopped, ExitTimeout, QuitSafely, androidVars
<1>7. CASE UNCHANGED vars
  BY <1>7 DEF vars
<1>8. Next \/ UNCHANGED vars
  OBVIOUS
<1> QED BY <1>1, <1>2, <1>3, <1>4, <1>5, <1>6, <1>7, <1>8 DEF Next

LEMMA NextSound ==
    ASSUME IInv, BootInv, [Next]_vars
    PROVE  fromAndroid' \in Seq(Sound)
<1>1. /\ fromAndroid \in Seq(Sound) /\ lastId \in 0 .. MaxId
      /\ android \in [Pkgs -> {NoId} \cup 1 .. MaxId]
  BY IInvParts DEF BootInv, AndroidTypes
<1>2. CASE \E i \in DOMAIN fromAndroid : OnMessage(i) \/ LoseMessage(i)
  <2>1. PICK i \in DOMAIN fromAndroid : fromAndroid' = RemoveAt(fromAndroid, i)
    BY <1>2 DEF OnMessage, LoseMessage
  <2> QED BY <1>1, <2>1 DEF RemoveAt
<1>3. ASSUME NEW p \in Pkgs, AndroidLaunch(p)
      PROVE  fromAndroid' \in Seq(Sound)
  <2>1. CASE android[p] # NoId /\ Send("launched", p, android[p])
    BY <1>1, <2>1, SendSound
  <2>2. CASE lastId < MaxId /\ Send("launched", p, lastId + 1)
    <3>1. lastId + 1 \in 1 .. MaxId /\ lastId + 1 # NoId
      BY <1>1, <2>2, BoundAssumption DEF NoId
    <3> QED BY <1>1, <2>2, <3>1, SendSound
  <2> QED BY <1>3, <2>1, <2>2 DEF AndroidLaunch
<1>4. ASSUME NEW p \in Pkgs, NEW kind \in {"closed", "crashed", "uninstalled"},
             AppStops(p, kind)
      PROVE  fromAndroid' \in Seq(Sound)
  BY <1>1, <1>4, SendSound DEF AppStops
<1>5. CASE ContainerStops \/ UNCHANGED <<fromAndroid, android>>
  BY <1>1, <1>5 DEF ContainerStops
<1> QED BY <1>2, <1>3, <1>4, <1>5, NextMessages DEF AndroidActs

LEMMA NextBootInv == IInv /\ BootInv /\ [Next]_vars => BootInv'
<1> SUFFICES ASSUME IInv, BootInv, [Next]_vars PROVE BootInv'
  OBVIOUS
<1>1. ASSUME NEW w \in Windows PROVE Watched(w)'
  BY NextLeaves, LeftIsWatched DEF Gets
<1> QED BY <1>1, NextSound DEF BootInv

LEMMA InitBootInv == Init => BootInv
<1> SUFFICES ASSUME Init PROVE BootInv
  OBVIOUS
<1>1. \A w \in Windows : win[w] = Unused
  BY DEF Init
<1>2. fromAndroid \in Seq(Sound)
  BY EmptySeq DEF Init
<1>3. ~Unused.open /\ Unused.boot = "none"
  BY DEF Unused
<1>4. \A w \in Windows : Watched(w)
  BY <1>1, <1>3 DEF Watched
<1> QED BY <1>2, <1>4 DEF BootInv

LEMMA NextExitInv == IInv /\ ExitInv /\ [Next]_vars => ExitInv'
<1> SUFFICES ASSUME IInv, ExitInv, [Next]_vars PROVE ExitInv'
  OBVIOUS
<1>1. ASSUME UNCHANGED exitVars, process = "exited" => process' = "exited"
      PROVE  ExitInv'
  BY <1>1 DEF ExitInv, exitVars
<1>2. ASSUME NEW i \in DOMAIN fromAndroid, OnMessage(i) \/ LoseMessage(i)
      PROVE  ExitInv'
  BY <1>1, <1>2 DEF OnMessage, OnAppLaunchSucceed, OnAppCloseSucceed, AppUninstalled,
                    CloseWindow, LoseMessage
<1>3. ASSUME NEW d \in modals,
             DismissTimeout(d) \/ \E restart \in BOOLEAN : AnswerHint(d, restart)
      PROVE  ExitInv'
  BY <1>1, <1>3 DEF DismissTimeout, AnswerHint, CloseWindow
<1>4. ASSUME NEW w \in Windows,
             BootTimeout(w) \/ UserClose(w) \/ UserQuit(w) \/ TrayOpen(w)
      PROVE  ExitInv'
  BY <1>1, <1>4 DEF BootTimeout, UserClose, UserQuit, TrayOpen, CloseWindow
<1>5. ASSUME NEW w \in Windows, ConfirmCloseEnv(w)
      PROVE  ExitInv'
  BY <1>5 DEF ConfirmCloseEnv, WaitForExit, ExitInv
<1>6. ASSUME NEW s \in Starters, StarterStep(s) \/ \E p \in Pkgs : StartApp(s, p)
      PROVE  ExitInv'
  BY <1>1, <1>6 DEF StarterStep, StartApp, GetRunningAppList, CallActiveApp, ActiveApp,
                    TryLock, CallLaunchApp, LaunchApp, RequestLaunch
<1>7. CASE OnKmreDockerEnvStopped \/ ExitTimeout
  BY <1>7 DEF OnKmreDockerEnvStopped, ExitTimeout, QuitSafely, ExitInv
<1>8. CASE (\E p \in Pkgs : AndroidStep(p)) \/ AndroidCloses \/ UNCHANGED vars
  BY <1>1, <1>8 DEF AndroidStep, AndroidStarts, AppCrashes, Uninstall, AndroidCloses,
                    exitVars, vars
<1>9. CASE ContainerStops
  BY <1>9 DEF ContainerStops, ExitInv
<1>10. Next \/ UNCHANGED vars
  OBVIOUS
<1> QED BY <1>2, <1>3, <1>4, <1>5, <1>6, <1>7, <1>8, <1>9, <1>10 DEF Next, UserStep

-----------------------------------------------------------------------------
(* The end of a display is told.                                           *)

LEMMA InSequenceBefore ==
    ASSUME IInv, [Next]_vars, InSequence'
    PROVE  InSequence /\ ~ContainerStops
           /\ \A i \in DOMAIN fromAndroid : ~LoseMessage(i)
<1>1. /\ lost \in Nat /\ lost' = 0 /\ AndroidUp' /\ ~Reordered
      /\ container \in {"up", "stopping", "signalled", "stopped"}
  BY IInvParts, BoundAssumption DEF AndroidTypes, ExitTypes, InSequence
<1>2. ~ContainerStops
  BY <1>1 DEF ContainerStops, AndroidUp
<1>3. \A i \in DOMAIN fromAndroid : ~LoseMessage(i)
  BY <1>1 DEF LoseMessage
<1>4. ASSUME UNCHANGED lost, AndroidUp' => AndroidUp
      PROVE  InSequence
  BY <1>1, <1>4 DEF InSequence
<1>5. ASSUME UNCHANGED <<lost, container>>
      PROVE  InSequence
  BY <1>4, <1>5 DEF AndroidUp
<1>6. ASSUME NEW i \in DOMAIN fromAndroid, OnMessage(i)
      PROVE  InSequence
  <2>1. UNCHANGED <<lost, exitVars>>
    BY <1>6 DEF OnMessage, OnAppLaunchSucceed, OnAppCloseSucceed, AppUninstalled,
                CloseWindow, androidVars
  <2> QED BY <1>5, <2>1 DEF exitVars
<1>7. ASSUME NEW d \in modals,
             DismissTimeout(d) \/ \E restart \in BOOLEAN : AnswerHint(d, restart)
      PROVE  InSequence
  BY <1>5, <1>7 DEF DismissTimeout, AnswerHint, CloseWindow, othersVars, androidVars, exitVars
<1>8. ASSUME NEW w \in Windows, BootTimeout(w) \/ UserStep(w)
      PROVE  InSequence
  <2>1. CASE ConfirmCloseEnv(w)
    BY <1>4, <2>1 DEF ConfirmCloseEnv, AndroidUp, othersVars, androidVars
  <2>2. CASE BootTimeout(w) \/ UserClose(w) \/ UserQuit(w) \/ TrayOpen(w)
    BY <1>5, <2>2 DEF BootTimeout, UserClose, UserQuit, TrayOpen, CloseWindow,
                      othersVars, androidVars, exitVars
  <2> QED BY <1>8, <2>1, <2>2 DEF UserStep
<1>9. ASSUME NEW s \in Starters, StarterStep(s) \/ \E p \in Pkgs : StartApp(s, p)
      PROVE  InSequence
  BY <1>5, <1>9 DEF StarterStep, StartApp, GetRunningAppList, CallActiveApp, ActiveApp,
                    TryLock, CallLaunchApp, LaunchApp, RequestLaunch, androidVars, exitVars
<1>10. ASSUME OnKmreDockerEnvStopped \/ ExitTimeout
       PROVE  InSequence
  <2>1. UNCHANGED lost
    BY <1>10 DEF OnKmreDockerEnvStopped, ExitTimeout, QuitSafely, androidVars
  <2>2. AndroidUp' => AndroidUp
    BY <1>10 DEF OnKmreDockerEnvStopped, ExitTimeout, AndroidUp
  <2> QED BY <1>4, <2>1, <2>2
<1>11. ASSUME (\E p \in Pkgs : AndroidStep(p)) \/ AndroidCloses \/ UNCHANGED vars
      PROVE  InSequence
  BY <1>5, <1>11 DEF AndroidStep, AndroidStarts, AppCrashes, Uninstall, AndroidCloses,
                     exitVars, vars
<1>12. Next \/ UNCHANGED vars
  OBVIOUS
<1> QED BY <1>2, <1>3, <1>6, <1>7, <1>8, <1>9, <1>10, <1>11, <1>12 DEF Next

\* A window that is left stays current if what is known of its display does.
LEMMA LeftIsCurrent ==
    ASSUME NEW w \in Windows, Left(w), Current(w),
           NEW p, NEW id, p = win[w].pkg, id = win[w].mId,
           android[p] = id => android'[p] = id \/ EndTold(p, id)',
           EndTold(p, id) => EndTold(p, id)'
    PROVE  Current(w)'
<1>1. CASE win'[w] = Unused
  BY <1>1, UnusedType DEF Current
<1>2. CASE win'[w].mId = NoId
  BY <1>2 DEF Current
<1>3. CASE SameApp(w) /\ (HasDialog(modals, "hint", w) => HasDialog(modals, "hint", w)')
  BY <1>3 DEF SameApp, Current, EndTold, TellsEnd
<1> QED BY <1>1, <1>2, <1>3 DEF Left

\* The queue with one message more.
Sent(new, kind, q, k) ==
    /\ DOMAIN fromAndroid' = DOMAIN fromAndroid \cup {new}
    /\ \A i \in DOMAIN fromAndroid : i < new /\ fromAndroid'[i] = fromAndroid[i]
    /\ fromAndroid'[new].kind = kind
    /\ fromAndroid'[new].pkg = q /\ fromAndroid'[new].id = k

LEMMA SendTells ==
    ASSUME fromAndroid \in Seq(Message), NEW q \in Pkgs,
           NEW kind \in {"launched", "closed", "crashed", "uninstalled"},
           NEW k \in {NoId} \cup 1 .. MaxId, Send(kind, q, k),
           NEW new \in Nat, new = Len(fromAndroid) + 1
    PROVE  Sent(new, kind, q, k)
<1>1. \A n \in BOOLEAN : [kind |-> kind, pkg |-> q, id |-> k, named |-> n] \in Message
  BY DEF Message
<1>2. PICK m \in Message : /\ fromAndroid' = Append(fromAndroid, m)
                           /\ m.kind = kind /\ m.pkg = q /\ m.id = k
  BY <1>1 DEF Send
<1>3. /\ DOMAIN fromAndroid = 1 .. Len(fromAndroid) /\ Len(fromAndroid) \in Nat
      /\ DOMAIN fromAndroid' = 1 .. Len(fromAndroid) + 1
      /\ \A i \in DOMAIN fromAndroid : fromAndroid'[i] = fromAndroid[i]
      /\ fromAndroid'[Len(fromAndroid) + 1] = m
  BY <1>1, <1>2, AppendProperties
<1> QED BY <1>2, <1>3 DEF Sent

\* What Android sends leaves everything told that was told; an app that starts
\* was not running, and the end of one that stops is told last.
LEMMA AndroidActsKeep ==
    ASSUME IInv, BootInv, AndroidActs, NEW p \in Pkgs, NEW id, id # NoId
    PROVE  /\ EndTold(p, id) => EndTold(p, id)'
           /\ android[p] = id => android'[p] = id \/ EndTold(p, id)'
           /\ \A i \in DOMAIN fromAndroid :
                 android[p] = id => \/ android'[p] = id
                                    \/ \E j \in DOMAIN fromAndroid' :
                                          j > i /\ TellsEnd(j, p, id)'
<1>1. /\ fromAndroid \in Seq(Message) /\ lastId \in 0 .. MaxId
      /\ android \in [Pkgs -> {NoId} \cup 1 .. MaxId]
  BY IInvParts DEF AndroidTypes
<1>l. Len(fromAndroid) \in Nat
  BY <1>1, LenProperties
<1>n. PICK new \in Nat : new = Len(fromAndroid) + 1
  BY <1>l
<1>2. ASSUME NEW q \in Pkgs, NEW k \in {NoId} \cup 1 .. MaxId,
             NEW kind \in {"launched", "closed", "crashed", "uninstalled"},
             Send(kind, q, k)
      PROVE  /\ EndTold(p, id) => EndTold(p, id)'
             /\ kind # "launched" /\ p = q /\ k = id =>
                    /\ TellsEnd(new, p, id)'
                    /\ EndTold(p, id)'
                    /\ \A i \in DOMAIN fromAndroid :
                          \E j \in DOMAIN fromAndroid' : j > i /\ TellsEnd(j, p, id)'
  <2>1. /\ DOMAIN fromAndroid' = DOMAIN fromAndroid \cup {new}
        /\ \A i \in DOMAIN fromAndroid : i < new /\ fromAndroid'[i] = fromAndroid[i]
        /\ fromAndroid'[new].kind = kind
        /\ fromAndroid'[new].pkg = q /\ fromAndroid'[new].id = k
    <3>1. Sent(new, kind, q, k)
      BY <1>1, <1>2, <1>n, SendTells
    <3> QED BY <3>1 DEF Sent
  <2>2. EndTold(p, id) => EndTold(p, id)'
    BY <2>1 DEF EndTold, TellsEnd
  <2>3. kind # "launched" /\ p = q /\ k = id => TellsEnd(new, p, id)'
    BY <2>1 DEF TellsEnd
  <2>4. \A i \in DOMAIN fromAndroid : new \in DOMAIN fromAndroid' /\ new > i
    <3>1. \A i \in DOMAIN fromAndroid : i \in Nat
      BY <1>1, LenProperties
    <3> QED BY <2>1, <3>1
  <2>5. TellsEnd(new, p, id)' => EndTold(p, id)'
    BY <2>1 DEF EndTold
  <2> QED BY <2>2, <2>3, <2>4, <2>5
<1>3. ASSUME NEW q \in Pkgs, AndroidLaunch(q)
      PROVE  (EndTold(p, id) => EndTold(p, id)') /\ (android[p] = id => android'[p] = id)
  <2>1. CASE android[q] # NoId /\ Send("launched", q, android[q]) /\ UNCHANGED android
    BY <1>1, <1>2, <2>1
  <2>2. CASE /\ android[q] = NoId /\ lastId < MaxId /\ Send("launched", q, lastId + 1)
             /\ android' = [android EXCEPT ![q] = lastId + 1]
    <3>1. lastId + 1 \in {NoId} \cup 1 .. MaxId
      BY <1>1, <2>2, BoundAssumption
    <3>2. EndTold(p, id) => EndTold(p, id)'
      BY <1>2, <2>2, <3>1
    <3>3. android[p] = id => android'[p] = id
      BY <1>1, <2>2
    <3> QED BY <3>2, <3>3
  <2> QED BY <1>3, <2>1, <2>2 DEF AndroidLaunch
<1>4. ASSUME NEW q \in Pkgs, NEW kind \in {"closed", "crashed", "uninstalled"},
             AppStops(q, kind)
      PROVE  /\ EndTold(p, id) => EndTold(p, id)'
             /\ android[p] = id =>
                   \/ android'[p] = id
                   \/ /\ EndTold(p, id)'
                      /\ \A i \in DOMAIN fromAndroid :
                            \E j \in DOMAIN fromAndroid' : j > i /\ TellsEnd(j, p, id)'
  <2>1. Send(kind, q, android[q]) /\ android' = [android EXCEPT ![q] = NoId]
        /\ android[q] \in {NoId} \cup 1 .. MaxId /\ kind # "launched"
    BY <1>1, <1>4 DEF AppStops
  <2>2. CASE p = q
    BY <1>2, <2>1, <2>2
  <2>3. CASE p # q
    BY <1>1, <1>2, <2>1, <2>3
  <2> QED BY <2>2, <2>3
<1> QED BY <1>3, <1>4 DEF AndroidActs

\* No LaunchResult goes out of date unnoticed.
LEMMA AndroidActsLaunch ==
    ASSUME IInv, BootInv, EndInv, InSequence, AndroidActs, NEW i \in DOMAIN fromAndroid'
    PROVE  LaunchCurrent(i)'
<1>1. /\ fromAndroid \in Seq(Message) /\ fromAndroid \in Seq(Sound)
      /\ lastId \in 0 .. MaxId
      /\ android \in [Pkgs -> {NoId} \cup 1 .. MaxId]
  BY IInvParts DEF BootInv, AndroidTypes
<1>2. PICK q \in Pkgs, kind \in {"launched", "closed", "crashed", "uninstalled"},
           k \in {NoId} \cup 1 .. MaxId :
        Send(kind, q, k) /\ (kind = "launched" => android'[q] = k)
  <2>1. ASSUME NEW q \in Pkgs, AndroidLaunch(q)
        PROVE  \E k \in {NoId} \cup 1 .. MaxId :
                   Send("launched", q, k) /\ android'[q] = k
    <3>1. CASE Send("launched", q, android[q]) /\ UNCHANGED android
      BY <1>1, <3>1
    <3>2. CASE /\ lastId < MaxId /\ Send("launched", q, lastId + 1)
               /\ android' = [android EXCEPT ![q] = lastId + 1]
      <4>1. lastId + 1 \in {NoId} \cup 1 .. MaxId
        BY <1>1, <3>2, BoundAssumption
      <4> QED BY <1>1, <3>2, <4>1
    <3> QED BY <2>1, <3>1, <3>2 DEF AndroidLaunch
  <2>2. ASSUME NEW q \in Pkgs, NEW kind \in {"closed", "crashed", "uninstalled"},
               AppStops(q, kind)
        PROVE  Send(kind, q, android[q]) /\ android[q] \in {NoId} \cup 1 .. MaxId
    BY <1>1, <2>2 DEF AppStops
  <2> QED BY <2>1, <2>2 DEF AndroidActs
<1>l. Len(fromAndroid) \in Nat
  BY <1>1, LenProperties
<1>n. PICK new \in Nat : new = Len(fromAndroid) + 1
  BY <1>l
<1>3. /\ DOMAIN fromAndroid' = DOMAIN fromAndroid \cup {new}
      /\ \A j \in DOMAIN fromAndroid : j < new /\ fromAndroid'[j] = fromAndroid[j]
      /\ fromAndroid'[new].kind = kind
      /\ fromAndroid'[new].pkg = q /\ fromAndroid'[new].id = k
  <2>1. Sent(new, kind, q, k)
    BY <1>1, <1>2, <1>n, SendTells
  <2> QED BY <2>1 DEF Sent
<1>4. CASE i = new
  BY <1>2, <1>3, <1>4 DEF LaunchCurrent
<1>5. CASE i \in DOMAIN fromAndroid /\ fromAndroid[i].kind = "launched"
  <2>1. fromAndroid[i] \in Sound /\ fromAndroid'[i] = fromAndroid[i]
    BY <1>1, <1>3, <1>5
  <2>2. PICK p \in Pkgs, id \in 1 .. MaxId :
             p = fromAndroid[i].pkg /\ id = fromAndroid[i].id /\ id # NoId
    BY <1>5, <2>1 DEF Sound, Message
  <2>3. LaunchCurrent(i)
    BY <1>5 DEF EndInv
  <2>4. \/ android[p] = id
        \/ \E j \in DOMAIN fromAndroid : j > i /\ TellsEnd(j, p, id)
    BY <1>5, <2>2, <2>3 DEF LaunchCurrent
  <2>5. \/ android'[p] = id
        \/ \E j \in DOMAIN fromAndroid' : j > i /\ TellsEnd(j, p, id)'
    <3>1. CASE android[p] = id
      BY <1>5, <2>2, <3>1, AndroidActsKeep
    <3>2. ASSUME NEW j \in DOMAIN fromAndroid, j > i, TellsEnd(j, p, id)
          PROVE  j \in DOMAIN fromAndroid' /\ TellsEnd(j, p, id)'
      BY <1>3, <3>2 DEF TellsEnd
    <3> QED BY <2>4, <3>1, <3>2
  <2> QED BY <2>1, <2>2, <2>5 DEF LaunchCurrent, TellsEnd
<1>6. CASE i \in DOMAIN fromAndroid /\ fromAndroid[i].kind # "launched"
  BY <1>3, <1>6 DEF LaunchCurrent
<1> QED BY <1>3, <1>4, <1>5, <1>6

\* The first message is taken.
LEMMA FirstTaken ==
    ASSUME fromAndroid \in Seq(Message), 1 \in DOMAIN fromAndroid,
           fromAndroid' = RemoveAt(fromAndroid, 1)
    PROVE  /\ \A i \in DOMAIN fromAndroid :
                 i > 1 => i - 1 \in DOMAIN fromAndroid' /\ fromAndroid'[i - 1] = fromAndroid[i]
           /\ \A i \in DOMAIN fromAndroid' :
                 i + 1 \in DOMAIN fromAndroid /\ fromAndroid'[i] = fromAndroid[i + 1]
<1> DEFINE before == SubSeq(fromAndroid, 1, 0)
           after  == SubSeq(fromAndroid, 2, Len(fromAndroid))
<1>1. /\ Len(fromAndroid) \in Nat /\ Len(fromAndroid) >= 1
      /\ DOMAIN fromAndroid = 1 .. Len(fromAndroid)
  BY LenProperties
<1>2. before = << >>
  OBVIOUS
<1>3. /\ after \in Seq(Message) /\ Len(after) = Len(fromAndroid) - 1
      /\ \A k \in 1 .. Len(fromAndroid) - 1 : after[k] = fromAndroid[k + 1]
  BY <1>1
<1>4. fromAndroid' = before \o after
  BY DEF RemoveAt
<1> HIDE DEF before, after
<1>5. fromAndroid' = after
  BY <1>2, <1>3, <1>4, ConcatEmptySeq
<1>6. DOMAIN fromAndroid' = 1 .. Len(fromAndroid) - 1
  BY <1>3, <1>5, LenProperties
<1> QED BY <1>1, <1>3, <1>5, <1>6

LEMMA OnMessageCurrent ==
    ASSUME IInv, BootInv, EndInv, InSequence, InSequence',
           NEW i \in DOMAIN fromAndroid, OnMessage(i)
    PROVE  EndInv'
<1>1. /\ i = 1 /\ fromAndroid' = RemoveAt(fromAndroid, 1)
      /\ fromAndroid \in Seq(Message) /\ UNCHANGED android
      /\ GuiInv
  BY IInvParts DEF OnMessage, Deliverable, InSequence, androidVars
<1>2. /\ \A j \in DOMAIN fromAndroid :
            j > 1 => j - 1 \in DOMAIN fromAndroid' /\ fromAndroid'[j - 1] = fromAndroid[j]
      /\ \A j \in DOMAIN fromAndroid' :
            j + 1 \in DOMAIN fromAndroid /\ fromAndroid'[j] = fromAndroid[j + 1]
      /\ DOMAIN fromAndroid' \subseteq Nat /\ DOMAIN fromAndroid \subseteq Nat \ {0}
  <2>1. fromAndroid' \in Seq(Message)
    BY <1>1, MessageTyped
  <2>2. DOMAIN fromAndroid' \subseteq Nat /\ DOMAIN fromAndroid \subseteq Nat \ {0}
    BY <1>1, <2>1, LenProperties
  <2> QED BY <1>1, <2>2, FirstTaken
<1>3. ASSUME NEW p, NEW id, NEW j \in DOMAIN fromAndroid, j > 1, TellsEnd(j, p, id)
      PROVE  /\ j - 1 \in DOMAIN fromAndroid' /\ TellsEnd(j - 1, p, id)'
             /\ EndTold(p, id)'
  BY <1>2, <1>3 DEF TellsEnd, EndTold
<1>m. fromAndroid[1] \in Sound
  BY <1>1 DEF BootInv
<1>f. PICK m \in Sound : m = fromAndroid[1]
  BY <1>m
<1>4. /\ m.pkg \in Pkgs /\ m.named \in BOOLEAN
      /\ \A w \in Windows : Watched(w)
      /\ m.kind = "launched" => m.id \in 1 .. MaxId
  BY DEF BootInv, Sound, Message
<1>5. ASSUME NEW k \in DOMAIN fromAndroid'
      PROVE  LaunchCurrent(k)'
  <2>p. PICK p, id : p = fromAndroid[k + 1].pkg /\ id = fromAndroid[k + 1].id
    OBVIOUS
  <2>1. k + 1 \in DOMAIN fromAndroid /\ fromAndroid'[k] = fromAndroid[k + 1] /\ k \in Nat
    BY <1>2
  <2>2. LaunchCurrent(k + 1)
    BY <2>1 DEF EndInv
  <2>3. ASSUME NEW j \in DOMAIN fromAndroid, j > k + 1, TellsEnd(j, p, id)
        PROVE  j - 1 \in DOMAIN fromAndroid' /\ j - 1 > k /\ TellsEnd(j - 1, p, id)'
    <3>1. j \in Nat /\ j > 1 /\ j - 1 > k
      BY <1>2, <2>1, <2>3
    <3> QED BY <1>3, <2>3, <3>1
  <2>4. fromAndroid[k + 1].kind = "launched" =>
            \/ android[p] = id
            \/ \E j \in DOMAIN fromAndroid' : j > k /\ TellsEnd(j, p, id)'
    BY <2>2, <2>3, <2>p DEF LaunchCurrent
  <2>5. fromAndroid'[k].pkg = p /\ fromAndroid'[k].id = id
        /\ fromAndroid'[k].kind = fromAndroid[k + 1].kind
    BY <2>1, <2>p
  <2> QED BY <1>1, <2>4, <2>5 DEF LaunchCurrent, TellsEnd
<1>6. ASSUME NEW w \in Windows
      PROVE  Current(w)'
  <2>1. Current(w) /\ Watched(w)
    BY <1>4 DEF EndInv
  <2>p. PICK q, k : q = win[w].pkg /\ k = win[w].mId
    OBVIOUS
  <2>2. ASSUME Left(w), EndTold(q, k) => EndTold(q, k)'
        PROVE  Current(w)'
    BY <1>1, <2>1, <2>2, <2>p, LeftIsCurrent
  <2>3. ASSUME NEW p, NEW id, EndTold(p, id), ~EndTold(p, id)'
        PROVE  m.kind # "launched" /\ m.pkg = p /\ m.id = id
    <3>1. PICK j \in DOMAIN fromAndroid : TellsEnd(j, p, id)
      BY <2>3 DEF EndTold
    <3>2. j \in Nat \ {0} /\ ~(j > 1)
      BY <1>2, <1>3, <2>3, <3>1
    <3>3. j = 1
      BY <3>2
    <3> QED BY <1>f, <3>1, <3>3 DEF TellsEnd
  <2>4. CASE m.kind = "launched" /\ OnAppLaunchSucceed(m.pkg, m.id, m.named)
    <3>1. Left(w) \/ Gets(w, m.pkg, m.id)
      BY <1>1, <1>4, <2>1, <2>4, LaunchResultLeaves
    <3>2. CASE Left(w)
      BY <2>2, <2>3, <2>4, <3>2
    <3>3. CASE Gets(w, m.pkg, m.id)
      <4>1. LaunchCurrent(1)
        BY <1>1 DEF EndInv
      <4>2. android[m.pkg] = m.id \/ EndTold(m.pkg, m.id)'
        BY <1>3, <1>f, <2>4, <4>1 DEF LaunchCurrent
      <4> QED BY <1>1, <3>3, <4>2 DEF Gets, Current, EndTold, TellsEnd
    <3> QED BY <3>1, <3>2, <3>3
  <2>5. CASE m.kind \in {"closed", "crashed"} /\ OnAppCloseSucceed(m.pkg)
    <3>1. /\ Left(w) /\ UNCHANGED win
          /\ win[w].open /\ win[w].pkg = m.pkg => HasDialog(modals, "hint", w)'
      BY <1>1, <1>4, <2>1, <2>5, OnAppCloseSucceedLeaves
    <3>2. CASE win[w].open /\ win[w].pkg = m.pkg
      BY <3>1, <3>2 DEF Current
    <3>3. CASE ~win[w].open
      BY <3>1, <3>3 DEF Current
    <3>4. CASE win[w].pkg # m.pkg
      BY <2>2, <2>3, <2>p, <3>1, <3>4
    <3> QED BY <3>2, <3>3, <3>4
  <2>6. CASE m.kind = "uninstalled" /\ AppUninstalled(m.pkg)
    <3>1. /\ Left(w)
          /\ win[w].open /\ win[w].pkg = m.pkg => ~win'[w].open
      BY <1>1, <1>4, <2>1, <2>6, AppUninstalledLeaves
    <3>2. CASE ~win'[w].open
      BY <3>2 DEF Current
    <3>3. CASE win'[w].open /\ win[w].open
      BY <2>2, <2>3, <2>p, <3>1, <3>3
    <3>4. CASE win'[w].open /\ ~win[w].open
      BY <3>1, <3>4, UnusedType DEF Left, SameApp, Current
    <3> QED BY <3>2, <3>3, <3>4
  <2> QED BY <1>1, <1>f, <2>4, <2>5, <2>6 DEF OnMessage
<1> QED BY <1>5, <1>6 DEF EndInv

LEMMA NextEndInv == IInv /\ BootInv /\ EndInv /\ [Next]_vars => EndInv'
<1> SUFFICES ASSUME IInv, BootInv, EndInv, [Next]_vars, InSequence'
             PROVE  EndInv'
  BY DEF EndInv
<1>1. /\ InSequence /\ ~ContainerStops
      /\ \A i \in DOMAIN fromAndroid : ~LoseMessage(i)
  BY InSequenceBefore
<1>2. CASE \E i \in DOMAIN fromAndroid : OnMessage(i)
  BY <1>1, <1>2, OnMessageCurrent
<1>3. ASSUME \A i \in DOMAIN fromAndroid : ~OnMessage(i), NEW w \in Windows
      PROVE  Left(w)
  BY <1>3, NextLeaves
<1>4. \A w \in Windows : win[w].open => win[w].pkg \in Pkgs
  BY IInvParts DEF GuiInv, GuiTypes, Window
<1>5. CASE UNCHANGED <<fromAndroid, android>> /\ \A i \in DOMAIN fromAndroid : ~OnMessage(i)
  <2>1. \A i \in DOMAIN fromAndroid' : LaunchCurrent(i)'
    BY <1>1, <1>5 DEF EndInv, LaunchCurrent, TellsEnd
  <2>2. ASSUME NEW w \in Windows PROVE Current(w)'
    <3>1. PICK p, id : p = win[w].pkg /\ id = win[w].mId
      OBVIOUS
    <3>2. EndTold(p, id) => EndTold(p, id)'
      BY <1>5 DEF EndTold, TellsEnd
    <3>3. Left(w) /\ Current(w)
      BY <1>1, <1>3, <1>5 DEF EndInv
    <3> QED BY <1>5, <3>1, <3>2, <3>3, LeftIsCurrent
  <2> QED BY <2>1, <2>2 DEF EndInv
<1>6. CASE AndroidActs /\ \A i \in DOMAIN fromAndroid : ~OnMessage(i)
  <2>1. ASSUME NEW w \in Windows PROVE Current(w)'
    <3>1. win[w].pkg \in Pkgs /\ Left(w) /\ Current(w)
      BY <1>1, <1>3, <1>6, IInvParts DEF EndInv, GuiInv, GuiTypes, Window
    <3>2. CASE win[w].mId # NoId
      <4>1. PICK p \in Pkgs, id \in {win[w].mId} : p = win[w].pkg /\ id = win[w].mId
        BY <3>1
      <4>2. /\ EndTold(p, id) => EndTold(p, id)'
            /\ android[p] = id => android'[p] = id \/ EndTold(p, id)'
        BY <1>6, <3>2, <4>1, AndroidActsKeep
      <4> QED BY <3>1, <4>1, <4>2, LeftIsCurrent
    <3>3. CASE win[w].mId = NoId
      BY <3>1, <3>3, UnusedType DEF Left, SameApp, Current
    <3> QED BY <3>2, <3>3
  <2>2. ASSUME NEW i \in DOMAIN fromAndroid' PROVE LaunchCurrent(i)'
    BY <1>1, <1>6, <2>2, AndroidActsLaunch
  <2> QED BY <2>1, <2>2 DEF EndInv
<1> QED BY <1>1, <1>2, <1>5, <1>6, NextMessages

LEMMA InitEndInv == Init => EndInv
<1> SUFFICES ASSUME Init PROVE EndInv
  OBVIOUS
<1>1. \A w \in Windows : win[w] = Unused
  BY DEF Init
<1>2. DOMAIN fromAndroid = {}
  BY DEF Init
<1> QED BY <1>1, <1>2, UnusedType DEF EndInv, Current

\* A window waits for its display only while its boot timer runs or has told the
\* user, LaunchResult lost or not, for any number of apps and windows; the one
\* exception is a display that came without a name and was refused.
THEOREM BootsAreWatched == Spec => []BootIsWatched
<1>1. IInv /\ BootInv => BootIsWatched
  <2> SUFFICES ASSUME IInv, BootInv, NEW w \in Windows, win[w].open, win[w].mId = NoId
               PROVE  \/ win[w].boot = "running" \/ HasDialog(modals, "timeout", w)
                      \/ win[w].refused
    BY DEF BootIsWatched
  <2>1. win[w].boot \in {"none", "running", "stopped"} /\ Watched(w)
    BY IInvParts DEF GuiInv, GuiTypes, Window, BootInv
  <2> QED BY <2>1 DEF Watched
<1> QED BY <1>1, InitIInv, NextIInv, InitBootInv, NextBootInv, PTL DEF Spec

\* Once the user has closed the environment a timer will end the process, as
\* long as it has not ended.
THEOREM ExitsAreTimed == Spec => []ExitIsTimed
<1>1. Init => ExitInv
  BY DEF Init, ExitInv
<1>2. IInv /\ ExitInv => ExitIsTimed
  BY IInvParts DEF ExitTypes, ExitInv, ExitIsTimed
<1> QED BY <1>1, <1>2, InitIInv, NextIInv, NextExitInv, PTL DEF Spec

\* As long as messages come in order and none is lost, a window whose app has
\* gone, or is back on another display, shows the hint or has the message on its
\* way that makes it do so, for any number of apps and windows.
THEOREM EndsAreTold == Spec => []EndIsOnItsWay
<1>1. EndInv => EndIsOnItsWay
  BY DEF EndInv, EndIsOnItsWay
<1> QED BY <1>1, InitIInv, NextIInv, InitBootInv, NextBootInv, InitEndInv, NextEndInv,
           PTL DEF Spec
=============================================================================
