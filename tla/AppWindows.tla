----------------------------- MODULE AppWindows -----------------------------
(***************************************************************************)
(* The windows of kylin-kmre-window, one per running Android app: how they *)
(* are created, booted, hidden, found crashed and closed, while startapp,  *)
(* the user, Android and the container act on their own.                   *)
(*                                                                         *)
(*   src/window/window/windowmanager.cpp     the map of the windows        *)
(*   src/window/window/kmrewindow.cpp        one window                    *)
(*   src/window/communication/...            the traffic with Android      *)
(*   src/startapp/{main,utils}.cpp           the launcher process          *)
(*                                                                         *)
(* Threads and processes.  Every handler of the window manager and of the  *)
(* windows runs in the GUI thread to its end and is one action, with one   *)
(* exception: the boot timeout runs a dialog in a nested event loop, so    *)
(* its handler is BootTimeout, anything at all, DismissTimeout.  mWinMapMtx *)
(* is implicit in that.  Each startapp is a process of its own, and so is  *)
(* Android, behind one queue in each direction.                            *)
(*                                                                         *)
(* Left out.  Pkgs are packages isAppSupportShow accepts.  Commands 5 and  *)
(* 6 (to background, to foreground) are not recorded.  controlApp(7) kills *)
(* the display that closeApp, sent just before it, has closed: the pair is *)
(* one request.  A window object is used again once it is deleted.         *)
(***************************************************************************)
EXTENDS Integers, Sequences, FiniteSets, SequencesExt

CONSTANTS Pkgs,       \* the Android apps
          TrayPkgs,   \* those with a tray icon (X11, trayEnabled)
          Windows,    \* KmreWindow objects
          NoWindow,   \* no entry in mWindowMap
          Starters,   \* startapp processes
          Reordered,  \* Android's messages come over several connections
          MaxId,      \* bound: displays Android creates
          MaxMessages,\* bound: messages from Android under way
          MaxRequests,\* bound: close requests pending when an app is started
          MaxLost     \* bound: messages from Android that are lost

ASSUME WindowAssumption == NoWindow \notin Windows
ASSUME PkgAssumption    == Pkgs # {} /\ TrayPkgs \subseteq Pkgs
ASSUME BoundAssumption  == /\ MaxId \in Nat
                           /\ MaxMessages \in Nat
                           /\ MaxRequests \in Nat
                           /\ MaxLost \in Nat
                           /\ Reordered \in BOOLEAN

VARIABLES
    mWindowMap,  \* KmreWindowManager::mWindowMap
    win,         \* the windows
    modals,      \* dialogs on screen
    process,     \* the kylin-kmre-window process
    mExitTimer,  \* KmreWindowManager::mExitTimer
    container,   \* the container, and what the window process knows of it
    startapp,    \* the startapp processes
    toAndroid,   \* closeApp requests queued at the BackendWorker
    fromAndroid, \* messages on the way to the GUI thread
    android,     \* display of the app in Android, NoId: not running
    lastId,      \* last display Android created
    lost,        \* messages lost
    hintClosed   \* history: apps whose last window a crash hint closed

guiVars     == <<mWindowMap, win, modals, hintClosed>>
exitVars    == <<mExitTimer, container>>
androidVars == <<android, lastId, lost>>
vars == <<mWindowMap, win, modals, process, mExitTimer, container, startapp,
          toAndroid, fromAndroid, android, lastId, lost, hintClosed>>

NoId == -1

Window == [open  : BOOLEAN,          \* created and not deleted
           pkg   : Pkgs,             \* mPackageName
           mId   : {NoId} \cup 1 .. MaxId,
           boot  : {"none",          \* mBootTimer is null
                    "running",
                    "stopped"},      \* stopped, its dialog is on screen
           shown : BOOLEAN,
           refused : BOOLEAN]        \* history: its display came without a name

\* nth counts the dialogs on screen from the oldest.
Modal == [kind : {"timeout", "hint"}, win : Windows, nth : Nat]

\* "closed" and "crashed" are one message, CloseResult, that names only the
\* package; the kind remembers why Android sent it, the id what it was about.
\* The app_name of a LaunchResult may be empty, then it is not named.
Message == [kind : {"launched", "closed", "crashed", "uninstalled"},
            pkg : Pkgs, id : {NoId} \cup 1 .. MaxId, named : BOOLEAN]

\* "seen": found in the list of running apps; "shown": its window is open.
Starter == [pc : {"idle", "spawned", "seen", "unseen", "locked", "shown"},
            pkg : Pkgs]

-----------------------------------------------------------------------------
(* KmreWindow                                                              *)

Unused == [open |-> FALSE, pkg |-> CHOOSE p \in Pkgs : TRUE, mId |-> NoId,
           boot |-> "none", shown |-> FALSE, refused |-> FALSE]

\* Mutant: ids count from 0, as if no display were display 0.
NewWindowZero(p, id) == [open |-> TRUE, pkg |-> p,
                         mId |-> IF id = NoId THEN 0 ELSE id,
                         boot |-> "none", shown |-> TRUE, refused |-> FALSE]

NewWindow(p, id) == [open |-> TRUE, pkg |-> p, mId |-> id, boot |-> "none",
                     shown |-> TRUE, refused |-> FALSE]

\* A display that comes without the name of the app is not taken.
UpdateDisplay(w, id, named) ==
    IF w.mId = NoId
    THEN [w EXCEPT !.mId = IF named THEN id ELSE NoId,
                   !.refused = id # NoId /\ ~named]
    ELSE w

ShowMainWindow(w) == [w EXCEPT !.shown = TRUE]

\* Mutant: the timer is made and not started.
StartBootTimerIdle(w) == w

StartBootTimer(w) == IF w.boot = "none" THEN [w EXCEPT !.boot = "running"] ELSE w

StopBootTimer(w) == [w EXCEPT !.boot = "none"]

\* Mutant: the entry of the package stays in mWindowMap.
CloseAppNoRemove(p) == UNCHANGED mWindowMap

CloseApp(p) == mWindowMap' = [mWindowMap EXCEPT ![p] = NoWindow]

\* Mutant: an app that has no display yet is not closed in Android.
RequestCloseShownOnly(w) ==
    IF win[w].mId = NoId THEN toAndroid ELSE Append(toAndroid, win[w].pkg)

RequestClose(w) == Append(toAndroid, win[w].pkg)

BootTimer(w, booting) == IF booting THEN StartBootTimer(w) ELSE StopBootTimer(w)

HasDialog(ms, kind, w) == \E m \in ms : m.kind = kind /\ m.win = w

\* The dialogs ms, counted anew, and with a new one in front of them.
Restacked(ms) ==
    {[m EXCEPT !.nth = Cardinality({n \in ms : n.nth <= m.nth})] : m \in ms}

Opened(ms, kind, w) ==
    Restacked(ms) \cup {[kind |-> kind, win |-> w, nth |-> Cardinality(ms) + 1]}

\* closeWindow(true) and the closeEvent it brings about; the window and its
\* dialogs are deleted when the handler ends (WA_DeleteOnClose).  ms are the
\* dialogs the handler leaves open.  A boot timeout whose dialog is deleted
\* with its window comes back into a deleted window: the process dies of it or
\* does not.
CloseWindow(w, ms, crashed) ==
    /\ CloseApp(win[w].pkg)
    /\ win' = [win EXCEPT ![w] = Unused]
    /\ modals' = Restacked({m \in ms : m.win # w})
    /\ toAndroid' = IF crashed THEN toAndroid ELSE RequestClose(w)
    /\ process' \in IF HasDialog(ms, "timeout", w) THEN {"alive", "exited"} ELSE {"alive"}
    /\ hintClosed' = IF crashed THEN hintClosed \cup {win[w].pkg} ELSE hintClosed
    /\ UNCHANGED exitVars

-----------------------------------------------------------------------------
(* Dialogs.  The boot timeout's is modal for the application, the crash    *)
(* hint's for its window; a dialog never blocks a newer one.               *)

Blocks(m, w) == m.kind = "timeout" \/ m.win = w

\* The user can reach the window, or the dialog.
Reachable(w)  == \A m \in modals : ~Blocks(m, w)
Answerable(d) == \A m \in modals : m.nth > d.nth => ~Blocks(m, d.win)

-----------------------------------------------------------------------------
(* KmreWindowManager                                                       *)

Fresh == {w \in Windows : ~win[w].open}

\* createWindow, and the start or stop of the boot timer that follows it.
CreateWindow(p, id, named, booting) ==
    IF mWindowMap[p] # NoWindow
    THEN /\ win' = [win EXCEPT ![mWindowMap[p]] =
                       BootTimer(ShowMainWindow(UpdateDisplay(@, id, named)), booting)]
         /\ UNCHANGED mWindowMap
    ELSE \E w \in Fresh :
            /\ mWindowMap' = [mWindowMap EXCEPT ![p] = w]
            /\ win' = [win EXCEPT ![w] = BootTimer(NewWindow(p, id), booting)]

\* Called by startapp over D-Bus.
LaunchApp(p) == /\ CreateWindow(p, NoId, FALSE, TRUE)
                /\ hintClosed' = hintClosed \ {p}
                /\ UNCHANGED <<modals, process, toAndroid, exitVars>>

ActiveApp(p) == /\ IF mWindowMap[p] # NoWindow
                   THEN win' = [win EXCEPT ![mWindowMap[p]] = ShowMainWindow(@)]
                   ELSE UNCHANGED win
                /\ UNCHANGED <<mWindowMap, modals, process, toAndroid, exitVars,
                               hintClosed>>

OnAppLaunchSucceed(p, id, named) ==
    /\ CreateWindow(p, id, named, FALSE)
    /\ hintClosed' = hintClosed \ {p}
    /\ UNCHANGED <<modals, process, toAndroid, exitVars>>

\* Mutant: the hint is for windows on screen, a window in the tray gets none.
ShowCrashedHintDialogShown(w) ==
    modals' = IF win[w].shown
              THEN Opened({m \in modals : m.kind = "hint" => m.win # w}, "hint", w)
              ELSE modals

\* A second hint replaces the first.
ShowCrashedHintDialog(w) ==
    modals' = Opened({m \in modals : m.kind = "hint" => m.win # w}, "hint", w)

OnAppCloseSucceed(p) ==
    /\ IF mWindowMap[p] # NoWindow
       THEN ShowCrashedHintDialog(mWindowMap[p])
       ELSE UNCHANGED modals
    /\ UNCHANGED <<mWindowMap, win, process, toAndroid, exitVars, hintClosed>>

AppUninstalled(p) ==
    IF mWindowMap[p] # NoWindow
    THEN CloseWindow(mWindowMap[p], modals, FALSE)
    ELSE UNCHANGED <<mWindowMap, win, modals, process, toAndroid, exitVars,
                     hintClosed>>

\* Mutant: nothing ends the process when the signal of the container is lost.
WaitForExitNot == UNCHANGED mExitTimer

WaitForExit == mExitTimer' = IF mExitTimer = "none" THEN "running" ELSE mExitTimer

\* quitSafely destroys the windows without closing their apps.
QuitSafely == /\ process' = "exited"
              /\ win' = [w \in Windows |-> Unused]
              /\ mWindowMap' = [p \in Pkgs |-> NoWindow]
              /\ modals' = {}
              /\ UNCHANGED <<toAndroid, startapp, fromAndroid, androidVars,
                             hintClosed>>

-----------------------------------------------------------------------------
(* Events of the GUI thread                                                *)

othersVars == <<startapp, fromAndroid, androidVars>>

Deliverable(i) == i \in DOMAIN fromAndroid /\ (Reordered \/ i = 1)

OnMessage(i) ==
    LET m == fromAndroid[i]
    IN /\ process = "alive" /\ Deliverable(i)
       /\ fromAndroid' = RemoveAt(fromAndroid, i)
       /\ \/ m.kind = "launched" /\ OnAppLaunchSucceed(m.pkg, m.id, m.named)
          \/ m.kind \in {"closed", "crashed"} /\ OnAppCloseSucceed(m.pkg)
          \/ m.kind = "uninstalled" /\ AppUninstalled(m.pkg)
       /\ UNCHANGED <<startapp, androidVars>>

\* Ten seconds after StartBootTimer.
BootTimeout(w) ==
    /\ process = "alive" /\ win[w].open /\ win[w].boot = "running"
    /\ win' = [win EXCEPT ![w].boot = "stopped"]
    /\ modals' = Opened(modals, "timeout", w)
    /\ UNCHANGED <<mWindowMap, process, toAndroid, exitVars, hintClosed, othersVars>>

DismissTimeout(d) ==
    /\ process = "alive" /\ d.kind = "timeout" /\ Answerable(d)
    /\ CloseWindow(d.win, modals \ {d}, FALSE)
    /\ UNCHANGED othersVars

\* The answer to the crash hint; "restart" spawns a startapp.
AnswerHint(d, restart) ==
    /\ process = "alive" /\ d.kind = "hint" /\ Answerable(d)
    /\ CloseWindow(d.win, modals, TRUE)
    /\ IF restart
       THEN \E s \in Starters :
               /\ startapp[s].pc = "idle"
               /\ startapp' = [startapp EXCEPT ![s] =
                                  [pc |-> "spawned", pkg |-> win[d.win].pkg]]
       ELSE UNCHANGED startapp
    /\ UNCHANGED <<fromAndroid, androidVars>>

\* The close button: a booting window is closed, another may go to the tray.
UserClose(w) ==
    /\ process = "alive" /\ win[w].open /\ win[w].shown /\ Reachable(w)
    /\ IF win[w].boot # "none" \/ win[w].pkg \notin TrayPkgs
       THEN CloseWindow(w, modals, FALSE)
       ELSE /\ win' = [win EXCEPT ![w].shown = FALSE]
            /\ UNCHANGED <<mWindowMap, modals, process, toAndroid, exitVars, hintClosed>>
    /\ UNCHANGED othersVars

\* Quit, in the window's menu or in the menu of its tray icon, which no dialog
\* of the window process blocks.
UserQuit(w) ==
    /\ process = "alive" /\ win[w].open
    /\ win[w].pkg \in TrayPkgs \/ (win[w].shown /\ Reachable(w))
    /\ CloseWindow(w, modals, FALSE)
    /\ UNCHANGED othersVars

TrayOpen(w) ==
    /\ process = "alive" /\ win[w].open /\ win[w].pkg \in TrayPkgs
    /\ win' = [win EXCEPT ![w] = ShowMainWindow(@)]
    /\ UNCHANGED <<mWindowMap, modals, process, toAndroid, exitVars, hintClosed, othersVars>>

\* onCloseEnvEvent, its question answered with yes.
ConfirmCloseEnv(w) ==
    /\ process = "alive" /\ win[w].open /\ win[w].shown /\ Reachable(w)
    /\ container' = IF container = "up" THEN "stopping" ELSE container
    /\ WaitForExit
    /\ UNCHANGED <<guiVars, process, toAndroid, othersVars>>

OnKmreDockerEnvStopped ==
    /\ process = "alive" /\ container = "signalled"
    /\ container' = "stopped"
    /\ mExitTimer' = IF mExitTimer = "running" THEN "stopped" ELSE mExitTimer
    /\ QuitSafely

ExitTimeout ==
    /\ process = "alive" /\ mExitTimer = "running"
    /\ mExitTimer' = "stopped"
    /\ QuitSafely
    /\ UNCHANGED container

-----------------------------------------------------------------------------
(* startapp                                                                *)

NoStarter == [pc |-> "idle", pkg |-> Unused.pkg]

StarterAt(s, pc) == startapp' = [startapp EXCEPT ![s].pc = pc]

StarterEnds(s) == startapp' = [startapp EXCEPT ![s] = NoStarter]

At(s, pc) == startapp[s].pc = pc

\* The user starts p; the bound is on the close requests of earlier windows.
StartApp(s, p) ==
    /\ process = "alive" /\ At(s, "idle") /\ Len(toAndroid) <= MaxRequests
    /\ startapp' = [startapp EXCEPT ![s] = [pc |-> "spawned", pkg |-> p]]
    /\ UNCHANGED <<guiVars, exitVars, process, toAndroid, fromAndroid, androidVars>>

\* The list is read before the lock file is taken.
GetRunningAppList(s) ==
    /\ process = "alive" /\ At(s, "spawned")
    /\ StarterAt(s, IF mWindowMap[startapp[s].pkg] # NoWindow THEN "seen" ELSE "unseen")
    /\ UNCHANGED <<guiVars, exitVars, process, toAndroid, fromAndroid, androidVars>>

CallActiveApp(s) ==
    /\ process = "alive" /\ At(s, "seen")
    /\ ActiveApp(startapp[s].pkg)
    /\ StarterEnds(s)
    /\ UNCHANGED <<fromAndroid, androidVars>>

\* The lock file is held until the process ends; waiting for it ends after 30 s.
Locked(s) == startapp[s].pc \in {"locked", "shown"}

TryLock(s) ==
    /\ process = "alive" /\ At(s, "unseen")
    /\ IF \E t \in Starters : Locked(t) THEN StarterEnds(s) ELSE StarterAt(s, "locked")
    /\ UNCHANGED <<guiVars, exitVars, process, toAndroid, fromAndroid, androidVars>>

CallLaunchApp(s) ==
    /\ process = "alive" /\ At(s, "locked")
    /\ LaunchApp(startapp[s].pkg)
    /\ StarterAt(s, "shown")
    /\ UNCHANGED <<fromAndroid, androidVars>>

-----------------------------------------------------------------------------
(* Android and the container                                               *)

AndroidUp == container \in {"up", "stopping"}

Send(kind, p, id) ==
    /\ Len(fromAndroid) < MaxMessages
    /\ \E named \in BOOLEAN :
          /\ kind # "launched" => named
          /\ fromAndroid' = Append(fromAndroid, [kind |-> kind, pkg |-> p, id |-> id,
                                                named |-> named])

\* The app is there or gets a new display; either way a LaunchResult is sent.
AndroidLaunch(p) ==
    /\ AndroidUp /\ Len(toAndroid) <= MaxRequests
    /\ \/ /\ android[p] # NoId
          /\ Send("launched", p, android[p])
          /\ UNCHANGED <<android, lastId>>
       \/ /\ android[p] = NoId /\ lastId < MaxId
          /\ Send("launched", p, lastId + 1)
          /\ lastId' = lastId + 1
          /\ android' = [android EXCEPT ![p] = lastId + 1]

\* launch_app of libkmre; a failure is answered with nothing the window sees.
RequestLaunch(s) ==
    /\ At(s, "shown")
    /\ \/ AndroidLaunch(startapp[s].pkg)
       \/ UNCHANGED <<fromAndroid, android, lastId>>
    /\ StarterEnds(s)
    /\ UNCHANGED <<guiVars, exitVars, process, toAndroid, lost>>

\* Started by another app, or by itself.
AndroidStarts(p) ==
    /\ process = "alive"
    /\ AndroidLaunch(p)
    /\ UNCHANGED <<guiVars, exitVars, process, startapp, toAndroid, lost>>

AppStops(p, kind) ==
    /\ Send(kind, p, android[p])
    /\ android' = [android EXCEPT ![p] = NoId]

\* The BackendWorker passes the oldest request on and Android carries it out.
AndroidCloses ==
    /\ toAndroid # << >>
    /\ toAndroid' = Tail(toAndroid)
    /\ IF AndroidUp /\ android[Head(toAndroid)] # NoId
       THEN AppStops(Head(toAndroid), "closed")
       ELSE UNCHANGED <<fromAndroid, android>>
    /\ UNCHANGED <<guiVars, exitVars, process, startapp, lastId, lost>>

AppCrashes(p) ==
    /\ process = "alive" /\ AndroidUp /\ android[p] # NoId
    /\ AppStops(p, "crashed")
    /\ UNCHANGED <<guiVars, exitVars, process, startapp, toAndroid, lastId, lost>>

Uninstall(p) ==
    /\ process = "alive" /\ AndroidUp
    /\ AppStops(p, "uninstalled")
    /\ UNCHANGED <<guiVars, exitVars, process, startapp, toAndroid, lastId, lost>>

\* By StopContainer or by another program; its signal may not arrive.
ContainerStops ==
    /\ AndroidUp
    /\ container' \in {"signalled", "stopped"}
    /\ android' = [p \in Pkgs |-> NoId]
    /\ UNCHANGED <<guiVars, process, mExitTimer, startapp, toAndroid, fromAndroid,
                   lastId, lost>>

\* Two messages that one read returns are parsed as one, which loses the other.
LoseMessage(i) ==
    /\ Deliverable(i) /\ lost < MaxLost
    /\ fromAndroid' = RemoveAt(fromAndroid, i)
    /\ lost' = lost + 1
    /\ UNCHANGED <<guiVars, exitVars, process, startapp, toAndroid, android, lastId>>

-----------------------------------------------------------------------------
Init == /\ mWindowMap = [p \in Pkgs |-> NoWindow]
        /\ win = [w \in Windows |-> Unused]
        /\ modals = {}
        /\ process = "alive"
        /\ mExitTimer = "none"
        /\ container = "up"
        /\ startapp = [s \in Starters |-> NoStarter]
        /\ toAndroid = << >>
        /\ fromAndroid = << >>
        /\ android = [p \in Pkgs |-> NoId]
        /\ lastId = 0
        /\ lost = 0
        /\ hintClosed = {}

UserStep(w) == UserClose(w) \/ UserQuit(w) \/ TrayOpen(w) \/ ConfirmCloseEnv(w)

StarterStep(s) == \/ GetRunningAppList(s) \/ CallActiveApp(s) \/ TryLock(s)
                  \/ CallLaunchApp(s) \/ RequestLaunch(s)

AndroidStep(p) == AndroidStarts(p) \/ AppCrashes(p) \/ Uninstall(p)

Next == \/ \E i \in DOMAIN fromAndroid : OnMessage(i) \/ LoseMessage(i)
        \/ \E d \in modals : \/ DismissTimeout(d)
                             \/ \E restart \in BOOLEAN : AnswerHint(d, restart)
        \/ \E w \in Windows : BootTimeout(w) \/ UserStep(w)
        \/ \E s \in Starters : \/ StarterStep(s)
                               \/ \E p \in Pkgs : StartApp(s, p)
        \/ \E p \in Pkgs : AndroidStep(p)
        \/ OnKmreDockerEnvStopped \/ ExitTimeout
        \/ AndroidCloses \/ ContainerStops

\* The event loop of the GUI thread, nested or not, delivers what is queued and
\* fires its timers.  Nothing is assumed of the user, of startapp or of Android.
Fairness == /\ WF_vars(\E i \in DOMAIN fromAndroid : OnMessage(i))
            /\ \A w \in Windows : WF_vars(BootTimeout(w))
            /\ WF_vars(ExitTimeout)
            /\ WF_vars(OnKmreDockerEnvStopped)

Spec == Init /\ [][Next]_vars /\ Fairness

-----------------------------------------------------------------------------
(* Properties                                                              *)

TypeOK == /\ mWindowMap \in [Pkgs -> Windows \cup {NoWindow}]
          /\ win \in [Windows -> Window]
          /\ modals \subseteq Modal /\ IsFiniteSet(modals)
          /\ process \in {"alive", "exited"}
          /\ mExitTimer \in {"none", "running", "stopped"}
          /\ container \in {"up", "stopping", "signalled", "stopped"}
          /\ startapp \in [Starters -> Starter]
          /\ toAndroid \in Seq(Pkgs)
          /\ fromAndroid \in Seq(Message)
          /\ android \in [Pkgs -> {NoId} \cup 1 .. MaxId]
          /\ lastId \in 0 .. MaxId
          /\ lost \in 0 .. MaxLost
          /\ hintClosed \subseteq Pkgs

\* mWindowMap, which is keyed by package and which windows leave by package,
\* holds exactly the windows that exist: none is lost track of and no entry
\* points to a deleted window (the getters of the map call into the entry).
MapMatchesWindows ==
    /\ \A p \in Pkgs : mWindowMap[p] # NoWindow =>
          win[mWindowMap[p]].open /\ win[mWindowMap[p]].pkg = p
    /\ \A w \in Windows : win[w].open => mWindowMap[win[w].pkg] = w

\* An app that runs in Android has a window, is about to get one or is about
\* to be closed, unless its last window was closed by the answer to a crash
\* hint, which sends no closeApp (kmrewindow.cpp:826): then it was restarted.
\* As long as no message is lost; a lost LaunchResult leaves no trace.
Announced(p) == \E i \in DOMAIN fromAndroid :
                    fromAndroid[i].kind = "launched" /\ fromAndroid[i].pkg = p

Orphan(p) == process = "alive" /\ android[p] # NoId /\ mWindowMap[p] = NoWindow

Explained(p) == Announced(p) \/ p \in ToSet(toAndroid) \/ p \in hintClosed

OrphanOnlyAfterHint == lost = 0 => \A p \in Pkgs : Orphan(p) => Explained(p)

\* A window does not stay without a display: it gets one, it is closed, or the
\* boot timeout tells the user (kmrewindow.cpp:197), LaunchResult lost or not;
\* unless the display came without a name (BootIsTimed).
NoWindowWaitsForever ==
    \A w \in Windows :
        (win[w].open /\ win[w].mId = NoId) ~>
            \/ ~win[w].open \/ process = "exited"
            \/ win[w].mId # NoId \/ win[w].refused
            \/ HasDialog(modals, "timeout", w)

\* A window whose app has gone, or is back on another display, does not stay
\* there without a word: it is closed or the crash hint is on screen, unless a
\* message was lost.
CrashIsNoticed ==
    \A w \in Windows : \A id \in 1 .. MaxId :
        (AndroidUp /\ win[w].open /\ win[w].mId = id /\ android[win[w].pkg] # id) ~>
            \/ ~(AndroidUp /\ win[w].open /\ win[w].mId = id)
            \/ process = "exited"
            \/ HasDialog(modals, "hint", w) \/ lost > 0

\* kmrewindow.cpp:204: a window whose app does not boot says "App boot time out!
\* Please restart app."; until it has its display its timer runs or has fired.
BootIsTimed ==
    \A w \in Windows :
        win[w].open /\ win[w].mId = NoId =>
            win[w].boot = "running" \/ HasDialog(modals, "timeout", w)

\* Once the user has closed the environment the process ends, also when the
\* signal of the container is lost (kmrewindow.cpp:594).
EnvCloseEnds == (container = "stopping") ~> (process = "exited")

\* windowmanager.cpp:271: a CloseResult that finds a window of its app in the
\* map means "app crashed in android!".
HintOnlyAfterCrash ==
    [][\A i \in DOMAIN fromAndroid :
          (OnMessage(i) /\ modals' # modals /\ fromAndroid[i].kind # "uninstalled")
              => fromAndroid[i].kind = "crashed"]_vars
=============================================================================
