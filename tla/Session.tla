------------------------------- MODULE Session -------------------------------
(***************************************************************************)
(* The life of a session window: GuiTerminalWindow from initTerminal to    *)
(* its deferred deletion, the seat callbacks of QtDlg.cpp that a backend   *)
(* calls when a connection ends or a host key is unknown, the commands of  *)
(* the context menu, and the settings windows of GuiMainWindow.            *)
(*                                                                         *)
(* A message box, a question and a context menu run an event loop of their *)
(* own inside the handler that opened them.  `stack' holds the handlers    *)
(* that have not returned: at = "run" is the one executing, every other is *)
(* suspended in the loop of its box.  While one waits, connections end,    *)
(* keys are asked for and deferred deletions happen; what the user does is *)
(* limited to the topmost box, since boxes are modal.  deleteLater is      *)
(* carried out by the loop in which it was called or by one below it.      *)
(*                                                                         *)
(* Left to PaneTree: splitters and tabs.  Left to TopLevelCallbacks: in    *)
(* which order backends get their callbacks; here any may come in any loop.*)
(***************************************************************************)
EXTENDS Integers, Sequences, FiniteSets

CONSTANTS Terms,      \* GuiTerminalWindow objects
          NULL,
          MaxStack    \* bound: handlers that have not returned

ASSUME SessionAssumption == NULL \notin Terms /\ MaxStack \in Nat \ {0}

VARIABLES
  win,                    \* the terminal windows, see NewWindow
  stack,                  \* the handlers that have not returned, the outermost first
  shown,                  \* the settings window on the screen, and its termWnd
  settingsWindow,         \* GuiMainWindow::settingsWindow: which window it points to
  compactSettingsWindow,  \* GuiMainWindow::compactSettingsWindow # NULL
  mainOpen,               \* the main window has not been closed
  fault                   \* what went wrong, and for which window

vars == <<win, stack, shown, settingsWindow, compactSettingsWindow, mainOpen, fault>>
settingsVars == <<shown, settingsWindow, compactSettingsWindow>>

Policies == {"never", "auto", "always"}    \* CONF_close_on_exit: FORCE_OFF, AUTO, FORCE_ON
Boxes == {"fatal", "exit", "hostkey", "ask", "askall", "noconn", "menu"}
Calls == {"fatal", "exit", "exitmax", "compactclose", "settingsclose", "restart"}

\* life: "new" before it is in terminalList, "open" while it is, "closed" once
\* deleteLater was called, in the loop `level'.  term: it has a terminal, a backend
\* and a line discipline.  reports: boxes that told of the end of this connection.
NewWindow(p) == [life |-> "new", term |-> FALSE, conn |-> "none", closeOnExit |-> p,
                 userClosingTab |-> FALSE, isSockDisconnected |-> FALSE,
                 level |-> 0, reports |-> 0]
Unborn == [NewWindow("never") EXCEPT !.life = "unborn"]
NoFault == [what |-> "none", t |-> NULL]
NoSettings == [what |-> "none", t |-> NULL]

Init ==
  /\ win = [t \in Terms |-> Unborn] /\ stack = <<>>
  /\ shown = NoSettings /\ settingsWindow = "null" /\ compactSettingsWindow = FALSE
  /\ mainOpen = TRUE /\ fault = NoFault

-----------------------------------------------------------------------------
(* Event loops and handlers.                                               *)

Frame(at, t, then) == [at |-> at, t |-> t, then |-> then]
Top == IF stack = <<>> THEN Frame("none", NULL, <<>>) ELSE stack[Len(stack)]
Below == SubSeq(stack, 1, Len(stack) - 1)
Depth(s) == Cardinality({i \in DOMAIN s : s[i].at \in Boxes})

\* An event loop is running: the main one, or that of the topmost box.
Looping == fault = NoFault /\ (stack = <<>> \/ Top.at \in Boxes)
Nested == Len(stack) < MaxStack
Waits(at) == fault = NoFault /\ stack # <<>> /\ Top.at = at

\* The user can reach the main window, directly or with the menu of a window.  A
\* command of the menu runs after its loop was told to end (at = "menudone").
AtMainWindow == Looping /\ stack = <<>> /\ mainOpen /\ shown = NoSettings
InMenu(t) == Waits("menu") /\ mainOpen /\ shown = NoSettings /\ Top.t = t
Command(t) == AtMainWindow \/ InMenu(t)
After(t) == IF stack = <<>> THEN <<>> ELSE Append(Below, Frame("menudone", t, <<>>))

terminalList == {t \in Terms : win[t].life = "open"}
Alive(t) == win[t].life # "freed"

\* GuiTerminalWindow::closeTerminal, called by a handler above the loops of s.
Close(w, s) == [w EXCEPT !.life = "closed",
                         !.level = IF w.life = "closed" /\ w.level > Depth(s) THEN w.level
                                   ELSE Depth(s)]

\* Mutant: only in the very loop, so not when its box is answered first.
DeferredDeleteOwnLoop(t) ==
  /\ Looping /\ win[t].life = "closed" /\ Depth(stack) = win[t].level
  /\ win' = [win EXCEPT ![t].life = "freed", ![t].term = FALSE, ![t].conn = "none"]
  /\ UNCHANGED <<stack, settingsVars, mainOpen, fault>>

\* The destructor runs in the loop deleteLater was called in, or below it.
DeferredDelete(t) ==
  /\ Looping /\ win[t].life = "closed" /\ Depth(stack) <= win[t].level
  /\ win' = [win EXCEPT ![t].life = "freed", ![t].term = FALSE, ![t].conn = "none"]
  /\ UNCHANGED <<stack, settingsVars, mainOpen, fault>>

\* A handler goes on after its box and uses a window that is gone.
Fail(what, t) ==
  /\ fault' = [what |-> what, t |-> t]
  /\ UNCHANGED <<win, stack, settingsVars, mainOpen>>

-----------------------------------------------------------------------------
(* Opening and restarting: initTerminal.  backend_init fails when the host *)
(* is not found; then a box tells so and the window has no terminal.       *)

Connected(w) == [w EXCEPT !.term = TRUE, !.conn = "kex", !.reports = 0]

\* on_createNewSession and createNewTab for a new window, called above the handlers s,
\* and what its caller does after it.
CreateNewTab(s, policies, then) ==
  \E t \in Terms, p \in policies :
    /\ Len(s) < MaxStack /\ win[t].life = "unborn"
    /\ \/ /\ win' = [win EXCEPT ![t] = [Connected(NewWindow(p)) EXCEPT !.life = "open"]]
          /\ stack' = Append(s, Frame("run", t, then))
       \/ /\ win' = [win EXCEPT ![t] = NewWindow(p)]
          /\ stack' = Append(s, Frame("noconn", t, then))
    /\ UNCHANGED <<settingsVars, mainOpen, fault>>

\* The menu's Duplicate and Split commands: a second session with the same settings.
DuplicateSession(t) ==
  Command(t) /\ t \in terminalList /\ CreateNewTab(After(t), {win[t].closeOnExit}, <<>>)

RestartSession(t) ==
  LET w == [win[t] EXCEPT !.term = FALSE, !.conn = "none", !.isSockDisconnected = FALSE] IN
  /\ AtMainWindow \/ (InMenu(t) /\ Top.then = <<"restart">>)
  /\ Nested /\ t \in terminalList
  /\ \/ win' = [win EXCEPT ![t] = Connected(w)] /\ stack' = After(t)
     \/ win' = [win EXCEPT ![t] = w] /\ stack' = Append(After(t), Frame("noconn", t, <<>>))
  /\ UNCHANGED <<settingsVars, mainOpen, fault>>

\* The box is answered: createNewTab deletes a window that never was in the list.
FailureSeen ==
  LET t == Top.t IN
  /\ Waits("noconn")
  /\ IF ~Alive(t) THEN Fail("noconn", t)
     ELSE /\ win' = [win EXCEPT ![t] = IF @.life = "new" THEN Unborn ELSE @]
          /\ stack' = Append(Below, Frame("run", t, Top.then))
          /\ UNCHANGED <<settingsVars, mainOpen, fault>>

\* paintEvent uses the terminal without asking for it.
PaintEvent(t) == Looping /\ t \in terminalList /\ ~win[t].term /\ Fail("noterm", t)

-----------------------------------------------------------------------------
(* The host key question, asked by the key exchange inside a callback.     *)

ConfirmHostKey(t) ==
  /\ Looping /\ Nested /\ win[t].conn = "kex"
  /\ \A i \in DOMAIN stack : ~(stack[i].at = "hostkey" /\ stack[i].t = t)
  /\ stack' = Append(stack, Frame("hostkey", t, <<>>))
  /\ UNCHANGED <<win, settingsVars, mainOpen, fault>>

\* A key that is in the cache.
KnownHostKey(t) ==
  /\ Looping /\ win[t].conn = "kex"
  /\ \A i \in DOMAIN stack : ~(stack[i].at = "hostkey" /\ stack[i].t = t)
  /\ win' = [win EXCEPT ![t].conn = "up"]
  /\ UNCHANGED <<stack, settingsVars, mainOpen, fault>>

\* Yes and No carry on, Cancel ends the connection (ssh_user_close).  If the
\* connection was lost meanwhile, ssh_shutdown has freed the layer that asked.
HostKeyAnswered ==
  LET t == Top.t IN
  /\ Waits("hostkey")
  /\ IF win[t].conn # "kex" THEN Fail("hostkey", t)
     ELSE \/ /\ win' = [win EXCEPT ![t].conn = "up"] /\ stack' = Below
             /\ UNCHANGED <<settingsVars, mainOpen, fault>>
          \/ /\ win' = [win EXCEPT ![t].conn = "down"]
             /\ stack' = Append(Below, Frame("run", t, <<"exit">>))
             /\ UNCHANGED <<settingsVars, mainOpen, fault>>

-----------------------------------------------------------------------------
(* The end of a connection.  What the backend tells the seat, in order:    *)
(* ssh_remote_error and ssh_proto_error; ssh_remote_eof, ssh_user_close    *)
(* and a telnet connection that is closed; ssh_sw_abort; telnet_closing    *)
(* with an error, whose exit code is INT_MAX.                              *)

Notifications == {<<"fatal">>, <<"exit">>, <<"fatal", "exit">>, <<"exitmax", "fatal">>}

ConnectionEnds(t) ==
  /\ Looping /\ Nested /\ win[t].conn \in {"kex", "up"}
  /\ \E calls \in Notifications :
       stack' = Append(stack, Frame("run", t, calls))
  /\ win' = [win EXCEPT ![t].conn = "down"]
  /\ UNCHANGED <<settingsVars, mainOpen, fault>>

\* Mutant: the user's closing is not asked for.
IgnoredIfDown(t) == win[t].isSockDisconnected
Ignored(t) == win[t].userClosingTab \/ win[t].isSockDisconnected

\* Both callbacks: what is next, with the window and the handler left for it.
Proceed(t, w, at) ==
  /\ win' = [win EXCEPT ![t] = w]
  /\ stack' = Append(Below, Frame(at, t, Tail(Top.then)))
  /\ UNCHANGED <<settingsVars, mainOpen, fault>>

\* Mutant: the flag is not set before the box.
qt_connection_fatal_unmarked(t) ==
  \/ Ignored(t) /\ Proceed(t, win[t], "run")
  \/ ~Ignored(t) /\ Proceed(t, [win[t] EXCEPT !.reports = @ + 1], "fatal")

qt_connection_fatal(t) ==
  \/ Ignored(t) /\ Proceed(t, win[t], "run")
  \/ /\ ~Ignored(t)
     /\ Proceed(t, [win[t] EXCEPT !.isSockDisconnected = TRUE, !.reports = @ + 1], "fatal")

\* Mutant: FORCE_OFF closes too.
qt_notify_remote_exit_closes(t, exitcode) ==
  \/ Ignored(t) /\ Proceed(t, win[t], "run")
  \/ ~Ignored(t) /\ Proceed(t, Close(win[t], Below), "run")

qt_notify_remote_exit(t, exitcode) ==
  LET p == win[t].closeOnExit
      closes == p = "always" \/ (p = "auto" /\ exitcode # "exitmax") IN
  \/ Ignored(t) /\ Proceed(t, win[t], "run")
  \/ ~Ignored(t) /\ closes /\ Proceed(t, Close(win[t], Below), "run")
  \/ /\ ~Ignored(t) /\ ~closes /\ exitcode # "exitmax"
     /\ Proceed(t, [win[t] EXCEPT !.reports = @ + 1], "exit")
  \/ ~Ignored(t) /\ ~closes /\ exitcode = "exitmax" /\ Proceed(t, win[t], "run")

\* The user has read the box.
FatalSeen ==
  LET t == Top.t IN
  /\ Waits("fatal")
  /\ IF ~Alive(t) THEN Fail("fatal", t)
     ELSE /\ win' = [win EXCEPT ![t] = IF @.closeOnExit = "always" THEN Close(@, Below) ELSE @]
          /\ stack' = Append(Below, Frame("run", t, Top.then))
          /\ UNCHANGED <<settingsVars, mainOpen, fault>>

\* Mutant: the window is not marked after the box.
ExitSeenUnmarked ==
  /\ Waits("exit")
  /\ IF ~Alive(Top.t) THEN Fail("exit", Top.t)
     ELSE /\ stack' = Append(Below, Frame("run", Top.t, Top.then))
          /\ UNCHANGED <<win, settingsVars, mainOpen, fault>>

ExitSeen ==
  LET t == Top.t IN
  /\ Waits("exit")
  /\ IF ~Alive(t) THEN Fail("exit", t)
     ELSE /\ win' = [win EXCEPT ![t].isSockDisconnected = TRUE]
          /\ stack' = Append(Below, Frame("run", t, Top.then))
          /\ UNCHANGED <<settingsVars, mainOpen, fault>>

-----------------------------------------------------------------------------
(* Closing.                                                                *)

\* reqCloseTerminal(false), from the menu, the tool bar of the window or its tab.
ReqCloseTerminal(t) ==
  /\ Command(t) /\ Nested /\ t \in terminalList
  /\ \/ /\ ~win[t].isSockDisconnected      \* and CONF_warn_on_close
        /\ win' = [win EXCEPT ![t].userClosingTab = TRUE]
        /\ stack' = Append(After(t), Frame("ask", t, <<>>))
     \/ /\ win' = [win EXCEPT ![t] = Close([@ EXCEPT !.userClosingTab = TRUE], After(t))]
        /\ stack' = After(t)
  /\ UNCHANGED <<settingsVars, mainOpen, fault>>

CloseAnswered ==
  LET t == Top.t IN
  /\ Waits("ask")
  /\ IF ~Alive(t) THEN Fail("ask", t)
     ELSE /\ \/ win' = [win EXCEPT ![t] = Close(@, Below)]
             \/ UNCHANGED win
          /\ stack' = Below
          /\ UNCHANGED <<settingsVars, mainOpen, fault>>

\* closeEvent of the main window: the list is copied after the question.
CloseEvent ==
  /\ AtMainWindow
  /\ IF terminalList = {} THEN mainOpen' = FALSE /\ UNCHANGED stack
     ELSE stack' = <<Frame("askall", NULL, <<>>)>> /\ UNCHANGED mainOpen
  /\ UNCHANGED <<win, settingsVars, fault>>

CloseAllAnswered ==
  /\ Waits("askall")
  /\ \/ /\ win' = [t \in Terms |->
                     IF t \in terminalList
                     THEN Close([win[t] EXCEPT !.userClosingTab = TRUE], Below)
                     ELSE win[t]]
        /\ mainOpen' = FALSE
     \/ UNCHANGED <<win, mainOpen>>
  /\ stack' = Below
  /\ UNCHANGED <<settingsVars, fault>>

-----------------------------------------------------------------------------
(* The context menu of a window, whose commands are those above.           *)

\* Restart is in it only if the window is marked as disconnected when it opens.
ShowContextMenu(t) ==
  /\ AtMainWindow /\ t \in terminalList
  /\ stack' = <<Frame("menu", t, IF win[t].isSockDisconnected THEN <<"restart">> ELSE <<>>)>>
  /\ UNCHANGED <<win, settingsVars, mainOpen, fault>>

DismissMenu ==
  /\ Waits("menu")
  /\ stack' = Append(Below, Frame("menudone", Top.t, <<>>))
  /\ UNCHANGED <<win, settingsVars, mainOpen, fault>>

\* The rest of showContextMenu, a member function of the window.
MenuReturns ==
  /\ Waits("menudone")
  /\ IF ~Alive(Top.t) THEN Fail("menu", Top.t)
     ELSE stack' = Below /\ UNCHANGED <<win, settingsVars, mainOpen, fault>>

-----------------------------------------------------------------------------
(* The settings windows.  QDialog::close rejects a dialog that is visible, *)
(* so that every way to close one also emits what its rejected() emits.    *)

\* The settings window is in the foreground, no box above it.
AtSettings(what) == Looping /\ stack = <<>> /\ shown.what = what

\* Mutant: each window resets its own pointer only.
on_settingsWindowClose_compact ==
  /\ compactSettingsWindow' = FALSE
  /\ settingsWindow' = IF shown'.what = "new" THEN "new" ELSE "null"

on_settingsWindowClose ==
  /\ settingsWindow' = "null" /\ compactSettingsWindow' = FALSE

OpenNewCompactSession(t) ==
  /\ Command(t) /\ ~compactSettingsWindow
  /\ shown' = [what |-> "compact", t |-> NULL] /\ compactSettingsWindow' = TRUE
  /\ stack' = After(t)
  /\ UNCHANGED <<win, settingsWindow, mainOpen, fault>>

\* The end of the compact window: signal_on_close.
CompactClose ==
  shown' = NoSettings /\ on_settingsWindowClose

CompactOpen == AtSettings("compact") /\ CreateNewTab(stack, Policies, <<"compactclose">>)

CompactCancel ==
  /\ AtSettings("compact") /\ CompactClose /\ UNCHANGED <<win, stack, mainOpen, fault>>

\* signal_on_detail opens the full window; then the compact one is closed, and both
\* pointers are reset.
CompactDetails ==
  /\ AtSettings("compact") /\ settingsWindow = "null"
  /\ shown' = [what |-> "new", t |-> NULL] /\ on_settingsWindowClose
  /\ UNCHANGED <<win, stack, mainOpen, fault>>

\* For a new session signal_session_close is connected to nothing.
SettingsOpen == AtSettings("new") /\ CreateNewTab(stack, Policies, <<"settingsclose">>)

SettingsCancel ==
  /\ AtSettings("new") /\ shown' = NoSettings
  /\ UNCHANGED <<win, stack, settingsWindow, compactSettingsWindow, mainOpen, fault>>

ChangeSettings(t) ==
  /\ Command(t) /\ t \in terminalList /\ settingsWindow = "null"
  /\ shown' = [what |-> "change", t |-> t] /\ settingsWindow' = "change"
  /\ stack' = After(t)
  /\ UNCHANGED <<win, compactSettingsWindow, mainOpen, fault>>

\* on_changeSettingsTabComplete asserts that the window is still in the list, and
\* reconfigureTerminal uses its terminal.
ChangeAccepted ==
  LET t == shown.t IN
  /\ AtSettings("change")
  /\ IF t \notin terminalList THEN Fail("settings", t)
     ELSE IF ~win[t].term THEN Fail("noterm", t)
     ELSE /\ \E p \in Policies : win' = [win EXCEPT ![t].closeOnExit = p]
          /\ shown' = NoSettings /\ on_settingsWindowClose
          /\ UNCHANGED <<stack, mainOpen, fault>>

ChangeRejected ==
  /\ AtSettings("change") /\ shown' = NoSettings /\ on_settingsWindowClose
  /\ UNCHANGED <<win, stack, mainOpen, fault>>

-----------------------------------------------------------------------------
\* The handler that is executing makes its next call, or returns.
Run ==
  LET t == Top.t IN
  /\ Waits("run")
  /\ \/ /\ Top.then = <<>> /\ stack' = Below
        /\ UNCHANGED <<win, settingsVars, mainOpen, fault>>
     \/ /\ Top.then # <<>>
        /\ CASE Head(Top.then) = "fatal" -> qt_connection_fatal(t)
             [] Head(Top.then) \in {"exit", "exitmax"} ->
                  qt_notify_remote_exit(t, Head(Top.then))
             [] Head(Top.then) = "compactclose" ->
                  CompactClose /\ stack' = Below /\ UNCHANGED <<win, mainOpen, fault>>
             [] Head(Top.then) = "settingsclose" ->
                  /\ shown' = NoSettings /\ stack' = Below
                  /\ UNCHANGED <<win, settingsWindow, compactSettingsWindow, mainOpen, fault>>

Returns == Run \/ MenuReturns
UserAnswers == FailureSeen \/ HostKeyAnswered \/ FatalSeen \/ ExitSeen \/ CloseAnswered
               \/ CloseAllAnswered \/ DismissMenu
UserSettings == CompactOpen \/ CompactCancel \/ CompactDetails \/ SettingsOpen
                \/ SettingsCancel \/ ChangeAccepted \/ ChangeRejected

Next ==
  \/ Returns \/ UserAnswers \/ UserSettings \/ CloseEvent
  \/ \E t \in Terms :
       \/ DeferredDelete(t) \/ PaintEvent(t) \/ ConnectionEnds(t)
       \/ ConfirmHostKey(t) \/ KnownHostKey(t)
       \/ DuplicateSession(t) \/ RestartSession(t) \/ ReqCloseTerminal(t) \/ ShowContextMenu(t)
       \/ OpenNewCompactSession(t) \/ ChangeSettings(t)

\* Handlers go on and the user does not leave a box that blocks the program unanswered
\* for ever.  A loop carries out the deletions posted to it in each of its rounds, so a
\* deletion is not put off by boxes that come and go: strong fairness.
Fairness == /\ WF_vars(Returns) /\ WF_vars(UserAnswers)
            /\ \A t \in Terms : SF_vars(DeferredDelete(t))

Spec == Init /\ [][Next]_vars /\ Fairness

-----------------------------------------------------------------------------
Windows == [life : {"unborn", "new", "open", "closed", "freed"},
            term : BOOLEAN, conn : {"none", "kex", "up", "down"},
            closeOnExit : Policies, userClosingTab : BOOLEAN,
            isSockDisconnected : BOOLEAN, level : 0..MaxStack, reports : Nat]
Handlers == [at : Boxes \cup {"run", "menudone"}, t : Terms \cup {NULL},
             then : {<<>>} \cup Notifications \cup {<<c>> : c \in Calls}]

TypeOK ==
  /\ win \in [Terms -> Windows]
  /\ stack \in Seq(Handlers) /\ Len(stack) <= MaxStack /\ mainOpen \in BOOLEAN
  /\ shown \in [what : {"none", "compact", "new", "change"}, t : Terms \cup {NULL}]
  /\ settingsWindow \in {"null", "new", "change"} /\ compactSettingsWindow \in BOOLEAN

\* A window that a handler has suspended with a box of its own is not deleted before
\* the handler goes on: while the user is asked whether to close it, and while a box
\* tells of its end or of a failed restart, no event closes it (QtDlg.cpp:200, 407).
HandlersKeepTheirWindow ==
  TypeOK /\ fault.what \notin {"ask", "fatal", "exit", "noconn"}

\* If sessions never close themselves, a menu and a settings window find the window
\* they were opened for.
NeverClosingIsSafe ==
  fault.what \in {"menu", "settings"} => win[fault.t].closeOnExit # "never"

\* The end of a connection is told in at most one box, though backends make up to two
\* calls for it and the flag is set before the one box and after the other.
LossToldOnce == \A t \in Terms : win[t].reports <= 1

\* A window whose connection has ended is marked so, which is what its menu offers a
\* restart by, unless the user once asked to close it and then said No.
LossIsMarked ==
  \A t \in terminalList :
    /\ win[t].conn = "down" /\ fault = NoFault
    /\ \A i \in DOMAIN stack : stack[i].t # t \/ stack[i].at = "menu"
    => win[t].isSockDisconnected \/ win[t].userClosingTab

\* The main window's pointers to settings windows never outlive these: a stale one
\* would refuse every later settings window.
SettingsPointersLive ==
  fault = NoFault =>
    /\ settingsWindow # "null" => shown.what = settingsWindow
    /\ compactSettingsWindow => shown.what = "compact"

-----------------------------------------------------------------------------
(* What makes these inductive, of the windows w and the handlers s.        *)

LoopsUpTo(s, i) == Cardinality({j \in 1..i : s[j].at \in Boxes})
Telling(f) == f.at = "run" /\ f.then \in Notifications
Chain(f) == Telling(f) \/ f.at \in {"fatal", "exit"}
Down(v) == v.userClosingTab \/ v.isSockDisconnected
ClosedItself(v) == v.life \in {"closed", "freed"} /\ v.closeOnExit # "never"

\* A connection that is up has been told of to nobody, and only the user has closed its
\* window.  The end of one has been told once at most, and its window is marked or will
\* be by the handler that tells of it.
WindowOK(w, s, t) ==
  /\ w[t].conn \in {"kex", "up"} =>
       /\ w[t].reports = 0 /\ w[t].life \in {"open", "closed"}
       /\ w[t].life = "closed" => w[t].userClosingTab
  /\ w[t].reports <= 1
  /\ w[t].life = "open" /\ w[t].conn = "down" =>
       Down(w[t]) \/ \E i \in DOMAIN s : s[i].t = t /\ (Telling(s[i]) \/ s[i].at = "exit")

\* A box that tells of an end keeps its window: closed below its own loop at most, the
\* window is not deleted in it.  Menus and questions are at the bottom of the stack.
FrameOK(w, s, i) ==
  LET f == s[i]
      v == w[f.t]
  IN
  /\ f.at = "run" => /\ i = Len(s)
                     /\ f.then \in {<<>>, <<"compactclose">>, <<"settingsclose">>} \cup Notifications
  /\ f.at # "askall" => f.t \in Terms
  /\ Chain(f) => v.conn = "down" /\ v.life \in {"open", "closed"}
  /\ Telling(f) => /\ v.reports = 0 \/ v.isSockDisconnected
                   /\ v.life = "closed" => Down(v) \/ v.level <= LoopsUpTo(s, i)
  /\ f.at = "fatal" => v.isSockDisconnected /\ f.then \in {<<>>} \cup Notifications
  /\ f.at = "exit" => f.then = <<>>
  /\ f.at \in {"fatal", "exit"} /\ v.life = "closed" => v.level < LoopsUpTo(s, i)
  /\ f.at = "noconn" => /\ v.conn = "none" /\ v.life \in {"new", "open"}
                        /\ f.then \in {<<>>, <<"compactclose">>, <<"settingsclose">>}
  /\ f.at = "ask" => /\ v.userClosingTab /\ v.life = "open" /\ f.then = <<>>
                     /\ i = 1 \/ (i = 2 /\ s[1].at = "menudone")
  /\ f.at = "hostkey" => f.then = <<>>
  /\ f.at \in {"menu", "menudone", "askall"} => i = 1
  /\ f.at \in {"menudone", "askall"} => f.then = <<>>
  /\ f.at = "menu" => /\ f.then \in {<<>>, <<"restart">>}
                      /\ v.life = "open" \/ ClosedItself(v)
  /\ f.at = "menudone" => \/ v.life = "open" \/ ClosedItself(v)
                          \/ v.life = "closed" /\ i = Len(s)

\* Of a window one handler at a time tells, none with a box while it is asked about, and
\* one box at a time says that it could not connect.
PairsOK(s) ==
  \A i, j \in DOMAIN s : i # j /\ s[i].t = s[j].t =>
    /\ ~(Chain(s[i]) /\ Chain(s[j])) /\ ~(s[i].at = "ask" /\ s[j].at = "fatal")
    /\ ~(s[i].at = "noconn" /\ s[j].at = "noconn")

SettingsOK ==
  /\ settingsWindow # "new" /\ SettingsPointersLive
  /\ shown.what = "none" => shown = NoSettings
  /\ shown.what = "change" =>
       /\ shown.t \in Terms
       /\ win[shown.t].life = "open" \/ ClosedItself(win[shown.t])
  /\ \A i \in DOMAIN stack :
       /\ stack[i].at \in {"ask", "askall"} => shown = NoSettings
       /\ stack[i].then = <<"compactclose">> => i = 1 /\ shown.what = "compact"
       /\ stack[i].then = <<"settingsclose">> => i = 1 /\ shown.what = "new"

SessionInv ==
  /\ HandlersKeepTheirWindow /\ NeverClosingIsSafe
  /\ LossToldOnce
  /\ fault = NoFault => /\ \A t \in Terms : WindowOK(win, stack, t)
                        /\ \A i \in DOMAIN stack : FrameOK(win, stack, i)
                        /\ PairsOK(stack) /\ SettingsOK

\* A window that was closed is deleted, or the program has failed.
ClosedIsDeleted == \A t \in Terms :
  (win[t].life = "closed") ~> (win[t].life = "freed" \/ fault # NoFault)
=============================================================================
