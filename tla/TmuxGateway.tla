----------------------------- MODULE TmuxGateway -----------------------------
(***************************************************************************)
(* The tmux control mode gateway of QuTTY (tmux/TmuxGateway.cpp,           *)
(* tmux/TmuxWindowPane.cpp, tmux/TmuxBackend.cpp and the tmux parts of     *)
(* GuiTerminalWindow.cpp) through one attach: from the DCS that enters     *)
(* control mode to the %exit that leaves it.                               *)
(*                                                                         *)
(* tmux numbers windows and panes independently; the gateway keeps one     *)
(* table, keyed by pane, and looks window ids up in it as well.  Ids are   *)
(* therefore shared by the two sorts here, as they are there.              *)
(*                                                                         *)
(* Lines are parsed one per step, as if each came in a read of its own.    *)
(* Where a read ends matters to the %exit line only, which says so.        *)
(***************************************************************************)
EXTENDS Naturals, Sequences, SequencesExt

CONSTANTS MaxId,     \* window and pane ids are 0..MaxId
          MaxSent,   \* bound: commands sent
          MaxNotes   \* bound: notifications written

ASSUME GatewayAssumption ==
  MaxId \in Nat /\ MaxSent \in Nat /\ MaxNotes \in Nat

Id == 0..MaxId
Gateway == 0                 \* the receiver that is the gateway itself
Callbacks == {"CB_NULL", "CB_LIST_WINDOWS", "CB_OPEN_LISTED_WINDOWS",
              "CB_DUMP_HISTORY", "CB_DUMP_HISTORY_ALT", "CB_DUMP_TERM_STATE"}
Events == {"output", "session-changed", "window-add", "window-close",
           "window-renamed", "layout-change", "exit"}

\* A second control mode DCS found the window ready for it, or failed the
\* assertion of initTmuxControllerMode; resp_hdlr_dump_history failed its own.
Stops == {"no", "entered-again", "assert-mode-none", "assert-clean-slate"}

VARIABLES
  mode,       \* _tmuxMode of the gateway's terminal window
  gw,         \* the gateway object: "live", "deleted", or "dangling" when it was
              \* deleted under a window that goes on using it
  gwWnd,      \* the gateway's own terminal window: hideTerminal takes its tab
              \* away ("hidden") unless it sits in a splitter ("split"); "closed"
  cmdq,       \* _commandQueue
  cur,        \* _currentCommand, with id 0 for receiver = NULL
  resp,       \* _currentCommandResponse
  callback,   \* history: the last callback and the answer it got
  objs,       \* the TmuxWindowPane objects made so far, with their windows
  mapPanes,   \* _mapPanes: pane id -> index in objs, 0 for none
  mapLayout,  \* _mapLayout: window id -> the panes of its children
  fault,      \* a window or gateway that no longer exists was used
  stop,       \* how the attach ended, if it did; see Stops
  sent, toSrv, stream, notes,  \* as in TmuxChannel
  wins,       \* server: window id -> its panes, in order
  alive,      \* server: the windows that exist
  outs        \* server: pane id -> pieces of output so far

gwVars == <<mode, gw, gwWnd, cmdq, cur, resp, callback, objs, mapPanes, mapLayout>>
histVars == <<fault, stop>>
srvVars == <<wins, alive, outs>>
vars == <<gwVars, histVars, sent, toSrv, stream, notes, srvVars>>

NoCmd == [id |-> 0, recv |-> Gateway, cb |-> "CB_NULL", arg |-> 0]
Cmd(r, c, a) == [id |-> 0, recv |-> r, cb |-> c, arg |-> a]
Payload(e, i, p, s) == [e |-> e, id |-> i, pos |-> p, panes |-> s]
NoPayload == Payload("none", 0, 0, <<>>)

PanesMade == UNION {Range(wins[w]) : w \in Id}
WindowsMade == {w \in Id : wins[w] # <<>>}
LivePanes == UNION {Range(wins[w]) : w \in alive}

\* The program ends with the first fault or failed assertion.
Running == ~fault /\ stop = "no"

-----------------------------------------------------------------------------
Init ==
  /\ mode = "GATEWAY" /\ gw = "live" /\ gwWnd \in {"hidden", "split"}
  /\ cmdq = <<>> /\ cur = NoCmd /\ resp = <<>>
  /\ callback = [cmd |-> 0, lines |-> <<>>, size |-> 0]
  /\ objs = <<>>
  /\ mapPanes = [p \in Id |-> 0]
  /\ mapLayout = [w \in Id |-> <<>>]
  /\ fault = FALSE /\ stop = "no"
  /\ sent = 0 /\ toSrv = <<>> /\ notes = 0
  /\ stream = << [t |-> "begin", n |-> 0, k |-> 0, d |-> NoPayload],
                 [t |-> "end", n |-> 0, k |-> 0, d |-> NoPayload] >>
  /\ wins = [w \in Id |-> IF w = 0 THEN <<0>> ELSE <<>>]
  /\ alive = {0}
  /\ outs = [p \in Id |-> 0]

-----------------------------------------------------------------------------
(* The tmux server (external): it answers the commands the gateway sends,  *)
(* in order, and reports what happens in the session.                      *)

WindowLine(w) == Payload("window", w, 0, wins[w])

\* The windows that exist, in the order of their ids.
Listed ==
  LET l[n \in 0..(MaxId + 1)] ==
        IF n = 0 THEN <<>>
        ELSE IF n - 1 \in alive THEN Append(l[n - 1], WindowLine(n - 1)) ELSE l[n - 1]
  IN l[MaxId + 1]

\* The lines of the answer to command c.
AnswerTo(c) ==
  CASE c.cb = "CB_LIST_WINDOWS" -> Listed
    [] c.cb = "CB_OPEN_LISTED_WINDOWS" /\ c.arg \in alive -> << WindowLine(c.arg) >>
    [] c.cb \in {"CB_DUMP_HISTORY", "CB_DUMP_HISTORY_ALT"} /\ c.arg \in LivePanes ->
         << Payload("history", c.arg, outs[c.arg], <<>>) >>
    [] c.cb = "CB_DUMP_TERM_STATE" /\ c.arg \in LivePanes ->
         << Payload("state", c.arg, 0, <<>>) >>
    [] OTHER -> <<>>

BlockOf(c) ==
  LET a == AnswerTo(c)
      m == Len(a) IN
  [i \in 1..(m + 2) |->
     [t |-> IF i = 1 THEN "begin" ELSE IF i = m + 2 THEN "end" ELSE "data",
      n |-> c.id,
      k |-> IF i = m + 2 THEN m ELSE i - 1,
      d |-> IF i \in 2..(m + 1) THEN a[i - 1] ELSE NoPayload]]

SrvAnswer ==
  /\ toSrv # <<>>
  /\ mode = "GATEWAY" /\ Running
  /\ toSrv' = Tail(toSrv)
  /\ stream' = stream \o BlockOf(Head(toSrv))
  /\ UNCHANGED <<gwVars, histVars, sent, notes, srvVars>>

Exited == \E i \in DOMAIN stream : stream[i].d.e = "exit"

Notify(d) ==
  /\ notes < MaxNotes
  /\ mode = "GATEWAY" /\ Running
  /\ ~Exited
  /\ notes' = notes + 1
  /\ stream' = Append(stream, [t |-> "note", n |-> sent - Len(toSrv), k |-> 0, d |-> d])
  /\ UNCHANGED <<gwVars, histVars, sent, toSrv>>

\* The client is attached to a session, at first or again.
SrvSession ==
  Notify(Payload("session-changed", 0, 0, <<>>)) /\ UNCHANGED srvVars

SrvNewWindow ==
  \E w, p \in Id :
    /\ \A v \in Id : wins[v] = <<>> <=> v >= w        \* the next window id
    /\ \A q \in Id : q \notin PanesMade <=> q >= p    \* the next pane id
    /\ wins' = [wins EXCEPT ![w] = <<p>>]
    /\ alive' = alive \cup {w}
    /\ Notify(Payload("window-add", w, 0, <<>>))
    /\ UNCHANGED outs

SrvSplitWindow ==
  \E w \in alive, p \in Id :
    /\ \A q \in Id : q \notin PanesMade <=> q >= p
    /\ wins' = [wins EXCEPT ![w] = Append(@, p)]
    /\ Notify(Payload("layout-change", w, 0, wins'[w]))
    /\ UNCHANGED <<alive, outs>>

SrvCloseWindow ==
  \E w \in alive :
    /\ alive' = alive \ {w}
    /\ Notify(Payload("window-close", w, 0, <<>>))
    /\ UNCHANGED <<wins, outs>>

SrvRenameWindow ==
  \E w \in alive : Notify(Payload("window-renamed", w, 0, <<>>)) /\ UNCHANGED srvVars

SrvOutput ==
  \E p \in LivePanes :
    /\ outs' = [outs EXCEPT ![p] = @ + 1]
    /\ Notify(Payload("output", p, outs'[p], <<>>))
    /\ UNCHANGED <<wins, alive>>

SrvExit ==
  Notify(Payload("exit", 0, 0, <<>>)) /\ UNCHANGED srvVars

-----------------------------------------------------------------------------
(* Commands and panes.                                                     *)

\* sendCommand for each of cs, in order.
SendCommands(cs) ==
  LET new == [i \in DOMAIN cs |-> [cs[i] EXCEPT !.id = sent + i]] IN
  /\ sent + Len(cs) =< MaxSent
  /\ sent' = sent + Len(cs)
  /\ cmdq' = cmdq \o new
  /\ toSrv' = toSrv \o new

\* openWindowsInitial
OpenWindowsInitial ==
  << Cmd(Gateway, "CB_NULL", 0), Cmd(Gateway, "CB_NULL", 0), Cmd(Gateway, "CB_LIST_WINDOWS", 0) >>

\* Mutant: the state of a new pane is not asked for.
CreateLeafNoState(a, p, split) ==
  IF a.map[p] = 0
  THEN LET i == Len(a.objs) + 1 IN
       [a EXCEPT
          !.objs = Append(@, [pane |-> p, ready |-> FALSE, shown |-> <<>>,
                              win |-> "open", tab |-> TRUE, split |-> split, dropped |-> FALSE]),
          !.cmds = @ \o << Cmd(i, "CB_DUMP_HISTORY", p), Cmd(i, "CB_DUMP_HISTORY_ALT", p) >>,
          !.map = [@ EXCEPT ![p] = i]]
  ELSE [a EXCEPT !.bad = @ \/ a.objs[a.map[p]].win # "open"]

\* createNewWindowPane for a leaf: an unknown pane gets an object, a window and
\* three requests for its contents; the window of a known one is resized.
CreateLeaf(a, p, split) ==
  IF a.map[p] = 0
  THEN LET i == Len(a.objs) + 1 IN
       [a EXCEPT
          !.objs = Append(@, [pane |-> p, ready |-> FALSE, shown |-> <<>>,
                              win |-> "open", tab |-> TRUE, split |-> split, dropped |-> FALSE]),
          !.cmds = @ \o << Cmd(i, "CB_DUMP_HISTORY", p), Cmd(i, "CB_DUMP_HISTORY_ALT", p),
                           Cmd(i, "CB_DUMP_TERM_STATE", p) >>,
          !.map = [@ EXCEPT ![p] = i]]
  ELSE [a EXCEPT !.bad = @ \/ a.objs[a.map[p]].win # "open"]

\* createNewWindow: initLayout adds the children it parses to those already
\* there, and every child is visited.
CreateWindow(a, l) ==
  IF Len(l.panes) = 1
  THEN CreateLeaf(a, l.panes[1], FALSE)
  ELSE LET lay == a.lay[l.id] \o l.panes
           after[n \in 0..Len(lay)] ==
             IF n = 0 THEN [a EXCEPT !.lay = [@ EXCEPT ![l.id] = lay]]
             ELSE CreateLeaf(after[n - 1], lay[n], TRUE)
       IN after[Len(lay)]

\* resp_hdlr_list_windows and resp_hdlr_open_listed_windows: one window per line.
CreateWindows(ls) ==
  LET after[n \in 0..Len(ls)] ==
        IF n = 0
        THEN [objs |-> objs, map |-> mapPanes, lay |-> mapLayout, cmds |-> <<>>, bad |-> FALSE]
        ELSE CreateWindow(after[n - 1], ls[n].d)
  IN after[Len(ls)]

Mapped(m) == {m[p] : p \in Id} \ {0}

\* Mutant: the table keeps the panes it closed.
CloseAllPanesKeepsMap(o, m) ==
  [objs |-> [i \in DOMAIN o |-> IF i \in Mapped(m) /\ o[i].win = "open"
                              THEN [o[i] EXCEPT !.win = "closed"] ELSE o[i]],
   map |-> m,
   bad |-> \E i \in Mapped(m) : o[i].win # "open"]

\* closeAllPanes on a table of objects o and a map m.
CloseAllPanes(o, m) ==
  [objs |-> [i \in DOMAIN o |-> IF i \in Mapped(m) /\ o[i].win = "open"
                              THEN [o[i] EXCEPT !.win = "closed"] ELSE o[i]],
   map |-> [p \in Id |-> 0],
   bad |-> \E i \in Mapped(m) : o[i].win # "open"]

\* detach() or initiateDetach(), then the destructor: closeAllPanes runs twice.
DeleteGateway(left) ==
  LET once == CloseAllPanes(objs, mapPanes)
      twice == CloseAllPanes(once.objs, once.map) IN
  /\ gw' = left
  /\ objs' = twice.objs
  /\ mapPanes' = twice.map
  /\ fault' = (once.bad \/ twice.bad)

-----------------------------------------------------------------------------
(* from_backend and parseCommand.                                          *)

TakeLine ==
  /\ Running
  /\ mode = "GATEWAY" /\ gw = "live" /\ gwWnd # "closed"
  /\ stream # <<>>
  /\ stream' = Tail(stream)
  /\ UNCHANGED <<notes, srvVars, gwWnd>>

TakeInMode == TakeLine /\ UNCHANGED <<mode, gw>>

\* %end of the command being answered, for the gateway itself.
ParseEndGateway ==
  /\ TakeInMode
  /\ Head(stream).t = "end" /\ cur.id # 0 /\ cur.recv = Gateway
  /\ callback' = [cmd |-> cur.id, lines |-> resp, size |-> Head(stream).k]
  /\ cur' = NoCmd /\ resp' = <<>>
  /\ LET a == IF cur.cb \in {"CB_LIST_WINDOWS", "CB_OPEN_LISTED_WINDOWS"}
              THEN CreateWindows(resp) ELSE CreateWindows(<<>>) IN
     /\ objs' = a.objs /\ mapPanes' = a.map /\ mapLayout' = a.lay
     /\ fault' = a.bad
     /\ SendCommands(a.cmds)
  /\ UNCHANGED stop

\* %end of a pane's request.  Its contents go to the pane's window, which the
\* user may have closed; the state makes the pane ready.
ParseEndPane ==
  /\ TakeInMode
  /\ Head(stream).t = "end" /\ cur.id # 0 /\ cur.recv # Gateway
  /\ callback' = [cmd |-> cur.id, lines |-> resp, size |-> Head(stream).k]
  /\ cur' = NoCmd /\ resp' = <<>>
  /\ LET o == objs[cur.recv]
         used == cur.cb # "CB_DUMP_TERM_STATE" \/ resp # <<>> IN
     /\ fault' = (used /\ o.win # "open")
     /\ stop' = IF cur.cb = "CB_DUMP_HISTORY" /\ o.shown # <<>> THEN "assert-clean-slate" ELSE stop
     /\ objs' = [objs EXCEPT ![cur.recv] =
                   CASE cur.cb = "CB_DUMP_HISTORY" ->
                          [o EXCEPT !.shown = @ \o [i \in DOMAIN resp |-> resp[i].d.pos]]
                     [] cur.cb = "CB_DUMP_TERM_STATE" /\ resp # <<>> -> [o EXCEPT !.ready = TRUE]
                     [] OTHER -> o]
  /\ UNCHANGED <<mapPanes, mapLayout, cmdq, sent, toSrv>>

ParseStrayEnd ==
  /\ TakeInMode
  /\ Head(stream).t = "end" /\ cur.id = 0
  /\ UNCHANGED <<cmdq, cur, resp, callback, objs, mapPanes, mapLayout, sent, toSrv, histVars>>

ParseResponseLine ==
  /\ TakeInMode
  /\ Head(stream).t # "end" /\ cur.id # 0
  /\ resp' = Append(resp, Head(stream))
  /\ UNCHANGED <<cmdq, cur, callback, objs, mapPanes, mapLayout, sent, toSrv, histVars>>

\* Mutant: the youngest queued command is taken.
ParseBeginLast ==
  /\ TakeInMode
  /\ Head(stream).t = "begin" /\ cur.id = 0
  /\ IF cmdq = <<>>
     THEN UNCHANGED <<cmdq, cur, resp>>
     ELSE cur' = Last(cmdq) /\ cmdq' = Front(cmdq) /\ resp' = <<>>
  /\ UNCHANGED <<callback, objs, mapPanes, mapLayout, sent, toSrv, histVars>>

\* %begin starts the oldest queued command; with an empty queue it is ignored.
ParseBegin ==
  /\ TakeInMode
  /\ Head(stream).t = "begin" /\ cur.id = 0
  /\ IF cmdq = <<>>
     THEN UNCHANGED <<cmdq, cur, resp>>
     ELSE cur' = Head(cmdq) /\ cmdq' = Tail(cmdq) /\ resp' = <<>>
  /\ UNCHANGED <<callback, objs, mapPanes, mapLayout, sent, toSrv, histVars>>

-----------------------------------------------------------------------------
(* Notifications.                                                          *)

Note(e) ==
  /\ Head(stream).t = "note" /\ cur.id = 0 /\ Head(stream).d.e = e
  /\ UNCHANGED <<cur, resp, callback, mapLayout>>

\* cmd_hdlr_session_changed
SessionChanged ==
  /\ TakeInMode /\ Note("session-changed")
  /\ SendCommands(OpenWindowsInitial)
  /\ UNCHANGED <<objs, mapPanes, histVars>>

\* Mutant: output of a pane that is not ready is shown.
OutputUnready ==
  /\ TakeInMode /\ Note("output")
  /\ LET d == Head(stream).d
         i == mapPanes[d.id] IN
     IF i # 0
     THEN /\ objs' = [objs EXCEPT ![i].shown = Append(@, d.pos)]
          /\ fault' = (objs[i].win # "open")
     ELSE UNCHANGED <<objs, fault>>
  /\ UNCHANGED <<mapPanes, cmdq, sent, toSrv, stop>>

\* cmd_hdlr_output: dropped unless the pane is known and ready.
Output ==
  /\ TakeInMode /\ Note("output")
  /\ LET d == Head(stream).d
         i == mapPanes[d.id] IN
     IF i # 0 /\ objs[i].ready
     THEN /\ objs' = [objs EXCEPT ![i].shown = Append(@, d.pos)]
          /\ fault' = (objs[i].win # "open")
     ELSE UNCHANGED <<objs, fault>>
  /\ UNCHANGED <<mapPanes, cmdq, sent, toSrv, stop>>

\* cmd_hdlr_window_renamed: the window id is looked up among the panes.
WindowRenamed ==
  /\ TakeInMode /\ Note("window-renamed")
  /\ LET i == mapPanes[Head(stream).d.id] IN fault' = (i # 0 /\ objs[i].win # "open")
  /\ UNCHANGED <<objs, mapPanes, cmdq, sent, toSrv, stop>>

\* cmd_hdlr_window_add: asks for the window unless its id is a known pane; the
\* window id is looked up among the panes here too.
WindowAdd ==
  /\ TakeInMode /\ Note("window-add")
  /\ LET w == Head(stream).d.id IN
     IF mapPanes[w] = 0
     THEN SendCommands(<< Cmd(Gateway, "CB_OPEN_LISTED_WINDOWS", w) >>)
     ELSE UNCHANGED <<cmdq, sent, toSrv>>
  /\ UNCHANGED <<objs, mapPanes, fault, stop>>

\* cmd_hdlr_window_close: the pane of that number leaves the table.  Its window
\* loses its tab if it is one; a window inside a splitter is not found there.
WindowClose ==
  /\ TakeInMode /\ Note("window-close")
  /\ LET w == Head(stream).d.id
         i == mapPanes[w] IN
     /\ mapPanes' = [mapPanes EXCEPT ![w] = 0]
     /\ objs' = IF i = 0 THEN objs
                ELSE [objs EXCEPT ![i].tab = objs[i].split, ![i].dropped = TRUE]
  /\ UNCHANGED <<cmdq, sent, toSrv, histVars>>

\* cmd_hdlr_layout_change: parsed, then forgotten.
LayoutChange ==
  /\ TakeInMode /\ Note("layout-change")
  /\ UNCHANGED <<objs, mapPanes, cmdq, sent, toSrv, histVars>>

\* %exit: startDetachTmuxControllerMode.  from_backend completes the detach if
\* the read holds more than the %exit line; the read that entered control mode
\* came through the terminal emulator, which ignores the result.
Exit ==
  /\ TakeLine /\ Note("exit")
  /\ \/ mode' = "NONE" /\ DeleteGateway("deleted")
     \/ mode' = "DETACH_INIT" /\ UNCHANGED <<gw, objs, mapPanes, fault>>
  /\ UNCHANGED <<cmdq, sent, toSrv, stop>>

-----------------------------------------------------------------------------
(* The user, and the life of the windows.                                  *)

\* A keystroke, a resize or "Duplicate Session" in a pane: the window's pointer
\* to the gateway, and the gateway's to its own window, are followed unchecked.
UserSends ==
  /\ Running
  /\ \E i \in DOMAIN objs : objs[i].win = "open" /\ objs[i].tab
  /\ IF gw = "live" /\ gwWnd # "closed"
     THEN SendCommands(<< Cmd(Gateway, "CB_NULL", 0) >>) /\ UNCHANGED fault
     ELSE fault' = TRUE /\ UNCHANGED <<sent, cmdq, toSrv>>
  /\ UNCHANGED <<mode, gw, gwWnd, cur, resp, callback, objs, mapPanes, mapLayout,
                 stop, stream, notes, srvVars>>

\* The user closes a pane: closeTerminal, deleteLater.  The gateway is not told.
UserClosesPane ==
  /\ Running
  /\ \E i \in DOMAIN objs :
       /\ objs[i].win = "open" /\ objs[i].tab
       /\ objs' = [objs EXCEPT ![i].win = "user-closed"]
  /\ UNCHANGED <<mode, gw, gwWnd, cmdq, cur, resp, callback, mapPanes, mapLayout,
                 histVars, sent, toSrv, stream, notes, srvVars>>

\* The gateway's window is closed, by the user or with its connection, and
\* destroyed.  In control mode it detaches and deletes the gateway; the "detach"
\* it queues dies with the queue.
CloseGatewayWindow ==
  /\ Running
  /\ gwWnd # "closed"
  /\ gwWnd' = "closed"
  /\ IF mode = "GATEWAY" /\ gw = "live"
     THEN DeleteGateway("deleted")
     ELSE UNCHANGED <<gw, objs, mapPanes>> /\ fault' = (mode = "GATEWAY")
  /\ UNCHANGED <<mode, cmdq, cur, resp, callback, mapLayout, stop,
                 sent, toSrv, stream, notes, srvVars>>

\* "Restart Session" on a gateway window that is still visible: the gateway is
\* deleted, the mode and the pointer to it stay.
RestartGatewayWindow ==
  /\ Running
  /\ gwWnd = "split" /\ mode = "GATEWAY" /\ gw = "live"
  /\ DeleteGateway("dangling")
  /\ UNCHANGED <<mode, gwWnd, cmdq, cur, resp, callback, mapLayout, stop,
                 sent, toSrv, stream, notes, srvVars>>

\* Data of the restarted session goes to the deleted gateway.
ReceiveAfterRestart ==
  /\ Running
  /\ gwWnd = "split" /\ gw = "dangling"
  /\ fault' = TRUE
  /\ UNCHANGED <<gwVars, stop, sent, toSrv, stream, notes, srvVars>>

\* tmux -CC is started again in the gateway's window: initTmuxControllerMode.
EnterAgain ==
  /\ Running
  /\ gwWnd # "closed" /\ mode # "GATEWAY"
  /\ stop' = IF mode = "NONE" THEN "entered-again" ELSE "assert-mode-none"
  /\ UNCHANGED <<gwVars, fault, sent, toSrv, stream, notes, srvVars>>

-----------------------------------------------------------------------------
ParseLine ==
  \/ ParseEndGateway \/ ParseEndPane \/ ParseStrayEnd \/ ParseResponseLine \/ ParseBegin
  \/ SessionChanged \/ Output \/ WindowRenamed \/ WindowAdd \/ WindowClose \/ LayoutChange
  \/ Exit

Server ==
  \/ SrvAnswer \/ SrvSession \/ SrvNewWindow \/ SrvSplitWindow \/ SrvCloseWindow
  \/ SrvRenameWindow \/ SrvOutput \/ SrvExit

User ==
  \/ UserSends \/ UserClosesPane \/ CloseGatewayWindow \/ RestartGatewayWindow
  \/ ReceiveAfterRestart \/ EnterAgain

Next == Server \/ ParseLine \/ User

\* The network delivers what was written, the GUI thread handles it, tmux answers.
Fairness == WF_vars(SrvAnswer) /\ WF_vars(ParseLine)

Spec == Init /\ [][Next]_vars /\ Fairness

-----------------------------------------------------------------------------
Command == [id : Nat, recv : Nat, cb : Callbacks, arg : Id]
Object == [pane : Id, ready : BOOLEAN, shown : Seq(Nat), win : {"open", "closed", "user-closed"},
           tab : BOOLEAN, split : BOOLEAN, dropped : BOOLEAN]
Payloads == [e : {"none", "window", "history", "state"} \cup Events,
             id : Id, pos : Nat, panes : Seq(Id)]
Line == [t : {"begin", "data", "end", "note"}, n : Nat, k : Nat, d : Payloads]

TypeOK ==
  /\ mode \in {"NONE", "GATEWAY", "DETACH_INIT"}
  /\ gw \in {"live", "deleted", "dangling"} /\ gwWnd \in {"hidden", "split", "closed"}
  /\ cmdq \in Seq(Command) /\ toSrv \in Seq(Command) /\ cur \in Command
  /\ sent \in Nat /\ Len(toSrv) <= sent
  /\ resp \in Seq(Line) /\ stream \in Seq(Line) /\ notes \in Nat
  /\ callback \in [cmd : Nat, lines : Seq(Line), size : Nat]
  /\ objs \in Seq(Object) /\ mapPanes \in [Id -> 0..Len(objs)] /\ mapLayout \in [Id -> Seq(Id)]
  /\ \A p \in Id : mapPanes[p] # 0 => objs[mapPanes[p]].pane = p
  /\ fault \in BOOLEAN /\ stop \in Stops
  /\ wins \in [Id -> Seq(Id)] /\ alive \subseteq Id /\ outs \in [Id -> Nat]

\* The gateway is a command channel: every step of it, server and user included,
\* is a step of TmuxChannel or leaves the channel alone.
Strip(l) == [i \in DOMAIN l |-> [t |-> l[i].t, n |-> l[i].n, k |-> l[i].k]]
CommandIds(q) == [i \in DOMAIN q |-> q[i].id]

Channel == INSTANCE TmuxChannel WITH
  MaxBurst <- MaxSent, MaxLines <- MaxId + 2,
  cmdq <- CommandIds(cmdq), toSrv <- CommandIds(toSrv), cur <- cur.id,
  resp <- Strip(resp), stream <- Strip(stream),
  callback <- [cmd |-> callback.cmd, lines |-> Strip(callback.lines), size |-> callback.size]

ImplementsChannel == Channel!Init /\ [][Channel!Next]_(Channel!vars)

\* What a pane shows is the server's output in order, nothing twice: the history
\* asked for first, then, from some later point on, every piece without a gap.
\* (cmd_hdlr_output drops what comes before the pane is ready; "from some later
\* point" is that window.)  The history arrives on a clean slate (assertion of
\* resp_hdlr_dump_history), however answers and output are interleaved.
OutputInOrder ==
  /\ TypeOK /\ stop # "assert-clean-slate"
  /\ \A i \in DOMAIN objs :
       LET s == objs[i].shown IN
       /\ Len(s) > 1 => s[1] < s[2]
       /\ \A j \in 2..(Len(s) - 1) : s[j + 1] = s[j] + 1

\* Deleted windows and gateways are used in four situations only: the user closed
\* a pane the gateway still maps; a detach was left half done; %window-close took
\* a pane out of the table but not off the screen; a gateway was restarted.
NoFaultUnprovoked ==
  fault => \/ \E i \in DOMAIN objs : objs[i].win = "user-closed"
           \/ mode = "DETACH_INIT"
           \/ \E i \in DOMAIN objs : objs[i].win = "open" /\ objs[i].tab /\ objs[i].dropped
           \/ gw = "dangling"

-----------------------------------------------------------------------------
(* What makes these inductive.                                             *)

\* Who is to get an answer has been made, and only an answer makes a pane.
ReceiversExist ==
  /\ cur.recv <= Len(objs) /\ \A i \in DOMAIN cmdq : cmdq[i].recv <= Len(objs)
  /\ objs # <<>> => callback.cmd # 0

\* The table knows every open pane it has not dropped and none that it closed; a
\* live gateway has closed none.
PanesKnown ==
  /\ \A i \in DOMAIN objs : objs[i].win = "open" => mapPanes[objs[i].pane] = i \/ objs[i].dropped
  /\ \A p \in Id : mapPanes[p] # 0 => objs[mapPanes[p]].win # "closed"
  /\ gw = "live" => \A i \in DOMAIN objs : objs[i].win # "closed"
  /\ gw # "live" => \A p \in Id : mapPanes[p] = 0

\* How the gateway and its window end.
EndsTogether ==
  /\ gw = "deleted" => mode = "NONE" \/ gwWnd = "closed"
  /\ gwWnd = "closed" /\ gw = "live" => mode = "DETACH_INIT"
  /\ mode = "DETACH_INIT" => gw = "live"
  /\ mode = "NONE" => gw = "deleted"

GatewayInv ==
  TypeOK /\ ReceiversExist /\ PanesKnown /\ EndsTogether /\ NoFaultUnprovoked

-----------------------------------------------------------------------------
\* A pane the gateway opened becomes ready to show output, as long as tmux has
\* the pane, the attach lasts and its window is open.
BoundReached == stream # <<>> /\ ~ENABLED ParseLine   \* MaxSent stops the parser
PaneBecomesReady ==
  \A i \in 1..(MaxId + 1) :
    (i \in DOMAIN objs) ~>
      \/ i \in DOMAIN objs /\ (objs[i].ready \/ objs[i].win # "open" \/ objs[i].pane \notin LivePanes)
      \/ mode # "GATEWAY" \/ gw # "live" \/ fault \/ BoundReached
=============================================================================
