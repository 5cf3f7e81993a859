------------------------------ MODULE PaneTree ------------------------------
(***************************************************************************)
(* The tabs and panes of a main window: GuiMainWindow, GuiSplitter, the    *)
(* drops of GuiDrag and the pane navigation of GuiNavigation.              *)
(*                                                                         *)
(* A tab shows a terminal or a tree of splitters whose leaves are          *)
(* terminals.  Each splitter keeps its children twice: in `child', in the  *)
(* order they were added, and as the widgets of QSplitter, in the order    *)
(* they are shown.  The main window keeps a list of its terminals and two  *)
(* caches of the tabs.                                                     *)
(*                                                                         *)
(* One handler is one step: the operators below take the layout record and *)
(* return the one the C++ function leaves, so that a handler is their      *)
(* composition in the order of its calls.  What a handler holds while a    *)
(* question, a drag or the pane navigation waits for the user is kept in   *)
(* ask, drag, site and nav; sessions may end meanwhile.                    *)
(***************************************************************************)
EXTENDS Integers, FiniteSets, Sequences, SequencesExt, TLC

CONSTANTS Terms,      \* GuiTerminalWindow objects
          Splits,     \* GuiSplitter objects
          NULL,
          MaxListed,  \* bound: entries of one terminal in terminalList
          MaxTabs,    \* bound: tabs beside which a new tab is opened
          MaxWaits    \* bound: questions, drags and navigations in all

ASSUME PaneAssumption ==
  /\ NULL \notin Terms \cup Splits /\ Terms \cap Splits = {}
  /\ MaxListed \in Nat \ {0} /\ MaxTabs \in Nat \ {0} /\ MaxWaits \in Nat

VARIABLES
  gui,             \* the layout, see Init.  life: "free" is memory without an object,
                   \* "doomed" an object that deleteLater was called for.
  ask,             \* the question that is open: what it asks about
  drag,            \* dragStartEvent: the terminal whose QDrag::exec has not returned
  site,            \* the terminal that is the parent of dragDropSite
  nav,             \* paneNavigate: mrupanemap's terminals and the selected one
  userClosingTab,  \* the terminals whose userClosingTab is set
  closed,          \* the main window was closed
  waits            \* questions, drags and navigations so far

vars == <<gui, ask, drag, site, nav, userClosingTab, closed, waits>>

Widgets == Terms \cup Splits
NoQuestion == [k |-> "none", w |-> NULL]
NoNav == [map |-> {}, sel |-> NULL]

Init ==
  /\ gui = [tabs |-> <<>>, child |-> [s \in Splits |-> {}],
            order |-> [s \in Splits |-> <<>>],
            parentSplit |-> [w \in Widgets |-> NULL],
            orient |-> [s \in Splits |-> "H"],
            terminalList |-> [t \in Terms |-> 0],
            tabIndexMap |-> <<>>, widgetAtIndex |-> <<>>,
            life |-> [w \in Widgets |-> "free"], fault |-> "none"]
  /\ ask = NoQuestion /\ drag = NULL /\ site = NULL /\ nav = NoNav
  /\ userClosingTab = {} /\ closed = FALSE /\ waits = 0

-----------------------------------------------------------------------------
\* Qt counts from 0 and answers -1 for what is not there.
indexOf(seq, e) == IF Contains(seq, e) THEN SelectInSeq(seq, LAMBDA x : x = e) - 1 ELSE -1

\* insertTab and insertWidget append at an index that is out of range.
InsertAtIndex(seq, ind, e) ==
  InsertAt(seq, IF ind \in 0..Len(seq) THEN ind + 1 ELSE Len(seq) + 1, e)

Fail(L, cond, what) ==
  IF cond /\ L.fault = "none" THEN [L EXCEPT !.fault = what] ELSE L

\* The terminals below w.  `child' is a vector; its order only decides in which
\* order the panes of a tab are closed, so it is a set here.
populateAllTerminals(L, w) ==
  LET below[x \in Widgets] ==
        IF x \in Terms THEN {x} ELSE UNION {below[c] : c \in L.child[x]}
  IN below[w]

\* The main window's slot for tabs that were inserted, removed or moved.  It
\* rebuilds tabIndexMap (later tabs overwrite earlier ones) and widgetAtIndex.
on_tabLayoutChanged(L) ==
  LET At(i) == {L.tabs[i]} \cup populateAllTerminals(L, L.tabs[i])
      Tabs(w) == {i \in DOMAIN L.tabs : w \in At(i)}
  IN [L EXCEPT !.widgetAtIndex = L.tabs,
        !.tabIndexMap = [w \in {v \in Widgets : Tabs(v) # {}} |->
                           (CHOOSE i \in Tabs(w) : \A j \in Tabs(w) : j <= i) - 1]]

getTerminalTabInd(L, w) == IF w \in DOMAIN L.tabIndexMap THEN L.tabIndexMap[w] ELSE -1

\* Mutant: sig_tabRemoved is not connected.
TabRemoveQuietly(L, ind) ==
  IF ind \in 0 .. Len(L.tabs) - 1 THEN [L EXCEPT !.tabs = RemoveAt(@, ind + 1)] ELSE L

\* removeTab ignores an index that is out of range.
tabRemove(L, ind) ==
  IF ind \in 0 .. Len(L.tabs) - 1
  THEN on_tabLayoutChanged([L EXCEPT !.tabs = RemoveAt(@, ind + 1)])
  ELSE L

\* Qt: a widget that gets a new parent leaves its tab or its QSplitter.
Reparent(L, w) ==
  tabRemove([L EXCEPT !.order = [s \in Splits |-> SelectSeq(L.order[s], LAMBDA x : x # w)]],
            indexOf(L.tabs, w))

tabInsert(L, ind, w) ==
  LET M == Reparent(L, w)
  IN on_tabLayoutChanged([M EXCEPT !.tabs = InsertAtIndex(@, ind, w)])

-----------------------------------------------------------------------------
\* GuiSplitter::GuiSplitter.
NewSplitter(L, s, orient, parent, ind) ==
  LET M == [L EXCEPT !.life[s] = "live", !.orient[s] = orient, !.parentSplit[s] = parent,
                     !.child[s] = {}, !.order[s] = <<>>]
  IN IF parent = NULL THEN M
     ELSE [M EXCEPT !.child[parent] = @ \cup {s},
                    !.order[parent] = InsertAtIndex(@, ind, s)]

addBaseWidget(L, s, ind, b) ==
  LET M == Reparent([L EXCEPT !.child[s] = @ \cup {b}, !.parentSplit[b] = s], b)
  IN [M EXCEPT !.order[s] = InsertAtIndex(@, ind, b)]

\* vector::erase of end(), when b is no child, is undefined.
removeBaseWidget(L, s, b) ==
  LET M == Fail(L, b \notin L.child[s], "assert")
  IN Reparent([M EXCEPT !.child[s] = @ \ {b},
                        !.parentSplit[b] = NULL], b)

\* GuiTerminalWindow::createSplitLayout and GuiSplitter::createSplitLayout; s
\* is the new splitter, used only where the code makes one.
createSplitLayout(L, dst, split, new, s) ==
  LET orient == IF split \in {"up", "down"} THEN "V" ELSE "H"
      after == split \in {"down", "right"}
      Both(M) == IF after
                 THEN addBaseWidget(addBaseWidget(M, s, 0, dst), s, 1, new)
                 ELSE addBaseWidget(addBaseWidget(M, s, 0, new), s, 1, dst)
      p == L.parentSplit[dst]
      tabind == getTerminalTabInd(L, dst)
      ind == indexOf(L.order[p], dst)
  IN IF p = NULL
     THEN tabInsert(Both(NewSplitter(tabRemove(L, tabind), s, orient, NULL, -1)), tabind, s)
     ELSE IF orient # L.orient[p]
     THEN Both(removeBaseWidget(NewSplitter(Fail(L, ind = -1, "assert"), s, orient, p, ind),
                                p, dst))
     ELSE addBaseWidget(Fail(L, ind = -1, "assert"), p, IF after THEN ind + 1 ELSE ind, new)

\* Mutant: the last child goes to the end of the splitter above.
CollapseToEnd(L, s, b) ==
  LET N == removeBaseWidget(L, s, b)
      p == N.parentSplit[s]
      tabind == getTerminalTabInd(N, s)
      Up == IF p = NULL THEN tabInsert(tabRemove(N, tabind), tabind, b)
            ELSE addBaseWidget([N EXCEPT !.child[p] = @ \ {s}], p, -1, b)
  IN [Up EXCEPT !.parentSplit[s] = NULL, !.life[s] = "doomed"]

\* Mutant: the last child is not taken out of the splitter that goes.
CollapseKeepsChild(L, s, b) ==
  LET p == L.parentSplit[s]
      tabind == getTerminalTabInd(L, s)
      Up == IF p = NULL THEN tabInsert(tabRemove(L, tabind), tabind, b)
            ELSE addBaseWidget([L EXCEPT !.child[p] = @ \ {s}], p, indexOf(L.order[p], s), b)
  IN [Up EXCEPT !.parentSplit[s] = NULL, !.life[s] = "doomed"]

\* The second half of removeSplitLayout: the last child of a splitter goes to
\* the splitter above, or becomes the tab, and the splitter goes.  Until it is
\* deleted it stays a widget of the splitter above.
Collapse(L, s, b) ==
  LET N == removeBaseWidget(L, s, b)
      p == N.parentSplit[s]
      tabind == getTerminalTabInd(N, s)
      Up == IF p = NULL THEN tabInsert(tabRemove(N, tabind), tabind, b)
            ELSE addBaseWidget([Fail(N, s \notin N.child[p], "assert") EXCEPT !.child[p] = @ \ {s}],
                               p, indexOf(N.order[p], s), b)
  IN [Up EXCEPT !.parentSplit[s] = NULL, !.life[s] = "doomed"]

\* Mutant: a splitter with one child stays.
NeverCollapse(L, s, term) == removeBaseWidget(L, s, term)

removeSplitLayout(L, s, term) ==
  LET M == removeBaseWidget(L, s, term)
  IN IF Cardinality(M.child[s]) # 1 THEN M
     ELSE Collapse(M, s, CHOOSE b \in M.child[s] : TRUE)

\* Mutant: one entry of terminalList is removed, not all.
CloseTerminalOnce(L, t) ==
  LET p == L.parentSplit[t]
      M == IF p = NULL THEN L ELSE removeSplitLayout(L, p, t)
      N == tabRemove([M EXCEPT !.terminalList[t] = IF @ = 0 THEN 0 ELSE @ - 1], indexOf(M.tabs, t))
  IN [on_tabLayoutChanged(N) EXCEPT !.life[t] = "doomed"]

\* GuiTerminalWindow::closeTerminal with GuiMainWindow::closeTerminal.
closeTerminal(L, t) ==
  LET p == L.parentSplit[t]
      M == IF p = NULL THEN L ELSE removeSplitLayout(L, p, t)
      N == tabRemove([M EXCEPT !.terminalList[t] = 0], indexOf(M.tabs, t))
  IN [on_tabLayoutChanged(N) EXCEPT !.life[t] = "doomed"]

\* GuiSplitter::reqCloseTerminal(true): closes the terminals below s in the
\* order of list; every splitter visited asserts that no child is left.
reqCloseTerminals(L, s, list) ==
  LET M == FoldLeft(closeTerminal, L, list)
      Visited == {s} \cup {x \in Splits : L.child[x] # {} /\ populateAllTerminals(L, x)
                                                    \subseteq populateAllTerminals(L, s)}
  IN Fail([M EXCEPT !.life = [w \in Widgets |-> IF w \in Visited THEN "doomed" ELSE @[w]]],
          \E x \in Visited : M.child[x] # {}, "assert")

\* GuiMainWindow::setupLayout for a tab: the terminal is appended to
\* terminalList even if it is there already.
setupLeaf(L, t, ind) ==
  on_tabLayoutChanged([tabInsert(Reparent(L, t), ind, t) EXCEPT !.terminalList[t] = @ + 1])

-----------------------------------------------------------------------------
Doomed == {w \in Widgets : gui.life[w] = "doomed"}
Running == gui.fault = "none" /\ ~closed
\* The user can do something; and, with no question and no drag, give commands.
Input == Running /\ Doomed = {}
Idle == Input /\ ask = NoQuestion /\ drag = NULL

\* A handler begins to wait for the user.
Wait == waits < MaxWaits /\ waits' = waits + 1

\* Memory that something still points to is not used again.
Fresh(w) == /\ gui.life[w] = "free"
            /\ w \notin {ask.w, drag, site, nav.sel} \cup nav.map

Live(t) == gui.life[t] = "live"
InTab(L, t) == \E i \in DOMAIN L.tabs : t \in populateAllTerminals(L, L.tabs[i])

Born(L, t) == [L EXCEPT !.life[t] = "live"]

\* createNewTab for a new tab.  If the session cannot be opened the window is
\* deleted again and nothing changes.
OpenTab(t) ==
  /\ Idle /\ nav = NoNav /\ Fresh(t) /\ Len(gui.tabs) < MaxTabs
  /\ gui' = setupLeaf(Born(gui, t), t, -1)
  /\ UNCHANGED <<ask, drag, site, nav, userClosingTab, closed, waits>>

\* createNewTab for a split of the terminal that has the focus.
OpenSplit(t, curr, split, s) ==
  /\ Idle /\ nav = NoNav /\ Fresh(t) /\ Fresh(s)
  /\ InTab(gui, curr) /\ split \in {"down", "right"}
  /\ LET L == createSplitLayout(Born(gui, t), curr, split, t, s)
     IN gui' = on_tabLayoutChanged([L EXCEPT !.terminalList[t] = @ + 1])
  /\ UNCHANGED <<ask, drag, site, nav, userClosingTab, closed, waits>>

\* Mutant: the session ends although the user is asked whether to close it.
ExitAnyway(t) ==
  /\ Running /\ Live(t)
  /\ gui' = closeTerminal(gui, t)
  /\ UNCHANGED <<ask, drag, site, nav, userClosingTab, closed, waits>>

\* qt_notify_remote_exit and qt_connection_fatal with close_on_exit.
RemoteExit(t) ==
  /\ Running /\ Live(t) /\ t \notin userClosingTab
  /\ gui' = closeTerminal(gui, t)
  /\ UNCHANGED <<ask, drag, site, nav, userClosingTab, closed, waits>>

\* initTmuxControllerMode: a terminal that is a tab is hidden, one in a
\* splitter is not.
HideTerminal(t) ==
  /\ Running /\ Live(t) /\ Contains(gui.tabs, t)
  /\ gui' = on_tabLayoutChanged(tabRemove(gui, indexOf(gui.tabs, t)))
  /\ UNCHANGED <<ask, drag, site, nav, userClosingTab, closed, waits>>

\* reqCloseTerminal(false) from the menus or the tab: closes, or asks first.
ReqCloseTerminal(t) ==
  /\ Idle /\ Live(t) /\ InTab(gui, t)
  /\ userClosingTab' = userClosingTab \cup {t}
  /\ \/ gui' = closeTerminal(gui, t) /\ UNCHANGED <<ask, waits>>
     \/ nav = NoNav /\ Wait /\ ask' = [k |-> "terminal", w |-> t] /\ UNCHANGED gui
  /\ UNCHANGED <<drag, site, nav, closed>>

\* tabCloseRequested for a tab with panes: asks, holding the splitter.
TabCloseRequested(s) ==
  /\ Idle /\ nav = NoNav /\ Contains(gui.widgetAtIndex, s)
  /\ Wait /\ ask' = [k |-> "tab", w |-> s]
  /\ UNCHANGED <<gui, drag, site, nav, userClosingTab, closed>>

\* The rest of closeEvent: closes the terminals of terminalList, in any order.
CloseAll ==
  LET Listed == {t \in Terms : gui.terminalList[t] > 0}
  IN /\ \E list \in SetToSeqs(Listed) : gui' = FoldLeft(closeTerminal, gui, list)
     /\ userClosingTab' = userClosingTab \cup Listed
     /\ closed' = TRUE

\* closeEvent: asks unless there is no tab.
CloseEvent ==
  /\ Idle /\ nav = NoNav
  /\ IF gui.tabs = <<>>
     THEN CloseAll /\ UNCHANGED <<ask, waits>>
     ELSE Wait /\ ask' = [k |-> "window", w |-> NULL] /\ UNCHANGED <<gui, closed, userClosingTab>>
  /\ UNCHANGED <<drag, site, nav>>

AnswerNo ==
  /\ Input /\ ask # NoQuestion
  /\ ask' = NoQuestion
  /\ UNCHANGED <<gui, drag, site, nav, userClosingTab, closed, waits>>

\* The handler goes on with what it held when it asked.
AnswerYes ==
  /\ Input /\ ask # NoQuestion
  /\ ask' = NoQuestion
  /\ \/ /\ ask.k = "terminal"
        /\ gui' = IF Live(ask.w) THEN closeTerminal(gui, ask.w) ELSE Fail(gui, TRUE, "terminal")
        /\ UNCHANGED <<closed, userClosingTab>>
     \/ /\ ask.k = "tab"
        /\ \E list \in SetToSeqs(populateAllTerminals(gui, ask.w)) :
             gui' = IF gui.life[ask.w] = "free" THEN Fail(gui, TRUE, "question")
                    ELSE reqCloseTerminals(gui, ask.w, list)
        /\ userClosingTab' = userClosingTab \cup populateAllTerminals(gui, ask.w)
        /\ UNCHANGED closed
     \/ ask.k = "window" /\ CloseAll
  /\ UNCHANGED <<drag, site, nav, waits>>

\* QTabBar moves a tab and emits tabMoved.
MoveTab(i, j) ==
  /\ Idle /\ {i, j} \subseteq DOMAIN gui.tabs /\ i # j
  /\ gui' = on_tabLayoutChanged(
              [gui EXCEPT !.tabs = InsertAt(RemoveAt(@, i), j, gui.tabs[i])])
  /\ UNCHANGED <<ask, drag, site, nav, userClosingTab, closed, waits>>

-----------------------------------------------------------------------------
DragStart(t) ==
  /\ Idle /\ nav = NoNav /\ Live(t) /\ InTab(gui, t)
  /\ Wait /\ drag' = t
  /\ UNCHANGED <<gui, ask, site, nav, userClosingTab, closed>>

\* dragEnterEvent, dragLeaveEvent: dragDropSite becomes a child of the terminal.
DragEnter(t) ==
  /\ Input /\ drag # NULL /\ site = NULL /\ t # drag /\ Live(t) /\ InTab(gui, t)
  /\ site' = t
  /\ UNCHANGED <<gui, ask, drag, nav, userClosingTab, closed, waits>>

DragLeave ==
  /\ Input /\ drag # NULL /\ site # NULL /\ Live(site)
  /\ site' = NULL
  /\ UNCHANGED <<gui, ask, drag, nav, userClosingTab, closed, waits>>

\* GuiTerminalWindow::dropEvent; then QDrag::exec returns to dragStartEvent.
DropOnTerminal(split, s) ==
  /\ Input /\ drag # NULL /\ site # NULL /\ Live(site) /\ InTab(gui, site) /\ Fresh(s)
  /\ LET p == gui.parentSplit[drag]
         L == IF p = NULL THEN gui ELSE removeSplitLayout(gui, p, drag)
     IN gui' = IF Live(drag) THEN createSplitLayout(L, site, split, drag, s)
               ELSE Fail(gui, TRUE, "drag")
  /\ drag' = NULL /\ site' = NULL
  /\ UNCHANGED <<ask, nav, userClosingTab, closed, waits>>

\* GuiTabBar::dropEvent before (left) or behind (right) the tab at tabind.
DropOnTabBar(tabind, split) ==
  /\ Input /\ drag # NULL /\ site = NULL
  /\ tabind \in 0 .. Len(gui.tabs) - 1 /\ split \in {"left", "right"}
  /\ gui.terminalList[drag] < MaxListed /\ Len(gui.tabs) <= MaxTabs
  /\ LET p == gui.parentSplit[drag]
         L == IF p = NULL THEN gui ELSE removeSplitLayout(gui, p, drag)
     IN gui' = IF Live(drag)
               THEN setupLeaf(L, drag, IF split = "left" THEN tabind ELSE tabind + 1)
               ELSE Fail(gui, TRUE, "drag")
  /\ drag' = NULL
  /\ UNCHANGED <<ask, site, nav, userClosingTab, closed, waits>>

\* The drag is given up; dragStartEvent touches its terminal once more.
DragEnd ==
  /\ Input /\ drag # NULL /\ site = NULL
  /\ gui' = Fail(gui, gui.life[drag] = "free", "drag")
  /\ drag' = NULL
  /\ UNCHANGED <<ask, site, nav, userClosingTab, closed, waits>>

-----------------------------------------------------------------------------
NextInd(ind, key) == IF key \in {"up", "left"} THEN ind - 1 ELSE ind + 1

\* GuiSplitter::navigatePane: the terminals it may return.  Among those of a
\* neighbouring splitter it takes the nearest on the screen.
navigatePane(L, key, tofind) ==
  LET Index(s) == IF L.parentSplit[s] = NULL THEN -1 ELSE indexOf(L.order[L.parentSplit[s]], s)
      go[s \in Splits, splitind \in -1 .. Cardinality(Widgets)] ==
        LET p == L.parentSplit[s]
            here == indexOf(L.order[s], tofind)
            ind == IF here = -1 THEN splitind ELSE here
            next == NextInd(ind, key)
        IN IF (L.orient[s] = "H") # (key \in {"left", "right"})
           THEN IF p = NULL THEN {} ELSE go[p, Index(s)]
           ELSE IF ind = -1 THEN {}
           ELSE IF next \in 0 .. Len(L.order[s]) - 1
           THEN populateAllTerminals(L, L.order[s][next + 1])
           ELSE IF p = NULL THEN {}
           ELSE IF L.parentSplit[p] = NULL THEN {}
           ELSE go[L.parentSplit[p], Index(p)]
  IN IF L.parentSplit[tofind] = NULL THEN {} ELSE go[L.parentSplit[tofind], -1]

\* GuiPaneNavigation: the panes of the current tab are remembered.
NavOpen(s, t) ==
  /\ Idle /\ nav = NoNav /\ Contains(gui.tabs, s)
  /\ t \in populateAllTerminals(gui, s)
  /\ Wait /\ nav' = [map |-> populateAllTerminals(gui, s), sel |-> t]
  /\ UNCHANGED <<gui, ask, drag, site, userClosingTab, closed>>

\* navigateToMRUPane: leaves one remembered pane and marks another.
NavMRU(t) ==
  /\ Idle /\ nav # NoNav /\ t \in nav.map
  /\ gui' = Fail(gui, "free" \in {gui.life[nav.sel], gui.life[t]}, "nav")
  /\ nav' = [nav EXCEPT !.sel = t]
  /\ UNCHANGED <<ask, drag, site, userClosingTab, closed, waits>>

\* navigateToDirectionPane.
NavDirection(key) ==
  /\ Idle /\ nav # NoNav
  /\ IF gui.life[nav.sel] = "free" THEN gui' = Fail(gui, TRUE, "nav") /\ UNCHANGED nav
     ELSE \E t \in navigatePane(gui, key, nav.sel) :
            /\ nav' = [nav EXCEPT !.sel = IF t \in nav.map THEN t ELSE @]
            /\ UNCHANGED gui
  /\ UNCHANGED <<ask, drag, site, userClosingTab, closed, waits>>

\* acceptNavigation and focusOutEvent touch the selected pane.
NavEnd ==
  /\ Idle /\ nav # NoNav
  /\ gui' = Fail(gui, gui.life[nav.sel] = "free", "nav")
  /\ nav' = NoNav
  /\ UNCHANGED <<ask, drag, site, userClosingTab, closed, waits>>

\* deleteLater: back in the event loop, ahead of the user's next input, the
\* objects are deleted, with the widgets they still have.
DeferredDelete ==
  /\ gui.fault = "none" /\ Doomed # {}
  /\ LET dead == Doomed \cup UNION {Range(gui.order[s]) : s \in Doomed \cap Splits}
     IN /\ gui' = Fail([gui EXCEPT
                          !.life = [w \in Widgets |-> IF w \in dead THEN "free" ELSE @[w]],
                          !.orient = [s \in Splits |-> IF s \in dead THEN "H" ELSE @[s]],
                          !.order = [s \in Splits |-> IF s \in dead THEN <<>>
                                       ELSE SelectSeq(@[s], LAMBDA x : x \notin dead)]],
                       site \in dead, "site")
        /\ userClosingTab' = userClosingTab \ dead
  /\ UNCHANGED <<ask, drag, site, nav, closed, waits>>

Next ==
  \/ \E t \in Terms : OpenTab(t) \/ RemoteExit(t) \/ HideTerminal(t) \/ ReqCloseTerminal(t)
  \/ \E t, curr \in Terms, s \in Splits, split \in {"down", "right"} : OpenSplit(t, curr, split, s)
  \/ \E s \in Splits : TabCloseRequested(s)
  \/ CloseEvent \/ AnswerNo \/ AnswerYes
  \/ \E i, j \in DOMAIN gui.tabs : MoveTab(i, j)
  \/ \E t \in Terms : DragStart(t) \/ DragEnter(t)
  \/ DragLeave \/ DragEnd
  \/ \E s \in Splits, split \in {"up", "down", "left", "right"} : DropOnTerminal(split, s)
  \/ \E i \in DOMAIN gui.tabs, split \in {"left", "right"} : DropOnTabBar(i - 1, split)
  \/ \E s \in Splits, t \in Terms : NavOpen(s, t)
  \/ \E t \in Terms : NavMRU(t)
  \/ \E key \in {"up", "down", "left", "right"} : NavDirection(key)
  \/ NavEnd
  \/ DeferredDelete

Spec == Init /\ [][Next]_vars

Symmetry == Permutations(Terms) \cup Permutations(Splits)

-----------------------------------------------------------------------------
\* The types of the variables.
TypeOK ==
  /\ gui.tabs \in Seq(Widgets) /\ gui.widgetAtIndex \in Seq(Widgets)
  /\ gui.child \in [Splits -> SUBSET Widgets] /\ gui.order \in [Splits -> Seq(Widgets)]
  /\ gui.parentSplit \in [Widgets -> Splits \cup {NULL}]
  /\ gui.orient \in [Splits -> {"H", "V"}]
  /\ gui.terminalList \in [Terms -> 0..MaxListed]
  /\ gui.life \in [Widgets -> {"free", "live", "doomed"}]
  /\ DOMAIN gui.tabIndexMap \subseteq Widgets /\ Range(gui.tabIndexMap) \subseteq Nat
  /\ ask.k \in {"none", "terminal", "tab", "window"} /\ ask.w \in Widgets \cup {NULL}
  /\ {drag, site, nav.sel} \subseteq Terms \cup {NULL} /\ nav.map \subseteq Terms
  /\ userClosingTab \subseteq Terms /\ closed \in BOOLEAN /\ waits \in 0..MaxWaits

\* The terminals of a tab in the order the user sees them.
Shown(L, w) ==
  LET below[x \in Widgets] ==
        IF x \in Terms THEN <<x>>
        ELSE FlattenSeq([i \in DOMAIN L.order[x] |-> below[L.order[x][i]]])
  IN below[w]

\* The bookkeeping of GuiSplitter describes one forest, however panes are
\* split, closed, dropped and collapsed: a splitter has two children or more,
\* `child', the widgets of QSplitter and parentSplit agree, every top splitter
\* is a tab, and no terminal is shown twice; moving by direction (navigatePane)
\* therefore leads from a pane only to another open one of its tab.
TreeShape ==
  LET LiveOnes(ws) == {w \in ws : gui.life[w] = "live"}
      Children(s) == {w \in Widgets : gui.parentSplit[w] = s}
      Directions == {"up", "down", "left", "right"}
  IN /\ TypeOK
     /\ gui.fault = "none" =>
       /\ \A s \in LiveOnes(Splits) :
            /\ Cardinality(gui.child[s]) >= 2 /\ IsInjective(gui.order[s])
            /\ gui.child[s] = Children(s)
            /\ LiveOnes(Range(gui.order[s])) = Children(s)
            /\ gui.parentSplit[s] = NULL => Contains(gui.tabs, s)
       /\ \A w \in Widgets : gui.parentSplit[w] # NULL =>
            Live(w) /\ Live(gui.parentSplit[w]) /\ ~Contains(gui.tabs, w)
       /\ IsInjective(gui.tabs) /\ LiveOnes(Range(gui.tabs)) = Range(gui.tabs)
       /\ IsInjective(FlattenSeq([i \in DOMAIN gui.tabs |-> Shown(gui, gui.tabs[i])]))
       /\ \A t \in Terms, key \in Directions : \A u \in navigatePane(gui, key, t) :
            /\ Live(u) /\ u # t
            /\ \E i \in DOMAIN gui.tabs : {t, u} \subseteq Range(Shown(gui, gui.tabs[i]))

\* terminalList, by which every menu command decides whether a pointer is still
\* a terminal, holds exactly the terminals that are open; and a window that was
\* closed leaves neither a terminal nor a splitter behind.
ListedIffOpen ==
  gui.fault = "none" =>
    /\ \A t \in Terms : gui.terminalList[t] > 0 <=> Live(t)
    /\ closed => \A w \in Widgets : ~Live(w)

\* A splitter that waits to be deleted owns no widget in use: deleting it would
\* delete its panes too.
DyingOwnsNothing ==
  gui.fault = "none" =>
    \A s \in Splits : gui.life[s] = "doomed" =>
      gui.child[s] = {} /\ \A w \in Range(gui.order[s]) : ~Live(w)

\* What the handlers of the tab bar read from the caches is never stale:
\* widgetAtIndex and the index of every tab are right, no cached widget is on
\* its way out, and no cached index is out of range.
CacheMatchesTabs ==
  gui.fault = "none" =>
    /\ gui.widgetAtIndex = gui.tabs
    /\ \A i \in DOMAIN gui.tabs : getTerminalTabInd(gui, gui.tabs[i]) = i - 1
    /\ \A w \in DOMAIN gui.tabIndexMap :
         Live(w) /\ gui.tabIndexMap[w] \in 0 .. Len(gui.tabs) - 1

\* No sequence of splits, drops and closes fails an assertion of GuiSplitter
\* (a split of a pane that is not in its splitter, a closed tree that still has
\* children) or erases a child that is not there, and the terminal a question
\* was asked about is still there when the user says yes.
AssertionsHold == gui.fault \notin {"assert", "terminal"}

\* Of two panes, t is shown before u in the same tab.
ShownBefore(L, t, u) ==
  \E i \in DOMAIN L.tabs :
    LET q == Shown(L, L.tabs[i])
    IN \E a, b \in DOMAIN q : a < b /\ q[a] = t /\ q[b] = u

\* What happens to one pane leaves the others where they are: two panes of a
\* tab that stay open, and are not the one being dragged, stay in one tab and
\* in the same order.
PanesKeepOrder ==
  [][gui'.fault = "none" =>
       \A t, u \in Terms \ {drag} :
         (ShownBefore(gui, t, u) /\ gui'.life[t] = "live" /\ gui'.life[u] = "live")
           => ShownBefore(gui', t, u)]_vars
=============================================================================
