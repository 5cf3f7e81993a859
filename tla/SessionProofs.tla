---------------------------- MODULE SessionProofs ----------------------------
(***************************************************************************)
(* Proofs about Session, for any windows and any depth of nested event     *)
(* loops: a handler that shows a box for a window finds the window when    *)
(* the box is gone, the end of a connection is told once and marked, and   *)
(* the main window's pointers to settings windows are live.                *)
(***************************************************************************)
EXTENDS Session, FiniteSetTheorems, TLAPS

-----------------------------------------------------------------------------
(* Stacks of handlers and the event loops in them.                         *)

\* The event loops up to a handler are counted one by one.
LEMMA Loops ==
  ASSUME NEW s, NEW i \in Nat
  PROVE  /\ LoopsUpTo(s, i) \in Nat /\ LoopsUpTo(s, 0) = 0
         /\ LoopsUpTo(s, i) <= i
         /\ LoopsUpTo(s, i + 1) = LoopsUpTo(s, i) + (IF s[i + 1].at \in Boxes THEN 1 ELSE 0)
         /\ \A j \in 0..i : LoopsUpTo(s, j) <= LoopsUpTo(s, i)
<1> DEFINE B(j) == {k \in 1..j : s[k].at \in Boxes}
<1>1. \A j \in Nat : IsFiniteSet(1..j) /\ Cardinality(1..j) = j
  BY FS_Interval
<1>2. \A j \in Nat : IsFiniteSet(B(j)) /\ Cardinality(B(j)) \in Nat /\ Cardinality(B(j)) <= j
  BY <1>1, FS_Subset, FS_CardinalityType
<1>3. B(0) = {} /\ Cardinality(B(0)) = 0
  BY FS_EmptySet
<1>4. Cardinality(B(i + 1)) = Cardinality(B(i)) + (IF s[i + 1].at \in Boxes THEN 1 ELSE 0)
  <2>1. CASE s[i + 1].at \in Boxes
    <3>1. B(i + 1) = B(i) \cup {i + 1} /\ i + 1 \notin B(i)
      BY <2>1
    <3>2. IsFiniteSet(B(i)) /\ Cardinality(B(i)) \in Nat
      BY <1>2
    <3> HIDE DEF B
    <3>3. Cardinality(B(i) \cup {i + 1}) = Cardinality(B(i)) + 1
      BY <3>1, <3>2, FS_AddElement
    <3>4. Cardinality(B(i + 1)) = Cardinality(B(i)) + 1
      BY <3>1, <3>3
    <3> QED BY <2>1, <3>4
  <2>2. CASE s[i + 1].at \notin Boxes
    <3>1. B(i + 1) = B(i)
      BY <2>2
    <3>2. Cardinality(B(i)) \in Nat
      BY <1>2
    <3> HIDE DEF B
    <3> QED BY <2>2, <3>1, <3>2
  <2> QED BY <2>1, <2>2
<1>5. \A j \in 0..i : Cardinality(B(j)) <= Cardinality(B(i))
  <2>1. \A j \in 0..i : B(j) \subseteq B(i)
    OBVIOUS
  <2> QED BY <1>2, <2>1, FS_Subset
<1> QED BY <1>2, <1>3, <1>4, <1>5 DEF LoopsUpTo

\* They depend on what is below only.
LEMMA LoopsAgree ==
  ASSUME NEW s, NEW r, NEW i \in Nat, \A j \in 1..i : s[j] = r[j]
  PROVE  LoopsUpTo(s, i) = LoopsUpTo(r, i)
<1>1. {j \in 1..i : s[j].at \in Boxes} = {j \in 1..i : r[j].at \in Boxes}
  OBVIOUS
<1> QED BY <1>1 DEF LoopsUpTo

LEMMA DepthIsLoops ==
  ASSUME NEW s \in Seq(Handlers)
  PROVE  Depth(s) = LoopsUpTo(s, Len(s)) /\ Depth(s) \in Nat /\ Depth(s) <= Len(s)
<1>1. DOMAIN s = 1..Len(s) /\ Len(s) \in Nat
  OBVIOUS
<1> QED BY <1>1, Loops DEF Depth, LoopsUpTo

\* What a call puts on the stack.
LEMMA PushShape ==
  ASSUME NEW s \in Seq(Handlers), NEW f \in Handlers
  PROVE  /\ Append(s, f) \in Seq(Handlers) /\ Len(Append(s, f)) = Len(s) + 1 /\ Len(s) \in Nat
         /\ DOMAIN s = 1..Len(s) /\ DOMAIN Append(s, f) = 1..(Len(s) + 1)
         /\ \A i \in 1..Len(s) : Append(s, f)[i] = s[i]
         /\ Append(s, f)[Len(s) + 1] = f
  OBVIOUS

\* What a return leaves of it.
LEMMA PopShape ==
  ASSUME stack \in Seq(Handlers), stack # <<>>
  PROVE  /\ Below \in Seq(Handlers) /\ Len(stack) \in Nat \ {0} /\ Len(Below) = Len(stack) - 1
         /\ DOMAIN stack = 1..Len(stack) /\ DOMAIN Below = 1..(Len(stack) - 1)
         /\ \A i \in 1..(Len(stack) - 1) : Below[i] = stack[i]
         /\ Top = stack[Len(stack)] /\ Top \in Handlers
<1>1. Len(stack) \in Nat \ {0} /\ DOMAIN stack = 1..Len(stack)
  OBVIOUS
<1>2. /\ SubSeq(stack, 1, Len(stack) - 1) \in Seq(Handlers)
      /\ Len(SubSeq(stack, 1, Len(stack) - 1)) = Len(stack) - 1
      /\ \A i \in 1..(Len(stack) - 1) : SubSeq(stack, 1, Len(stack) - 1)[i] = stack[i]
  BY <1>1
<1>3. Top = stack[Len(stack)] /\ Top \in Handlers
  BY <1>1 DEF Top
<1> QED BY <1>1, <1>2, <1>3 DEF Below

-----------------------------------------------------------------------------
(* The invariant when handlers are called and return and windows change.   *)

FramesOK(w, s) == (\A i \in DOMAIN s : FrameOK(w, s, i)) /\ PairsOK(s)
WindowsOK(w, s) == \A t \in Terms : WindowOK(w, s, t)

\* No handler of s is executing, and the menus in it belong to windows that are open
\* or have closed themselves.
Quiet(w, s) ==
  \A i \in DOMAIN s : /\ s[i].at # "run"
                      /\ s[i].at = "menudone" => w[s[i].t].life = "open" \/ ClosedItself(w[s[i].t])

\* A handler and its window are left alone.
LEMMA FrameStays ==
  ASSUME NEW w, NEW v, NEW s, NEW r, NEW i \in Nat \ {0}, FrameOK(w, s, i),
         \A j \in 1..i : r[j] = s[j],
         s[i].at # "askall" => v[s[i].t] = w[s[i].t],
         i = Len(s) => i = Len(r) \/ (s[i].at # "run" /\
            (s[i].at = "menudone" => w[s[i].t].life = "open" \/ ClosedItself(w[s[i].t])))
  PROVE  FrameOK(v, r, i)
<1>1. LoopsUpTo(r, i) = LoopsUpTo(s, i)
  BY LoopsAgree
<1>2. r[i] = s[i] /\ r[1] = s[1]
  OBVIOUS
<1>3. CASE s[i].at = "askall"
  BY <1>2, <1>3 DEF FrameOK, Chain, Telling
<1>4. CASE s[i].at # "askall"
  BY <1>1, <1>2, <1>4 DEF FrameOK, Chain, Telling
<1> QED BY <1>3, <1>4

\* A return.
LEMMA PopOK ==
  ASSUME NEW w, stack \in Seq(Handlers), stack # <<>>, FramesOK(w, stack)
  PROVE  FramesOK(w, Below) /\ Quiet(w, Below)
<1> DEFINE b == Below
<1>1. /\ Len(stack) \in Nat \ {0} /\ Len(b) = Len(stack) - 1
      /\ DOMAIN stack = 1..Len(stack) /\ DOMAIN b = 1..(Len(stack) - 1)
      /\ \A i \in 1..(Len(stack) - 1) : b[i] = stack[i]
  BY PopShape
<1> HIDE DEF b
<1>2. Quiet(w, b)
  <2> SUFFICES ASSUME NEW i \in DOMAIN b
               PROVE  /\ b[i].at # "run"
                      /\ b[i].at = "menudone" => w[b[i].t].life = "open" \/ ClosedItself(w[b[i].t])
    BY DEF Quiet
  <2>1. FrameOK(w, stack, i) /\ i # Len(stack) /\ b[i] = stack[i]
    BY <1>1 DEF FramesOK
  <2> QED BY <2>1 DEF FrameOK
<1>3. ASSUME NEW i \in DOMAIN b
      PROVE  FrameOK(w, b, i)
  <2>1. /\ i \in Nat \ {0} /\ FrameOK(w, stack, i) /\ i # Len(stack)
        /\ \A j \in 1..i : b[j] = stack[j]
    BY <1>1 DEF FramesOK
  <2> QED BY <2>1, FrameStays
<1>4. PairsOK(b)
  BY <1>1 DEF FramesOK, PairsOK
<1> QED BY <1>2, <1>3, <1>4 DEF FramesOK, b

\* Two handlers of one window that may be on the stack together.
Together(f, g) ==
  /\ ~(Chain(f) /\ Chain(g)) /\ ~(f.at = "noconn" /\ g.at = "noconn")
  /\ ~(f.at = "ask" /\ g.at = "fatal") /\ ~(f.at = "fatal" /\ g.at = "ask")

\* A call.
LEMMA PushOK ==
  ASSUME NEW w, NEW b \in Seq(Handlers), NEW f \in Handlers, FramesOK(w, b), Quiet(w, b),
         FrameOK(w, Append(b, f), Len(b) + 1),
         \A i \in DOMAIN b : b[i].t = f.t => Together(b[i], f)
  PROVE  FramesOK(w, Append(b, f))
<1> DEFINE s == Append(b, f)
<1>1. /\ Len(s) = Len(b) + 1 /\ Len(b) \in Nat
      /\ DOMAIN b = 1..Len(b) /\ DOMAIN s = 1..(Len(b) + 1)
      /\ \A i \in 1..Len(b) : s[i] = b[i]
      /\ s[Len(b) + 1] = f
  BY PushShape
<1>2. FrameOK(w, s, Len(b) + 1)
  OBVIOUS
<1> HIDE DEF s
<1>3. ASSUME NEW i \in 1..Len(b)
      PROVE  FrameOK(w, s, i)
  <2>1. i \in Nat \ {0} /\ FrameOK(w, b, i) /\ \A j \in 1..i : s[j] = b[j]
    BY <1>1 DEF FramesOK
  <2>2. b[i].at # "run" /\ (b[i].at = "menudone" => w[b[i].t].life = "open" \/ ClosedItself(w[b[i].t]))
    BY <1>1 DEF Quiet
  <2> QED BY <2>1, <2>2, FrameStays
<1>4. \A i \in DOMAIN s : FrameOK(w, s, i)
  BY <1>1, <1>2, <1>3
<1>5. PairsOK(s)
  <2>1. \A i, j \in DOMAIN b : i # j /\ b[i].t = b[j].t => Together(b[i], b[j])
    BY DEF FramesOK, PairsOK, Together
  <2>2. \A i, j \in DOMAIN s : i # j /\ s[i].t = s[j].t => Together(s[i], s[j])
    BY <1>1, <2>1 DEF Together
  <2> QED BY <2>2 DEF PairsOK, Together
<1> QED BY <1>4, <1>5 DEF FramesOK, s

\* One window changes.
LEMMA ChangeOK ==
  ASSUME NEW w, NEW v, NEW b \in Seq(Handlers), FramesOK(w, b), NEW t \in Terms,
         \A u \in Terms : u # t => v[u] = w[u],
         \A i \in DOMAIN b : b[i].at # "askall" /\ b[i].t = t /\ FrameOK(w, b, i) => FrameOK(v, b, i)
  PROVE  FramesOK(v, b)
<1>1. DOMAIN b = 1..Len(b) /\ Len(b) \in Nat
  OBVIOUS
<1>2. ASSUME NEW i \in DOMAIN b
      PROVE  FrameOK(v, b, i)
  <2>1. i \in Nat \ {0} /\ FrameOK(w, b, i)
    BY <1>1 DEF FramesOK
  <2>2. CASE b[i].at # "askall" /\ b[i].t = t
    BY <2>1, <2>2
  <2>3. CASE b[i].at = "askall" \/ b[i].t # t
    <3>1. b[i].at # "askall" => b[i].t \in Terms
      BY <2>1 DEF FrameOK
    <3> QED BY <2>1, <2>3, <3>1, FrameStays
  <2> QED BY <2>2, <2>3
<1> QED BY <1>2 DEF FramesOK

-----------------------------------------------------------------------------
(* A window that is left alone.                                            *)

LEMMA WindowStays ==
  ASSUME NEW w, NEW v, NEW s, NEW r, NEW u, WindowOK(w, s, u), v[u] = w[u],
         \A i \in DOMAIN s : s[i].t = u /\ (Telling(s[i]) \/ s[i].at = "exit") =>
            \E j \in DOMAIN r : r[j].t = u /\ (Telling(r[j]) \/ r[j].at = "exit")
  PROVE  WindowOK(v, r, u)
  BY DEF WindowOK

LEMMA WindowPush ==
  ASSUME NEW w, NEW v, NEW b \in Seq(Handlers), NEW f \in Handlers, NEW u,
         WindowOK(w, b, u), v[u] = w[u]
  PROVE  WindowOK(v, Append(b, f), u)
<1>1. \A i \in DOMAIN b : i \in DOMAIN Append(b, f) /\ Append(b, f)[i] = b[i]
  BY PushShape
<1>2. ASSUME NEW i \in DOMAIN b, b[i].t = u, Telling(b[i]) \/ b[i].at = "exit"
      PROVE  \E j \in DOMAIN Append(b, f) : /\ Append(b, f)[j].t = u
                                            /\ Telling(Append(b, f)[j]) \/ Append(b, f)[j].at = "exit"
  BY <1>1, <1>2
<1> QED BY <1>2, WindowStays, Zenon

LEMMA WindowPop ==
  ASSUME NEW w, NEW v, stack \in Seq(Handlers), stack # <<>>, NEW u,
         WindowOK(w, stack, u), v[u] = w[u],
         Top.t # u \/ ~(Telling(Top) \/ Top.at = "exit")
  PROVE  WindowOK(v, Below, u)
<1>1. \A i \in DOMAIN stack : stack[i] = Top \/ (i \in DOMAIN Below /\ Below[i] = stack[i])
  BY PopShape
<1> QED BY <1>1, WindowStays

-----------------------------------------------------------------------------
(* Steps that leave the program running, put together.                     *)

\* What SettingsOK says of the handlers s.
SettingsFrames(s, sh) ==
  \A i \in DOMAIN s : /\ s[i].at \in {"ask", "askall"} => sh = NoSettings
                      /\ s[i].then = <<"compactclose">> => i = 1 /\ sh.what = "compact"
                      /\ s[i].then = <<"settingsclose">> => i = 1 /\ sh.what = "new"

LEMMA Running ==
  ASSUME SessionInv, fault = NoFault
  PROVE  /\ TypeOK /\ WindowsOK(win, stack) /\ FramesOK(win, stack) /\ SettingsOK
         /\ SettingsFrames(stack, shown)
  BY DEF SessionInv, HandlersKeepTheirWindow, WindowsOK, FramesOK, SettingsOK, SettingsFrames

LEMMA StillRunning ==
  ASSUME TypeOK', fault' = NoFault, WindowsOK(win', stack'), FramesOK(win', stack'), SettingsOK'
  PROVE  SessionInv'
<1>1. HandlersKeepTheirWindow' /\ NeverClosingIsSafe'
  BY DEF HandlersKeepTheirWindow, NeverClosingIsSafe, NoFault
<1>2. LossToldOnce'
  BY DEF LossToldOnce, WindowsOK, WindowOK
<1> QED BY <1>1, <1>2 DEF SessionInv, WindowsOK, FramesOK

\* Steps that leave the settings windows alone.
LEMMA SameSettings ==
  ASSUME SettingsOK, UNCHANGED settingsVars, fault = NoFault, SettingsFrames(stack', shown),
         shown.what = "change" =>
            win'[shown.t].life = "open" \/ ClosedItself(win'[shown.t])
  PROVE  SettingsOK'
<1>1. shown' = shown /\ settingsWindow' = settingsWindow /\ compactSettingsWindow' = compactSettingsWindow
  BY DEF settingsVars
<1>2. SettingsPointersLive'
  BY <1>1 DEF SettingsOK, SettingsPointersLive
<1> QED BY <1>1, <1>2 DEF SettingsOK, SettingsFrames

LEMMA SettingsPop ==
  ASSUME NEW sh, stack \in Seq(Handlers), stack # <<>>, SettingsFrames(stack, sh)
  PROVE  SettingsFrames(Below, sh)
  BY PopShape DEF SettingsFrames

LEMMA SettingsPush ==
  ASSUME NEW sh, NEW b \in Seq(Handlers), NEW f \in Handlers, SettingsFrames(b, sh),
         f.at \in {"ask", "askall"} => sh = NoSettings,
         f.then = <<"compactclose">> => b = <<>> /\ sh.what = "compact",
         f.then = <<"settingsclose">> => b = <<>> /\ sh.what = "new"
  PROVE  SettingsFrames(Append(b, f), sh)
<1>1. b = <<>> => Len(b) = 0
  OBVIOUS
<1> QED BY <1>1, PushShape DEF SettingsFrames

\* A step that meets a window that is gone.
LEMMA Failing ==
  ASSUME SessionInv, fault = NoFault, NEW what, NEW t \in Terms, Fail(what, t),
         what \notin {"none", "ask", "fatal", "exit", "noconn"},
         what \in {"menu", "settings"} => win[t].closeOnExit # "never"
  PROVE  SessionInv'
<1>1. /\ fault' = [what |-> what, t |-> t] /\ win' = win /\ stack' = stack /\ shown' = shown
      /\ settingsWindow' = settingsWindow /\ compactSettingsWindow' = compactSettingsWindow
      /\ mainOpen' = mainOpen
  BY DEF Fail, settingsVars
<1>2. fault'.what = what /\ fault'.t = t /\ fault' # NoFault
  BY <1>1 DEF NoFault
<1>3. HandlersKeepTheirWindow'
  BY <1>1, <1>2 DEF SessionInv, HandlersKeepTheirWindow, TypeOK
<1>4. NeverClosingIsSafe' /\ LossToldOnce'
  BY <1>1, <1>2 DEF SessionInv, NeverClosingIsSafe, LossToldOnce
<1> QED BY <1>2, <1>3, <1>4 DEF SessionInv

-----------------------------------------------------------------------------
(* Handlers and windows.                                                   *)

\* What is left to call after a callback of the end of a connection.
LEMMA NotificationTails ==
  /\ <<>> \notin Notifications /\ <<"compactclose">> \notin Notifications
  /\ <<"settingsclose">> \notin Notifications /\ <<"restart">> \notin Notifications
  /\ <<"exit">> \in Notifications
  /\ \A c \in Notifications :
       /\ c # <<>> /\ Head(c) \in {"fatal", "exit", "exitmax"}
       /\ Tail(c) \in {<<>>} \cup Notifications /\ (Head(c) = "exit" => Tail(c) = <<>>)
       /\ Head(c) = "exitmax" => Tail(c) # <<>>
<1>1. \A x : <<x>> # <<>> /\ Head(<<x>>) = x /\ Tail(<<x>>) = <<>>
  OBVIOUS
<1>2. \A x, y : <<x, y>> # <<>> /\ Head(<<x, y>>) = x /\ Tail(<<x, y>>) = <<y>>
  OBVIOUS
<1>3. \A x, y, z : <<x>> # <<y, z>>
  OBVIOUS
<1> QED BY <1>1, <1>2, <1>3 DEF Notifications

LEMMA HandlerFields ==
  ASSUME NEW at \in Boxes \cup {"run", "menudone"}, NEW t \in Terms,
         NEW then \in {<<>>} \cup Notifications \cup {<<c>> : c \in Calls}
  PROVE  /\ Frame(at, t, then) \in Handlers
         /\ Frame(at, t, then).at = at /\ Frame(at, t, then).t = t /\ Frame(at, t, then).then = then
  BY DEF Frame, Handlers

\* The window that closeTerminal leaves.
LEMMA CloseFields ==
  ASSUME NEW w \in Windows, NEW s \in Seq(Handlers), Len(s) <= MaxStack
  PROVE  /\ Close(w, s) \in Windows /\ Close(w, s).life = "closed" /\ Close(w, s).conn = w.conn
         /\ Close(w, s).closeOnExit = w.closeOnExit /\ Close(w, s).reports = w.reports
         /\ Close(w, s).userClosingTab = w.userClosingTab
         /\ Close(w, s).isSockDisconnected = w.isSockDisconnected
         /\ Close(w, s).level <= LoopsUpTo(s, Len(s))
              \/ (w.life = "closed" /\ Close(w, s).level = w.level)
<1>1. Depth(s) = LoopsUpTo(s, Len(s)) /\ Depth(s) \in 0..MaxStack
  BY DepthIsLoops, SessionAssumption
<1> DEFINE n == IF w.life = "closed" /\ w.level > Depth(s) THEN w.level ELSE Depth(s)
<1>2. n \in 0..MaxStack /\ (n <= LoopsUpTo(s, Len(s)) \/ (w.life = "closed" /\ n = w.level))
  BY <1>1 DEF Windows
<1>3. Close(w, s) = [w EXCEPT !.life = "closed", !.level = n]
  BY DEF Close
<1> HIDE DEF n
<1> QED BY <1>2, <1>3 DEF Windows

\* Windows before and after initTerminal.
LEMMA NewWindowFields ==
  /\ Unborn \in Windows /\ Unborn.conn = "none" /\ Unborn.reports = 0 /\ Unborn.life = "unborn"
  /\ \A p \in Policies :
       /\ NewWindow(p) \in Windows /\ NewWindow(p).conn = "none" /\ NewWindow(p).reports = 0
       /\ NewWindow(p).life = "new"
<1>1. 0 \in 0..MaxStack /\ "never" \in Policies
  BY SessionAssumption DEF Policies
<1>2. ASSUME NEW p \in Policies
      PROVE  /\ NewWindow(p) \in Windows /\ NewWindow(p).conn = "none"
             /\ NewWindow(p).reports = 0 /\ NewWindow(p).life = "new"
  BY <1>1 DEF NewWindow, Windows
<1>3. /\ [NewWindow("never") EXCEPT !.life = "unborn"] \in Windows
      /\ [NewWindow("never") EXCEPT !.life = "unborn"].conn = "none"
      /\ [NewWindow("never") EXCEPT !.life = "unborn"].reports = 0
      /\ [NewWindow("never") EXCEPT !.life = "unborn"].life = "unborn"
  BY <1>1, <1>2 DEF Windows
<1> QED BY <1>2, <1>3 DEF Unborn

\* The topmost handler goes on: it is called again, or opens or leaves a box.
LEMMA GoesOn ==
  ASSUME SessionInv, fault = NoFault, stack # <<>>, NEW t \in Terms, NEW v \in Windows,
         NEW f \in Handlers, f.t = t, Top.t = t,
         win' = [win EXCEPT ![t] = v], stack' = Append(Below, f),
         UNCHANGED <<settingsVars, mainOpen, fault>>,
         \A i \in DOMAIN Below :
            /\ Below[i].at # "askall" /\ Below[i].t = t /\ FrameOK(win, Below, i)
            /\ Together(Below[i], Top)
            => FrameOK(win', Below, i) /\ Together(Below[i], f),
         win[t].life = "open" \/ ClosedItself(win[t]) => v.life = "open" \/ ClosedItself(v),
         FrameOK(win', stack', Len(stack)), WindowOK(win', stack', t),
         f.at \notin {"ask", "askall"},
         f.then \in {<<"compactclose">>, <<"settingsclose">>} => f.then = Top.then
  PROVE  SessionInv'
<1> DEFINE b == Below
<1>1. /\ TypeOK /\ WindowsOK(win, stack) /\ FramesOK(win, stack) /\ SettingsOK
      /\ SettingsFrames(stack, shown)
  BY Running
<1>2. /\ b \in Seq(Handlers) /\ Len(stack) \in Nat \ {0} /\ Len(b) = Len(stack) - 1
      /\ DOMAIN stack = 1..Len(stack) /\ DOMAIN b = 1..(Len(stack) - 1)
      /\ \A i \in 1..(Len(stack) - 1) : b[i] = stack[i]
      /\ Top = stack[Len(stack)] /\ stack \in Seq(Handlers) /\ Len(stack) <= MaxStack
  BY <1>1, PopShape DEF TypeOK
<1>3. FramesOK(win, b) /\ Quiet(win, b) /\ SettingsFrames(b, shown)
  BY <1>1, <1>2, PopOK, SettingsPop
<1>4. \A i \in DOMAIN b :
        /\ b[i].at # "askall" /\ b[i].t = t /\ FrameOK(win, b, i) /\ Together(b[i], Top)
        => FrameOK(win', b, i) /\ Together(b[i], f)
  OBVIOUS
<1>5. stack' = Append(b, f) /\ FrameOK(win', Append(b, f), Len(b) + 1)
  BY <1>2
<1>6. /\ win \in [Terms -> Windows] /\ win' \in [Terms -> Windows] /\ win'[t] = v
      /\ \A u \in Terms : u # t => win'[u] = win[u]
  BY <1>1 DEF TypeOK
<1>7. ASSUME NEW u \in Terms, u # t
      PROVE  WindowOK(win', stack', u)
  <2>1. WindowOK(win', Below, u)
    BY <1>1, <1>2, <1>6, <1>7, WindowPop DEF WindowsOK
  <2> QED BY <1>2, <2>1, WindowPush
<1> HIDE DEF b
<1>8. \A i \in DOMAIN b : b[i].t = t => Together(b[i], Top)
  <2> SUFFICES ASSUME NEW i \in DOMAIN b, b[i].t = t
               PROVE  Together(b[i], Top)
    OBVIOUS
  <2>1. /\ i \in DOMAIN stack /\ Len(stack) \in DOMAIN stack /\ i # Len(stack)
        /\ b[i] = stack[i] /\ stack[i].t = stack[Len(stack)].t
    BY <1>2
  <2> QED BY <1>1, <1>2, <2>1 DEF FramesOK, PairsOK, Together
<1>9. FramesOK(win', b)
  <2>1. \A i \in DOMAIN b : b[i].at # "askall" /\ b[i].t = t /\ FrameOK(win, b, i) => FrameOK(win', b, i)
    BY <1>4, <1>8
  <2>2. b \in Seq(Handlers) /\ FramesOK(win, b) /\ \A u \in Terms : u # t => win'[u] = win[u]
    BY <1>2, <1>3, <1>6
  <2> DEFINE w == win
             x == win'
  <2>3. /\ FramesOK(w, b) /\ (\A u \in Terms : u # t => x[u] = w[u])
        /\ \A i \in DOMAIN b : b[i].at # "askall" /\ b[i].t = t /\ FrameOK(w, b, i) => FrameOK(x, b, i)
    BY <2>1, <2>2
  <2> HIDE DEF w, x
  <2>4. FramesOK(x, b)
    BY <2>2, <2>3, ChangeOK
  <2> QED BY <2>4 DEF x
<1>10. Quiet(win', b)
  <2> SUFFICES ASSUME NEW i \in DOMAIN b
               PROVE  /\ b[i].at # "run"
                      /\ b[i].at = "menudone" => \/ win'[b[i].t].life = "open"
                                                 \/ ClosedItself(win'[b[i].t])
    BY DEF Quiet
  <2>1. FrameOK(win, b, i)
    BY <1>3 DEF FramesOK
  <2>2. b[i].at = "menudone" => b[i].t \in Terms
    BY <2>1 DEF FrameOK
  <2> QED BY <1>3, <1>6, <2>2 DEF Quiet
<1>11. FramesOK(win', stack')
  <2>1. \A i \in DOMAIN b : b[i].t = f.t => Together(b[i], f)
    <3> SUFFICES ASSUME NEW i \in DOMAIN b, b[i].t = t
                 PROVE  Together(b[i], f)
      OBVIOUS
    <3>1. CASE b[i].at = "askall"
      BY <3>1 DEF Together, Chain, Telling
    <3>2. CASE b[i].at # "askall"
      BY <1>3, <1>4, <1>8, <3>2 DEF FramesOK
    <3> QED BY <3>1, <3>2
  <2> QED BY <1>2, <1>5, <1>9, <1>10, <2>1, PushOK
<1>12. WindowsOK(win', stack')
  BY <1>7 DEF WindowsOK
<1>13. TypeOK'
  BY <1>1, <1>2, <1>5, <1>6, PushShape DEF TypeOK, settingsVars
<1>14. SettingsFrames(stack', shown)
  <2>1. f.then = <<"compactclose">> => Len(stack) = 1 /\ shown.what = "compact"
    BY <1>1, <1>2 DEF SettingsFrames
  <2>2. f.then = <<"settingsclose">> => Len(stack) = 1 /\ shown.what = "new"
    BY <1>1, <1>2 DEF SettingsFrames
  <2>3. Len(stack) = 1 => b = <<>>
    BY <1>2
  <2> QED BY <1>2, <1>3, <1>5, <2>1, <2>2, <2>3, SettingsPush
<1>15. SettingsOK'
  <2>1. shown.what = "change" => win'[shown.t].life = "open" \/ ClosedItself(win'[shown.t])
    BY <1>1, <1>6 DEF SettingsOK
  <2> QED BY <1>1, <1>14, <2>1, SameSettings
<1> QED BY <1>11, <1>12, <1>13, <1>15, StillRunning

\* The event loops up to the topmost handler.
LEMMA TopLoops ==
  ASSUME stack \in Seq(Handlers), stack # <<>>
  PROVE  /\ Len(stack) \in DOMAIN stack /\ stack[Len(stack)] = Top
         /\ Len(Below) = Len(stack) - 1 /\ LoopsUpTo(Below, Len(Below)) \in Nat
         /\ LoopsUpTo(stack, Len(stack)) =
              LoopsUpTo(Below, Len(Below)) + (IF Top.at \in Boxes THEN 1 ELSE 0)
<1> DEFINE b == Below
           n == Len(stack)
<1>1. /\ n \in Nat \ {0} /\ Len(b) = n - 1 /\ DOMAIN stack = 1..n
      /\ \A i \in 1..(n - 1) : b[i] = stack[i]
      /\ Top = stack[n]
  BY PopShape
<1> HIDE DEF b, n
<1>2. n - 1 \in Nat /\ (n - 1) + 1 = n
  BY <1>1
<1>3. /\ LoopsUpTo(b, n - 1) \in Nat
      /\ LoopsUpTo(stack, n) = LoopsUpTo(stack, n - 1) + (IF stack[n].at \in Boxes THEN 1 ELSE 0)
  BY <1>2, Loops
<1>4. LoopsUpTo(stack, n - 1) = LoopsUpTo(b, n - 1)
  BY <1>1, <1>2, LoopsAgree
<1> QED BY <1>1, <1>3, <1>4 DEF b, n

\* The event loops up to a handler that is called.
LEMMA PushLoops ==
  ASSUME NEW b \in Seq(Handlers), NEW f \in Handlers
  PROVE  LoopsUpTo(Append(b, f), Len(b) + 1) =
           LoopsUpTo(b, Len(b)) + (IF f.at \in Boxes THEN 1 ELSE 0)
<1> DEFINE s == Append(b, f)
<1>1. Len(b) \in Nat /\ s[Len(b) + 1] = f /\ \A i \in 1..Len(b) : s[i] = b[i]
  BY PushShape
<1> HIDE DEF s
<1>2. LoopsUpTo(s, Len(b) + 1) = LoopsUpTo(s, Len(b)) + (IF s[Len(b) + 1].at \in Boxes THEN 1 ELSE 0)
  BY <1>1, Loops
<1>3. LoopsUpTo(s, Len(b)) = LoopsUpTo(b, Len(b))
  BY <1>1, LoopsAgree
<1> QED BY <1>1, <1>2, <1>3 DEF s

\* The topmost handler before and after such a step.
LEMMA TopReplaced ==
  ASSUME stack \in Seq(Handlers), stack # <<>>, NEW f \in Handlers, stack' = Append(Below, f)
  PROVE  /\ Len(stack') = Len(stack) /\ Len(stack) \in DOMAIN stack' /\ stack'[Len(stack)] = f
         /\ LoopsUpTo(Below, Len(Below)) \in Nat
         /\ LoopsUpTo(stack', Len(stack)) =
              LoopsUpTo(Below, Len(Below)) + (IF f.at \in Boxes THEN 1 ELSE 0)
<1>1. Below \in Seq(Handlers) /\ Len(stack) \in Nat \ {0} /\ Len(Below) = Len(stack) - 1
  BY PopShape
<1>2. Len(stack') = Len(stack) /\ Len(stack) \in DOMAIN stack' /\ stack'[Len(stack)] = f
  BY <1>1, PushShape
<1>3. Len(Below) + 1 = Len(stack)
  BY <1>1
<1> QED BY <1>1, <1>2, <1>3, PushLoops, TopLoops

\* A handler that neither tells of its window's end nor waits in a box about a failed
\* start: what a step may do to its window.
LEMMA Bystander ==
  ASSUME NEW w, NEW v, NEW b, NEW i, FrameOK(w, b, i), ~Chain(b[i]),
         b[i].at \notin {"noconn", "askall"},
         b[i].at = "ask" => v[b[i].t].userClosingTab /\ v[b[i].t].life = "open",
         b[i].at \in {"menu", "menudone"} /\ (w[b[i].t].life = "open" \/ ClosedItself(w[b[i].t])) =>
            v[b[i].t].life = "open" \/ ClosedItself(v[b[i].t]),
         b[i].at = "menudone" /\ w[b[i].t].life = "closed" =>
            v[b[i].t].life = "closed" \/ ClosedItself(v[b[i].t])
  PROVE  FrameOK(v, b, i)
  BY DEF FrameOK, Chain, Telling

\* While a connection is up none of its window's handlers depend on it.
LEMMA Connection ==
  ASSUME NEW w, NEW v, NEW b, NEW i, NEW t, FrameOK(w, b, i), b[i].t = t, b[i].at # "askall",
         w[t].conn \in {"kex", "up"}, v[t].life = w[t].life,
         v[t].userClosingTab = w[t].userClosingTab, v[t].closeOnExit = w[t].closeOnExit
  PROVE  ~Chain(b[i]) /\ FrameOK(v, b, i)
<1>1. ~Chain(b[i]) /\ b[i].at # "noconn"
  BY DEF FrameOK
<1>2. b[i].at = "ask" => v[t].userClosingTab /\ v[t].life = "open"
  BY DEF FrameOK
<1>3. (w[t].life = "open" \/ ClosedItself(w[t])) = (v[t].life = "open" \/ ClosedItself(v[t]))
  BY DEF ClosedItself
<1> QED BY <1>1, <1>2, <1>3, Bystander

\* The calls that tell of the end of a connection, and the boxes that they open.
LEMMA TellingOK ==
  ASSUME SessionInv, Waits("run"), Top.then \in Notifications, NEW t, t = Top.t,
         \/ qt_connection_fatal(t) /\ Head(Top.then) = "fatal"
         \/ qt_notify_remote_exit(t, Head(Top.then)) /\ Head(Top.then) \in {"exit", "exitmax"}
  PROVE  SessionInv'
<1> DEFINE n == Len(stack)
           rest == Tail(Top.then)
           L == LoopsUpTo(Below, Len(Below))
<1>1. /\ fault = NoFault /\ stack # <<>> /\ Top.at = "run"
      /\ TypeOK /\ FramesOK(win, stack) /\ stack \in Seq(Handlers) /\ Len(stack) <= MaxStack
  BY Running DEF Waits, TypeOK
<1>2. n \in DOMAIN stack /\ stack[n] = Top /\ Below \in Seq(Handlers) /\ Len(Below) <= MaxStack
  BY <1>1, PopShape, SessionAssumption
<1>3. FrameOK(win, stack, n)
  BY <1>1, <1>2 DEF FramesOK
<1>4. Telling(Top) /\ Chain(Top)
  BY <1>1 DEF Telling, Chain
<1>5. /\ t \in Terms /\ win[t].conn = "down" /\ win[t].life \in {"open", "closed"}
      /\ win[t].reports = 0 \/ win[t].isSockDisconnected
      /\ win[t].life = "closed" => Down(win[t]) \/ win[t].level <= LoopsUpTo(stack, n)
  BY <1>1, <1>2, <1>3, <1>4 DEF FrameOK
<1>6. win[t] \in Windows /\ win[t].reports \in Nat /\ win[t].level \in Nat
  BY <1>1, <1>5 DEF TypeOK, Windows
<1>7. /\ rest \in {<<>>} \cup Notifications /\ (Head(Top.then) = "exit" => rest = <<>>)
      /\ Head(Top.then) = "exitmax" => rest # <<>>
  BY NotificationTails
<1> HIDE DEF n, rest, L
<1>8. ASSUME NEW v \in Windows, NEW at \in {"run", "fatal", "exit"}, Proceed(t, v, at),
             v.conn = "down" /\ v.life \in {"open", "closed"} /\ v.reports <= 1,
             v.userClosingTab = win[t].userClosingTab,
             win[t].life = "closed" => v.life = "closed",
             v.life = win[t].life \/ (~win[t].userClosingTab /\ v.closeOnExit # "never"),
             v.closeOnExit = win[t].closeOnExit,
             at = "run" /\ rest # <<>> =>
               /\ v.reports = 0 \/ v.isSockDisconnected
               /\ v.life = "closed" => Down(v) \/ v.level <= L,
             at = "fatal" => v.isSockDisconnected /\ ~v.userClosingTab,
             at = "exit" => rest = <<>>,
             at # "run" /\ v.life = "closed" => v.level <= L,
             v.life = "open" => Down(v) \/ at = "exit" \/ (at = "run" /\ rest # <<>>)
      PROVE  SessionInv'
  <2> DEFINE f == Frame(at, t, rest)
  <2>1. /\ win' = [win EXCEPT ![t] = v] /\ stack' = Append(Below, f)
        /\ UNCHANGED <<settingsVars, mainOpen, fault>>
    BY <1>8 DEF Proceed, rest
  <2>2. f \in Handlers /\ f.at = at /\ f.t = t /\ f.then = rest
    BY <1>5, <1>7, HandlerFields DEF Boxes
  <2>3. win'[t] = v
    BY <1>1, <1>5, <2>1 DEF TypeOK
  <2> HIDE DEF f
  <2>4. /\ Len(stack') = n /\ n \in DOMAIN stack' /\ stack'[n] = f /\ L \in Nat
        /\ LoopsUpTo(stack', n) = L + (IF at \in Boxes THEN 1 ELSE 0)
    BY <1>1, <2>1, <2>2, TopReplaced DEF n, L
  <2>5. ASSUME NEW i \in DOMAIN Below, Below[i].at # "askall", Below[i].t = t,
               FrameOK(win, Below, i), Together(Below[i], Top)
        PROVE  FrameOK(win', Below, i) /\ Together(Below[i], f)
    <3>1. ~Chain(Below[i]) /\ Below[i].at # "noconn"
      BY <1>4, <1>5, <2>5 DEF Together, FrameOK
    <3>2. Below[i].at = "ask" => win[t].userClosingTab /\ win[t].life = "open"
      BY <2>5 DEF FrameOK
    <3>3. Below[i].at = "ask" => v.userClosingTab /\ v.life = "open" /\ at # "fatal"
      BY <1>8, <3>2
    <3>4. win[t].life = "open" \/ ClosedItself(win[t]) => v.life = "open" \/ ClosedItself(v)
      BY <1>8 DEF ClosedItself
    <3>5. FrameOK(win', Below, i)
      BY <1>8, <2>3, <2>5, <3>1, <3>3, <3>4, Bystander
    <3>6. Together(Below[i], f)
      BY <2>2, <3>1, <3>3 DEF Together, Chain
    <3> QED BY <3>5, <3>6
  <2>6. FrameOK(win', stack', n)
    <3>1. rest # <<"compactclose">> /\ (Telling(f) => at = "run" /\ rest # <<>>)
      BY <1>7, <2>2, NotificationTails DEF Telling
    <3>2. (Telling(f) \/ at \in {"fatal", "exit"}) = Chain(f)
      BY <2>2 DEF Chain
    <3>3. at \in {"fatal", "exit"} => at \in Boxes
      BY DEF Boxes
    <3>4. v.level \in Nat
      BY DEF Windows
    <3>5. at \in {"fatal", "exit"} /\ v.life = "closed" => v.level < LoopsUpTo(stack', n)
      BY <1>8, <2>4, <3>3, <3>4
    <3>6. Telling(f) => /\ v.reports = 0 \/ v.isSockDisconnected
                        /\ v.life = "closed" => Down(v) \/ v.level <= LoopsUpTo(stack', n)
      BY <1>8, <2>4, <3>1, <3>4 DEF Boxes
    <3> QED BY <1>5, <1>7, <1>8, <2>2, <2>3, <2>4, <3>2, <3>5, <3>6 DEF FrameOK
  <2>7. WindowOK(win', stack', t)
    <3>1. v.life = "open" => Down(v) \/ Telling(f) \/ f.at = "exit"
      BY <1>7, <1>8, <2>2 DEF Telling
    <3> QED BY <1>8, <2>2, <2>3, <2>4, <3>1 DEF WindowOK
  <2>8. win[t].life = "open" \/ ClosedItself(win[t]) => v.life = "open" \/ ClosedItself(v)
    BY <1>8 DEF ClosedItself
  <2>9. /\ f.at \notin {"ask", "askall"}
        /\ f.then \notin {<<"compactclose">>, <<"settingsclose">>}
    BY <1>7, <2>2, NotificationTails
  <2> QED BY <1>1, <1>5, <2>1, <2>2, <2>5, <2>6, <2>7, <2>8, <2>9, GoesOn DEF n
<1>9. LoopsUpTo(stack, n) = L /\ L \in Nat /\ win[t].reports <= 1
  BY <1>1, <1>5, TopLoops DEF n, L, Boxes, SessionInv, LossToldOnce
<1>10. CASE Ignored(t) /\ Proceed(t, win[t], "run")
  <2>1. Down(win[t])
    BY <1>10 DEF Ignored, Down
  <2> QED BY <1>5, <1>6, <1>8, <1>9, <1>10, <2>1
<1>11. CASE /\ ~Ignored(t)
            /\ Proceed(t, [win[t] EXCEPT !.isSockDisconnected = TRUE, !.reports = @ + 1], "fatal")
  <2> DEFINE v == [win[t] EXCEPT !.isSockDisconnected = TRUE, !.reports = @ + 1]
  <2>1. ~win[t].userClosingTab /\ ~win[t].isSockDisconnected /\ ~Down(win[t])
    BY <1>11 DEF Ignored, Down
  <2>2. /\ v \in Windows /\ v.conn = "down" /\ v.life = win[t].life /\ v.reports = 1
        /\ v.userClosingTab = win[t].userClosingTab /\ v.isSockDisconnected
        /\ v.closeOnExit = win[t].closeOnExit /\ v.level = win[t].level
    <3>1. win[t].reports = 0
      BY <1>5, <2>1
    <3>2. v = [win[t] EXCEPT !.isSockDisconnected = TRUE, !.reports = 1]
      BY <3>1
    <3> HIDE DEF v
    <3> QED BY <1>5, <1>6, <3>2 DEF Windows
  <2>3. Down(v) /\ Proceed(t, v, "fatal")
    BY <1>11, <2>2 DEF Down
  <2> HIDE DEF v
  <2> QED BY <1>5, <1>8, <1>9, <2>1, <2>2, <2>3
<1>12. CASE /\ ~Ignored(t) /\ win[t].closeOnExit # "never"
            /\ Proceed(t, Close(win[t], Below), "run")
  <2> DEFINE v == Close(win[t], Below)
  <2>1. ~win[t].userClosingTab /\ ~win[t].isSockDisconnected /\ ~Down(win[t])
    BY <1>12 DEF Ignored, Down
  <2>2. /\ v \in Windows /\ v.conn = "down" /\ v.life = "closed" /\ v.reports = win[t].reports
        /\ v.userClosingTab = win[t].userClosingTab
        /\ v.isSockDisconnected = win[t].isSockDisconnected
        /\ v.closeOnExit = win[t].closeOnExit
        /\ v.level <= L \/ (win[t].life = "closed" /\ v.level = win[t].level)
    BY <1>2, <1>5, <1>6, CloseFields DEF L
  <2>3. v.level <= L
    BY <1>5, <1>9, <2>1, <2>2
  <2> HIDE DEF v
  <2>4. Proceed(t, v, "run")
    BY <1>12 DEF v
  <2> QED BY <1>5, <1>8, <1>9, <1>12, <2>1, <2>2, <2>3, <2>4
<1>13. CASE /\ ~Ignored(t) /\ Head(Top.then) = "exit"
            /\ Proceed(t, [win[t] EXCEPT !.reports = @ + 1], "exit")
  <2> DEFINE v == [win[t] EXCEPT !.reports = @ + 1]
  <2>1. ~win[t].userClosingTab /\ ~win[t].isSockDisconnected /\ ~Down(win[t])
    BY <1>13 DEF Ignored, Down
  <2>2. /\ v \in Windows /\ v.conn = "down" /\ v.life = win[t].life /\ v.reports = 1
        /\ v.userClosingTab = win[t].userClosingTab
        /\ v.closeOnExit = win[t].closeOnExit /\ v.level = win[t].level
    BY <1>5, <1>6, <2>1 DEF Windows
  <2>3. Proceed(t, v, "exit")
    BY <1>13
  <2> HIDE DEF v
  <2> QED BY <1>5, <1>7, <1>8, <1>9, <1>13, <2>1, <2>2, <2>3
<1>14. CASE ~Ignored(t) /\ Head(Top.then) = "exitmax" /\ Proceed(t, win[t], "run")
  BY <1>5, <1>6, <1>7, <1>8, <1>9, <1>14
<1> QED BY <1>10, <1>11, <1>12, <1>13, <1>14 DEF qt_connection_fatal, qt_notify_remote_exit

\* The topmost handler returns.
LEMMA ReturnsOK ==
  ASSUME SessionInv, fault = NoFault, stack # <<>>, NEW t \in Terms, NEW v \in Windows, Top.t = t,
         win' = [win EXCEPT ![t] = v], stack' = Below,
         mainOpen' = mainOpen, fault' = fault,
         \A i \in DOMAIN Below :
            /\ Below[i].at # "askall" /\ Below[i].t = t /\ FrameOK(win, Below, i)
            /\ Together(Below[i], Top)
            => FrameOK(win', Below, i),
         WindowOK(win', Below, t), SettingsOK',
         /\ shown' \in [what : {"none", "compact", "new", "change"}, t : Terms \cup {NULL}]
         /\ settingsWindow' \in {"null", "new", "change"} /\ compactSettingsWindow' \in BOOLEAN
  PROVE  SessionInv'
<1> DEFINE b == Below
           w == win
           x == win'
<1>1. /\ TypeOK /\ WindowsOK(win, stack) /\ FramesOK(win, stack) /\ stack \in Seq(Handlers)
      /\ Len(stack) <= MaxStack
  BY Running DEF TypeOK
<1>2. /\ b \in Seq(Handlers) /\ Len(stack) \in Nat \ {0} /\ Len(b) = Len(stack) - 1
      /\ DOMAIN stack = 1..Len(stack) /\ DOMAIN b = 1..(Len(stack) - 1)
      /\ \A i \in 1..(Len(stack) - 1) : b[i] = stack[i]
      /\ Top = stack[Len(stack)]
  BY <1>1, PopShape
<1>3. /\ w \in [Terms -> Windows] /\ x \in [Terms -> Windows] /\ x[t] = v
      /\ \A u \in Terms : u # t => x[u] = w[u]
  BY <1>1 DEF TypeOK
<1>4. FramesOK(w, b)
  BY <1>1, PopOK
<1>5. \A i \in DOMAIN b :
        /\ b[i].at # "askall" /\ b[i].t = t /\ FrameOK(w, b, i) /\ Together(b[i], Top)
        => FrameOK(x, b, i)
  OBVIOUS
<1>6. WindowsOK(x, b)
  <2> SUFFICES ASSUME NEW u \in Terms
               PROVE  WindowOK(win', Below, u)
    BY DEF WindowsOK
  <2>1. CASE u = t
    BY <2>1
  <2>2. CASE u # t
    BY <1>1, <1>3, <2>2, WindowPop DEF WindowsOK
  <2> QED BY <2>1, <2>2
<1> HIDE DEF b, w, x
<1>7. \A i \in DOMAIN b : b[i].t = t => Together(b[i], Top)
  <2> SUFFICES ASSUME NEW i \in DOMAIN b, b[i].t = t
               PROVE  Together(b[i], Top)
    OBVIOUS
  <2>1. /\ i \in DOMAIN stack /\ Len(stack) \in DOMAIN stack /\ i # Len(stack)
        /\ b[i] = stack[i] /\ stack[i].t = stack[Len(stack)].t
    BY <1>2
  <2> QED BY <1>1, <1>2, <2>1 DEF FramesOK, PairsOK, Together
<1>8. FramesOK(x, b)
  <2>1. \A i \in DOMAIN b : b[i].at # "askall" /\ b[i].t = t /\ FrameOK(w, b, i) => FrameOK(x, b, i)
    BY <1>5, <1>7
  <2> QED BY <1>2, <1>3, <1>4, <2>1, ChangeOK
<1>9. FramesOK(win', stack') /\ WindowsOK(win', stack')
  BY <1>6, <1>8 DEF b, x
<1>10. stack' = b /\ Len(b) <= MaxStack /\ win' \in [Terms -> Windows]
  BY <1>1, <1>2, <1>3, SessionAssumption DEF b, x
<1>11. TypeOK'
  BY <1>1, <1>2, <1>10 DEF TypeOK
<1> QED BY <1>9, <1>11, StillRunning

\* A handler returns and leaves everything as it is.
LEMMA JustReturns ==
  ASSUME SessionInv, fault = NoFault, stack # <<>>, Top.t \in Terms,
         ~(Telling(Top) \/ Top.at = "exit"), stack' = Below,
         UNCHANGED <<win, settingsVars, mainOpen, fault>>
  PROVE  SessionInv'
<1> DEFINE t == Top.t
<1>1. /\ TypeOK /\ WindowsOK(win, stack) /\ FramesOK(win, stack) /\ stack \in Seq(Handlers)
      /\ SettingsOK /\ SettingsFrames(stack, shown)
  BY Running DEF TypeOK
<1>2. win[t] \in Windows /\ win' = [win EXCEPT ![t] = win[t]] /\ win' = win
  BY <1>1 DEF TypeOK
<1>3. WindowOK(win', Below, t)
  BY <1>1, <1>2, WindowPop DEF WindowsOK
<1>4. SettingsOK'
  <2>1. SettingsFrames(stack', shown)
    BY <1>1, SettingsPop
  <2>2. shown.what = "change" => win'[shown.t].life = "open" \/ ClosedItself(win'[shown.t])
    BY <1>1, <1>2 DEF SettingsOK
  <2> QED BY <1>1, <2>1, <2>2, SameSettings
<1>5. \A i \in DOMAIN Below : FrameOK(win, Below, i) => FrameOK(win', Below, i)
  BY <1>2
<1>6. /\ shown' \in [what : {"none", "compact", "new", "change"}, t : Terms \cup {NULL}]
      /\ settingsWindow' \in {"null", "new", "change"} /\ compactSettingsWindow' \in BOOLEAN
  BY <1>1 DEF TypeOK, settingsVars
<1> HIDE DEF t
<1>7. Top.t = t /\ t \in Terms
  BY DEF t
<1> QED BY <1>2, <1>3, <1>4, <1>5, <1>6, <1>7, ReturnsOK

\* The handler that is executing goes on.
LEMMA RunOK ==
  ASSUME SessionInv, Run
  PROVE  SessionInv'
<1> DEFINE n == Len(stack)
<1>1. Waits("run") /\ fault = NoFault /\ stack # <<>> /\ Top.at = "run"
  BY DEF Run, Waits
<1>2. /\ TypeOK /\ WindowsOK(win, stack) /\ FramesOK(win, stack) /\ stack \in Seq(Handlers)
      /\ SettingsOK /\ SettingsFrames(stack, shown)
  BY <1>1, Running DEF TypeOK
<1>3. n \in DOMAIN stack /\ stack[n] = Top /\ Len(Below) = n - 1 /\ Below \in Seq(Handlers)
  BY <1>1, <1>2, PopShape
<1>4. /\ Top.t \in Terms
      /\ Top.then \in {<<>>, <<"compactclose">>, <<"settingsclose">>} \cup Notifications
  BY <1>1, <1>2, <1>3 DEF FramesOK, FrameOK
<1>5. CASE Top.then = <<>>
  <2>1. stack' = Below /\ UNCHANGED <<win, settingsVars, mainOpen, fault>>
    BY <1>5 DEF Run
  <2>2. ~(Telling(Top) \/ Top.at = "exit")
    BY <1>1, <1>5, NotificationTails DEF Telling
  <2> QED BY <1>1, <1>4, <2>1, <2>2, JustReturns
<1>6. CASE Top.then \in Notifications
  <2>1. Top.then # <<>> /\ Head(Top.then) \in {"fatal", "exit", "exitmax"}
    BY <1>6, NotificationTails
  <2>2. \/ qt_connection_fatal(Top.t) /\ Head(Top.then) = "fatal"
        \/ qt_notify_remote_exit(Top.t, Head(Top.then)) /\ Head(Top.then) \in {"exit", "exitmax"}
    BY <2>1 DEF Run
  <2> QED BY <1>1, <1>6, <2>2, TellingOK
<1>7. CASE Top.then \in {<<"compactclose">>, <<"settingsclose">>}
  <2>1. n = 1 /\ Below = <<>>
    BY <1>2, <1>3, <1>7 DEF SettingsFrames
  <2>2. Top.then # <<>> /\ Head(Top.then) \in {"compactclose", "settingsclose"}
    BY <1>7
  <2>3. /\ stack' = Below /\ win' = win /\ mainOpen' = mainOpen /\ fault' = fault
        /\ shown' = NoSettings
        /\ \/ settingsWindow' = "null" /\ compactSettingsWindow' = FALSE
           \/ Top.then = <<"settingsclose">> /\ UNCHANGED <<settingsWindow, compactSettingsWindow>>
    <3>1. CASE Top.then = <<"compactclose">>
      <4>1. Head(Top.then) = "compactclose"
        BY <3>1
      <4>2. CompactClose /\ stack' = Below /\ UNCHANGED <<win, mainOpen, fault>>
        BY <2>2, <4>1 DEF Run
      <4> QED BY <4>2 DEF CompactClose, on_settingsWindowClose
    <3>2. CASE Top.then = <<"settingsclose">>
      <4>1. Head(Top.then) = "settingsclose"
        BY <3>2
      <4>2. /\ shown' = NoSettings /\ stack' = Below
            /\ UNCHANGED <<win, settingsWindow, compactSettingsWindow, mainOpen, fault>>
        BY <2>2, <4>1 DEF Run
      <4> QED BY <3>2, <4>2
    <3> QED BY <1>7, <3>1, <3>2
  <2>4. Top.then = <<"settingsclose">> => settingsWindow = "null" /\ compactSettingsWindow = FALSE
    <3> SUFFICES ASSUME Top.then = <<"settingsclose">>
                 PROVE  settingsWindow = "null" /\ compactSettingsWindow = FALSE
      OBVIOUS
    <3>1. shown.what = "new"
      BY <1>2, <1>3 DEF SettingsFrames
    <3> QED BY <1>1, <1>2, <3>1 DEF SettingsOK, SettingsPointersLive, TypeOK
  <2>5. settingsWindow' = "null" /\ compactSettingsWindow' = FALSE
    BY <2>3, <2>4
  <2>6. SettingsOK'
    BY <2>1, <2>3, <2>5 DEF SettingsOK, SettingsPointersLive, NoSettings
  <2>7. ~(Telling(Top) \/ Top.at = "exit")
    BY <1>1, <1>7, NotificationTails DEF Telling
  <2>8. WindowOK(win', Below, Top.t)
    BY <1>1, <1>2, <1>4, <2>3, <2>7, WindowPop DEF WindowsOK
  <2>9. win[Top.t] \in Windows /\ win' = [win EXCEPT ![Top.t] = win[Top.t]]
    BY <1>2, <1>4, <2>3 DEF TypeOK
  <2>10. \A i \in DOMAIN Below : FrameOK(win, Below, i) => FrameOK(win', Below, i)
    BY <2>3
  <2>11. /\ shown' \in [what : {"none", "compact", "new", "change"}, t : Terms \cup {NULL}]
         /\ settingsWindow' \in {"null", "new", "change"} /\ compactSettingsWindow' \in BOOLEAN
    BY <2>3, <2>5 DEF NoSettings
  <2> QED BY <1>1, <1>4, <2>3, <2>6, <2>8, <2>9, <2>10, <2>11, ReturnsOK
<1> QED BY <1>4, <1>5, <1>6, <1>7

-----------------------------------------------------------------------------
(* The user answers a box.                                                 *)

\* The handler that waits in the topmost box.
LEMMA Answering ==
  ASSUME SessionInv, NEW at, Waits(at)
  PROVE  /\ fault = NoFault /\ stack # <<>> /\ Top.at = at /\ Top \in Handlers
         /\ TypeOK /\ WindowsOK(win, stack) /\ FramesOK(win, stack) /\ SettingsOK
         /\ SettingsFrames(stack, shown)
         /\ stack \in Seq(Handlers) /\ Below \in Seq(Handlers) /\ Len(stack) <= MaxStack
         /\ Len(Below) = Len(stack) - 1 /\ Len(Below) <= MaxStack /\ Len(stack) \in Nat \ {0}
         /\ Len(stack) \in DOMAIN stack /\ stack[Len(stack)] = Top
         /\ FrameOK(win, stack, Len(stack))
<1>1. /\ fault = NoFault /\ stack # <<>> /\ Top.at = at
      /\ TypeOK /\ WindowsOK(win, stack) /\ FramesOK(win, stack) /\ SettingsOK
      /\ SettingsFrames(stack, shown)
      /\ stack \in Seq(Handlers) /\ Len(stack) <= MaxStack
  BY Running DEF Waits, TypeOK
<1>2. /\ Below \in Seq(Handlers) /\ Len(Below) = Len(stack) - 1 /\ Len(stack) \in Nat \ {0}
      /\ Len(stack) \in DOMAIN stack /\ stack[Len(stack)] = Top /\ Top \in Handlers
  BY <1>1, PopShape
<1>3. Len(Below) <= MaxStack
  BY <1>1, <1>2, SessionAssumption
<1>4. FrameOK(win, stack, Len(stack))
  BY <1>1, <1>2 DEF FramesOK
<1> QED BY <1>1, <1>2, <1>3, <1>4

LEMMA FatalSeenOK ==
  ASSUME SessionInv, FatalSeen
  PROVE  SessionInv'
<1> DEFINE t == Top.t
           n == Len(stack)
           v == IF win[t].closeOnExit = "always" THEN Close(win[t], Below) ELSE win[t]
           f == Frame("run", t, Top.then)
           L == LoopsUpTo(Below, Len(Below))
<1>1. Waits("fatal") /\ Top.at = "fatal" /\ fault = NoFault /\ stack # <<>>
  BY DEF FatalSeen, Waits
<1>2. /\ TypeOK /\ stack \in Seq(Handlers) /\ Below \in Seq(Handlers) /\ Len(Below) <= MaxStack
      /\ n \in DOMAIN stack /\ stack[n] = Top /\ FrameOK(win, stack, n) /\ SessionInv
  BY <1>1, Answering
<1>3. Chain(Top)
  BY <1>1 DEF Chain
<1>4. /\ t \in Terms /\ win[t].conn = "down" /\ win[t].life \in {"open", "closed"}
      /\ win[t].isSockDisconnected /\ Top.then \in {<<>>} \cup Notifications
  BY <1>1, <1>2, <1>3 DEF FrameOK
<1>5. win[t] \in Windows /\ win[t].reports <= 1
  BY <1>2, <1>4 DEF TypeOK, SessionInv, LossToldOnce
<1>6. /\ Close(win[t], Below) \in Windows /\ Close(win[t], Below).life = "closed"
      /\ Close(win[t], Below).conn = win[t].conn
      /\ Close(win[t], Below).closeOnExit = win[t].closeOnExit
      /\ Close(win[t], Below).reports = win[t].reports
      /\ Close(win[t], Below).isSockDisconnected = win[t].isSockDisconnected
  BY <1>2, <1>5, CloseFields
<1>7. /\ v \in Windows /\ v.conn = "down" /\ v.life \in {"open", "closed"} /\ v.isSockDisconnected
      /\ win[t].life = "closed" => v.life = "closed"
      /\ v.life = win[t].life \/ (v.life = "closed" /\ v.closeOnExit # "never")
      /\ v.closeOnExit = win[t].closeOnExit /\ v.reports <= 1
  BY <1>4, <1>5, <1>6
<1>8. /\ win' = [win EXCEPT ![t] = v] /\ stack' = Append(Below, f)
      /\ UNCHANGED <<settingsVars, mainOpen, fault>>
  BY <1>4 DEF FatalSeen, Alive
<1>9. f \in Handlers /\ f.at = "run" /\ f.t = t /\ f.then = Top.then
  BY <1>4, HandlerFields
<1>10. win'[t] = v
  BY <1>2, <1>4, <1>8 DEF TypeOK
<1> HIDE DEF v, f, n, t
<1>11. Len(stack') = n /\ n \in DOMAIN stack' /\ stack'[n] = f
  BY <1>1, <1>2, <1>8, <1>9, TopReplaced DEF n
<1>12. Down(v) /\ (win[t].life = "open" \/ ClosedItself(win[t]) => v.life = "open" \/ ClosedItself(v))
  BY <1>7 DEF Down, ClosedItself
<1>13. ASSUME NEW i \in DOMAIN Below, Below[i].at # "askall", Below[i].t = t,
              FrameOK(win, Below, i), Together(Below[i], Top)
       PROVE  FrameOK(win', Below, i) /\ Together(Below[i], f)
  <2>1. ~Chain(Below[i]) /\ Below[i].at # "noconn" /\ Below[i].at # "ask"
    BY <1>1, <1>3, <1>4, <1>13 DEF Together, FrameOK
  <2>2. FrameOK(win', Below, i)
    BY <1>7, <1>10, <1>12, <1>13, <2>1, Bystander
  <2> QED BY <1>9, <2>1, <2>2 DEF Together
<1>14. FrameOK(win', stack', n)
  BY <1>4, <1>7, <1>9, <1>10, <1>11, <1>12 DEF FrameOK, Chain, Telling
<1>15. WindowOK(win', stack', t)
  BY <1>7, <1>10, <1>12 DEF WindowOK
<1>16. f.at \notin {"ask", "askall"} /\ f.then \notin {<<"compactclose">>, <<"settingsclose">>}
  BY <1>4, <1>9, NotificationTails
<1>17. t = Top.t
  BY DEF t
<1> QED BY <1>1, <1>4, <1>7, <1>8, <1>9, <1>12, <1>13, <1>14, <1>15, <1>16, <1>17, GoesOn DEF n

LEMMA ExitSeenOK ==
  ASSUME SessionInv, ExitSeen
  PROVE  SessionInv'
<1> DEFINE t == Top.t
           n == Len(stack)
           v == [win[t] EXCEPT !.isSockDisconnected = TRUE]
           f == Frame("run", t, Top.then)
<1>1. Waits("exit") /\ Top.at = "exit" /\ fault = NoFault /\ stack # <<>>
  BY DEF ExitSeen, Waits
<1>2. /\ TypeOK /\ stack \in Seq(Handlers) /\ Below \in Seq(Handlers)
      /\ n \in DOMAIN stack /\ stack[n] = Top /\ FrameOK(win, stack, n) /\ SessionInv
  BY <1>1, Answering
<1>3. Chain(Top)
  BY <1>1 DEF Chain
<1>4. /\ t \in Terms /\ win[t].conn = "down" /\ win[t].life \in {"open", "closed"}
      /\ Top.then = <<>>
  BY <1>1, <1>2, <1>3 DEF FrameOK
<1>5. win[t] \in Windows /\ win[t].reports <= 1
  BY <1>2, <1>4 DEF TypeOK, SessionInv, LossToldOnce
<1>6. /\ v \in Windows /\ v.conn = "down" /\ v.life = win[t].life /\ v.isSockDisconnected
      /\ v.closeOnExit = win[t].closeOnExit /\ v.reports <= 1
      /\ v.userClosingTab = win[t].userClosingTab
  BY <1>4, <1>5 DEF Windows
<1>7. /\ win' = [win EXCEPT ![t] = v] /\ stack' = Append(Below, f)
      /\ UNCHANGED <<settingsVars, mainOpen, fault>>
  BY <1>4 DEF ExitSeen, Alive
<1>8. f \in Handlers /\ f.at = "run" /\ f.t = t /\ f.then = <<>>
  BY <1>4, HandlerFields
<1>9. win'[t] = v
  BY <1>2, <1>4, <1>7 DEF TypeOK
<1> HIDE DEF v, f, n, t
<1>10. Len(stack') = n /\ n \in DOMAIN stack' /\ stack'[n] = f
  BY <1>1, <1>2, <1>7, <1>8, TopReplaced DEF n
<1>11. Down(v) /\ (win[t].life = "open" \/ ClosedItself(win[t]) => v.life = "open" \/ ClosedItself(v))
  BY <1>6 DEF Down, ClosedItself
<1>12. ~Chain(f)
  BY <1>8, NotificationTails DEF Chain, Telling
<1>13. ASSUME NEW i \in DOMAIN Below, Below[i].at # "askall", Below[i].t = t,
              FrameOK(win, Below, i), Together(Below[i], Top)
       PROVE  FrameOK(win', Below, i) /\ Together(Below[i], f)
  <2>1. ~Chain(Below[i]) /\ Below[i].at # "noconn"
    BY <1>3, <1>4, <1>13 DEF Together, FrameOK
  <2>2. Below[i].at = "ask" => win[t].userClosingTab /\ win[t].life = "open"
    BY <1>13 DEF FrameOK
  <2>3. FrameOK(win', Below, i)
    BY <1>6, <1>9, <1>11, <1>13, <2>1, <2>2, Bystander
  <2> QED BY <1>8, <2>1, <2>3 DEF Together
<1>14. FrameOK(win', stack', n)
  BY <1>4, <1>8, <1>10, <1>12 DEF FrameOK, Chain
<1>15. WindowOK(win', stack', t)
  BY <1>6, <1>9, <1>11 DEF WindowOK
<1>16. f.at \notin {"ask", "askall"} /\ f.then \notin {<<"compactclose">>, <<"settingsclose">>}
  BY <1>8
<1>17. t = Top.t
  BY DEF t
<1> QED BY <1>1, <1>4, <1>6, <1>7, <1>8, <1>11, <1>13, <1>14, <1>15, <1>16, <1>17, GoesOn DEF n

LEMMA FailureSeenOK ==
  ASSUME SessionInv, FailureSeen
  PROVE  SessionInv'
<1> DEFINE t == Top.t
           n == Len(stack)
           v == IF win[t].life = "new" THEN Unborn ELSE win[t]
           f == Frame("run", t, Top.then)
<1>1. Waits("noconn") /\ Top.at = "noconn" /\ fault = NoFault /\ stack # <<>>
  BY DEF FailureSeen, Waits
<1>2. /\ TypeOK /\ stack \in Seq(Handlers) /\ Below \in Seq(Handlers)
      /\ n \in DOMAIN stack /\ stack[n] = Top /\ FrameOK(win, stack, n) /\ SessionInv
  BY <1>1, Answering
<1>3. /\ t \in Terms /\ win[t].conn = "none" /\ win[t].life \in {"new", "open"}
      /\ Top.then \in {<<>>, <<"compactclose">>, <<"settingsclose">>}
  BY <1>1, <1>2 DEF FrameOK
<1>4. win[t] \in Windows /\ win[t].reports <= 1
  BY <1>2, <1>3 DEF TypeOK, SessionInv, LossToldOnce
<1>5. Unborn \in Windows /\ Unborn.conn = "none" /\ Unborn.reports = 0
  BY NewWindowFields
<1>6. /\ v \in Windows /\ v.conn = "none" /\ v.reports <= 1
      /\ win[t].life # "new" => v = win[t]
  BY <1>3, <1>4, <1>5
<1>7. /\ win' = [win EXCEPT ![t] = v] /\ stack' = Append(Below, f)
      /\ UNCHANGED <<settingsVars, mainOpen, fault>>
  BY <1>3 DEF FailureSeen, Alive
<1>8. f \in Handlers /\ f.at = "run" /\ f.t = t /\ f.then = Top.then
  BY <1>3, HandlerFields DEF Calls
<1>9. win'[t] = v
  BY <1>2, <1>3, <1>7 DEF TypeOK
<1> HIDE DEF v, f, n, t
<1>10. Len(stack') = n /\ n \in DOMAIN stack' /\ stack'[n] = f
  BY <1>1, <1>2, <1>7, <1>8, TopReplaced DEF n
<1>11. win[t].life = "open" \/ ClosedItself(win[t]) => v.life = "open" \/ ClosedItself(v)
  BY <1>3, <1>6 DEF ClosedItself
<1>12. ~Chain(f)
  BY <1>3, <1>8, NotificationTails DEF Chain, Telling
<1>13. ASSUME NEW i \in DOMAIN Below, Below[i].at # "askall", Below[i].t = t,
              FrameOK(win, Below, i), Together(Below[i], Top)
       PROVE  FrameOK(win', Below, i) /\ Together(Below[i], f)
  <2>1. ~Chain(Below[i]) /\ Below[i].at # "noconn"
    BY <1>1, <1>3, <1>13 DEF Together, FrameOK
  <2>2. Below[i].at = "ask" => win[t].userClosingTab /\ win[t].life = "open"
    BY <1>13 DEF FrameOK
  <2>3. FrameOK(win', Below, i)
    BY <1>3, <1>6, <1>9, <1>11, <1>13, <2>1, <2>2, Bystander
  <2> QED BY <1>8, <2>1, <2>3 DEF Together
<1>14. FrameOK(win', stack', n)
  BY <1>3, <1>8, <1>10, <1>12 DEF FrameOK, Chain
<1>15. WindowOK(win', stack', t)
  BY <1>6, <1>9 DEF WindowOK
<1>16. f.at \notin {"ask", "askall"} /\ t = Top.t
  BY <1>8 DEF t
<1> QED BY <1>1, <1>3, <1>6, <1>7, <1>8, <1>11, <1>13, <1>14, <1>15, <1>16, GoesOn DEF n

LEMMA HostKeyAnsweredOK ==
  ASSUME SessionInv, HostKeyAnswered
  PROVE  SessionInv'
<1> DEFINE t == Top.t
           n == Len(stack)
<1>1. Waits("hostkey") /\ Top.at = "hostkey" /\ fault = NoFault /\ stack # <<>>
  BY DEF HostKeyAnswered, Waits
<1>2. /\ TypeOK /\ stack \in Seq(Handlers) /\ Below \in Seq(Handlers)
      /\ n \in DOMAIN stack /\ stack[n] = Top /\ FrameOK(win, stack, n)
      /\ WindowsOK(win, stack) /\ SettingsOK /\ SettingsFrames(stack, shown)
  BY <1>1, Answering
<1>3. t \in Terms /\ Top.then = <<>>
  BY <1>1, <1>2 DEF FrameOK
<1>4. CASE win[t].conn # "kex"
  <2>1. Fail("hostkey", t)
    BY <1>4 DEF HostKeyAnswered
  <2> QED BY <1>1, <1>3, <2>1, Failing
<1>5. CASE win[t].conn = "kex"
  <2> HIDE DEF t, n
  <2>1. win[t] \in Windows
    BY <1>2, <1>3 DEF TypeOK
  <2>2. /\ win[t].reports = 0 /\ win[t].life \in {"open", "closed"}
        /\ win[t].life = "closed" => win[t].userClosingTab
    BY <1>2, <1>3, <1>5 DEF WindowsOK, WindowOK
  <2>3. ASSUME NEW c \in {"up", "down"}, win' = [win EXCEPT ![t].conn = c]
        PROVE  /\ win'[t] \in Windows /\ win' = [win EXCEPT ![t] = win'[t]]
               /\ win'[t].conn = c /\ win'[t].reports = 0 /\ win'[t].life = win[t].life
               /\ win'[t].closeOnExit = win[t].closeOnExit
               /\ win'[t].userClosingTab = win[t].userClosingTab
               /\ (win[t].life = "open" \/ ClosedItself(win[t])) =>
                     win'[t].life = "open" \/ ClosedItself(win'[t])
    <3>1. win'[t] = [win[t] EXCEPT !.conn = c] /\ win' = [win EXCEPT ![t] = win'[t]]
      BY <1>2, <1>3, <2>3 DEF TypeOK
    <3> QED BY <2>1, <2>2, <3>1 DEF Windows, ClosedItself
  <2>4. ASSUME NEW c \in {"up", "down"}, win' = [win EXCEPT ![t].conn = c],
               NEW i \in DOMAIN Below, Below[i].at # "askall", Below[i].t = t,
               FrameOK(win, Below, i)
        PROVE  ~Chain(Below[i]) /\ FrameOK(win', Below, i)
    <3>1. /\ win'[t].life = win[t].life /\ win'[t].userClosingTab = win[t].userClosingTab
          /\ win'[t].closeOnExit = win[t].closeOnExit
      BY <2>3, <2>4
    <3> DEFINE x == win'
    <3>2. /\ x[t].life = win[t].life /\ x[t].userClosingTab = win[t].userClosingTab
          /\ x[t].closeOnExit = win[t].closeOnExit
      BY <3>1
    <3> HIDE DEF x
    <3>3. ~Chain(Below[i]) /\ FrameOK(x, Below, i)
      BY <1>5, <2>4, <3>2, Connection
    <3> QED BY <3>3 DEF x
  <2>5. t = Top.t
    BY DEF t
  <2>6. CASE win' = [win EXCEPT ![t].conn = "up"] /\ stack' = Below
             /\ UNCHANGED <<settingsVars, mainOpen, fault>>
    <3>1. WindowOK(win', Below, t)
      BY <2>2, <2>3, <2>6 DEF WindowOK
    <3>2. SettingsOK'
      <4>1. SettingsFrames(stack', shown)
        BY <1>1, <1>2, <2>6, SettingsPop
      <4>2. shown.what = "change" => win'[shown.t].life = "open" \/ ClosedItself(win'[shown.t])
        <5>1. CASE shown.t = t
          BY <1>2, <2>3, <2>6, <5>1 DEF SettingsOK
        <5>2. CASE shown.t # t
          BY <1>2, <2>6, <5>2 DEF SettingsOK, TypeOK
        <5> QED BY <5>1, <5>2
      <4> QED BY <1>1, <1>2, <2>6, <4>1, <4>2, SameSettings
    <3>3. \A i \in DOMAIN Below : Below[i].at # "askall" /\ Below[i].t = t /\ FrameOK(win, Below, i)
             => FrameOK(win', Below, i)
      BY <2>4, <2>6
    <3>4. /\ shown' \in [what : {"none", "compact", "new", "change"}, t : Terms \cup {NULL}]
          /\ settingsWindow' \in {"null", "new", "change"} /\ compactSettingsWindow' \in BOOLEAN
      BY <1>2, <2>6 DEF TypeOK, settingsVars
    <3>5. win'[t] \in Windows /\ win' = [win EXCEPT ![t] = win'[t]] /\ mainOpen' = mainOpen
          /\ fault' = fault /\ stack' = Below
      BY <2>3, <2>6
    <3> QED BY <1>1, <1>3, <2>5, <3>1, <3>2, <3>3, <3>4, <3>5, ReturnsOK
  <2>7. CASE win' = [win EXCEPT ![t].conn = "down"]
             /\ stack' = Append(Below, Frame("run", t, <<"exit">>))
             /\ UNCHANGED <<settingsVars, mainOpen, fault>>
    <3> DEFINE f == Frame("run", t, <<"exit">>)
    <3>0. <<"exit">> \in {<<>>} \cup Notifications \cup {<<c>> : c \in Calls}
      BY NotificationTails
    <3>1. f \in Handlers /\ f.at = "run" /\ f.t = t /\ f.then = <<"exit">>
      BY <1>3, <3>0, HandlerFields
    <3>2. stack' = Append(Below, f)
      BY <2>7
    <3> HIDE DEF f
    <3>3. Len(stack') = n /\ n \in DOMAIN stack' /\ stack'[n] = f
      BY <1>1, <1>2, <3>1, <3>2, TopReplaced DEF n
    <3>4. Telling(f)
      BY <3>1, NotificationTails DEF Telling
    <3>5. ASSUME NEW i \in DOMAIN Below, Below[i].at # "askall", Below[i].t = t,
                 FrameOK(win, Below, i), Together(Below[i], Top)
          PROVE  FrameOK(win', Below, i) /\ Together(Below[i], f)
      BY <2>4, <2>7, <3>1, <3>5 DEF Together
    <3>6. win'[t].life = "closed" => Down(win'[t])
      BY <2>2, <2>3, <2>7 DEF Down
    <3>7. FrameOK(win', stack', n)
      BY <1>3, <2>2, <2>3, <2>7, <3>1, <3>3, <3>4, <3>6 DEF FrameOK, Telling, Chain
    <3>8. WindowOK(win', stack', t)
      BY <2>2, <2>3, <2>7, <3>1, <3>3, <3>4 DEF WindowOK
    <3>9. f.at \notin {"ask", "askall"} /\ f.then \notin {<<"compactclose">>, <<"settingsclose">>}
      BY <3>1
    <3>10. /\ win'[t] \in Windows /\ win' = [win EXCEPT ![t] = win'[t]]
           /\ UNCHANGED <<settingsVars, mainOpen, fault>>
           /\ (win[t].life = "open" \/ ClosedItself(win[t])) =>
                     win'[t].life = "open" \/ ClosedItself(win'[t])
      BY <2>3, <2>7
    <3> QED BY <1>1, <1>3, <2>5, <3>1, <3>2, <3>5, <3>7, <3>8, <3>9, <3>10, GoesOn DEF n
  <2> QED BY <1>5, <2>6, <2>7 DEF HostKeyAnswered, t
<1> QED BY <1>4, <1>5

LEMMA CloseAnsweredOK ==
  ASSUME SessionInv, CloseAnswered
  PROVE  SessionInv'
<1> DEFINE t == Top.t
           n == Len(stack)
           v == Close(win[t], Below)
<1>1. Waits("ask") /\ Top.at = "ask" /\ fault = NoFault /\ stack # <<>>
  BY DEF CloseAnswered, Waits
<1>2. /\ TypeOK /\ stack \in Seq(Handlers) /\ Below \in Seq(Handlers) /\ Len(Below) <= MaxStack
      /\ n \in DOMAIN stack /\ stack[n] = Top /\ FrameOK(win, stack, n)
      /\ SettingsOK /\ SettingsFrames(stack, shown) /\ WindowsOK(win, stack)
  BY <1>1, Answering
<1>3. /\ t \in Terms /\ win[t].life = "open" /\ win[t].userClosingTab
      /\ n = 1 \/ (n = 2 /\ stack[1].at = "menudone")
  BY <1>1, <1>2 DEF FrameOK
<1>4. win[t] \in Windows
  BY <1>2, <1>3 DEF TypeOK
<1>5. /\ stack' = Below /\ UNCHANGED <<settingsVars, mainOpen, fault>>
      /\ win' = [win EXCEPT ![t] = v] \/ win' = win
  BY <1>3 DEF CloseAnswered, Alive
<1>6. /\ v \in Windows /\ v.life = "closed" /\ v.userClosingTab
      /\ v.conn = win[t].conn /\ v.reports = win[t].reports
  BY <1>2, <1>3, <1>4, CloseFields
<1>7. shown = NoSettings
  BY <1>1, <1>2 DEF SettingsFrames
<1>8. ~(Telling(Top) \/ Top.at = "exit")
  BY <1>1 DEF Telling
<1> HIDE DEF t, n, v
<1>9. t = Top.t
  BY DEF t
<1>10. CASE win' = win
  BY <1>1, <1>3, <1>5, <1>8, <1>9, <1>10, JustReturns
<1>11. CASE win' = [win EXCEPT ![t] = v]
  <2>1. win'[t] = v
    BY <1>2, <1>3, <1>11 DEF TypeOK
  <2>2. ASSUME NEW i \in DOMAIN Below, Below[i].t = t
        PROVE  FrameOK(win', Below, i)
    <3>1. i = 1 /\ i = Len(Below) /\ Below[i].at = "menudone" /\ FrameOK(win, stack, i)
          /\ Below[i] = stack[i]
      BY <1>1, <1>2, <1>3, PopShape, Running DEF n, FramesOK
    <3> QED BY <1>3, <1>6, <2>1, <2>2, <3>1 DEF FrameOK, Chain, Telling
  <2>3. WindowOK(win', Below, t)
    BY <1>2, <1>3, <1>6, <2>1 DEF WindowsOK, WindowOK
  <2>4. SettingsOK'
    <3>1. SettingsFrames(stack', shown)
      BY <1>1, <1>2, <1>5, SettingsPop
    <3>2. shown.what # "change"
      BY <1>7 DEF NoSettings
    <3> QED BY <1>1, <1>2, <1>5, <3>1, <3>2, SameSettings
  <2>5. /\ shown' \in [what : {"none", "compact", "new", "change"}, t : Terms \cup {NULL}]
        /\ settingsWindow' \in {"null", "new", "change"} /\ compactSettingsWindow' \in BOOLEAN
    BY <1>2, <1>5 DEF TypeOK, settingsVars
  <2>6. mainOpen' = mainOpen /\ fault' = fault
    BY <1>5
  <2> QED BY <1>1, <1>3, <1>5, <1>6, <1>9, <1>11, <2>2, <2>3, <2>4, <2>5, <2>6, ReturnsOK
<1> QED BY <1>5, <1>10, <1>11

LEMMA CloseAllAnsweredOK ==
  ASSUME SessionInv, CloseAllAnswered
  PROVE  SessionInv'
<1> DEFINE C(t) == Close([win[t] EXCEPT !.userClosingTab = TRUE], Below)
<1>1. Waits("askall") /\ Top.at = "askall" /\ fault = NoFault /\ stack # <<>>
  BY DEF CloseAllAnswered, Waits
<1>2. /\ TypeOK /\ stack \in Seq(Handlers) /\ Below \in Seq(Handlers) /\ Len(Below) <= MaxStack
      /\ Len(Below) = Len(stack) - 1 /\ SettingsFrames(stack, shown)
      /\ Len(stack) \in DOMAIN stack /\ stack[Len(stack)] = Top /\ FrameOK(win, stack, Len(stack))
      /\ SettingsOK /\ WindowsOK(win, stack)
  BY <1>1, Answering
<1>3. Len(stack) = 1 /\ Below = <<>>
  BY <1>1, <1>2 DEF FrameOK
<1>4. /\ stack' = <<>> /\ UNCHANGED <<settingsVars, fault>>
      /\ \/ /\ win' = [t \in Terms |-> IF t \in terminalList THEN C(t) ELSE win[t]]
            /\ mainOpen' = FALSE
         \/ UNCHANGED <<win, mainOpen>>
  BY <1>3 DEF CloseAllAnswered
<1>5. ASSUME NEW t \in Terms
      PROVE  /\ win[t] \in Windows /\ C(t) \in Windows /\ C(t).life = "closed"
             /\ C(t).conn = win[t].conn /\ C(t).reports = win[t].reports /\ C(t).userClosingTab
  <2> DEFINE v == [win[t] EXCEPT !.userClosingTab = TRUE]
  <2>1. win[t] \in Windows
    BY <1>2 DEF TypeOK
  <2>2. v \in Windows /\ v.conn = win[t].conn /\ v.reports = win[t].reports /\ v.userClosingTab
    BY <2>1 DEF Windows
  <2> HIDE DEF v
  <2>3. /\ Close(v, Below) \in Windows /\ Close(v, Below).life = "closed"
        /\ Close(v, Below).conn = v.conn /\ Close(v, Below).reports = v.reports
        /\ Close(v, Below).userClosingTab = v.userClosingTab
    BY <1>2, <2>2, CloseFields
  <2> QED BY <2>1, <2>2, <2>3 DEF v
<1> HIDE DEF C
<1>6. ASSUME NEW t \in Terms
      PROVE  /\ win'[t] \in Windows /\ WindowOK(win', stack', t)
             /\ win'[t] = win[t] \/ win'[t] = C(t)
  <2>1. WindowOK(win, stack, t)
    BY <1>2 DEF WindowsOK
  <2>2. CASE win'[t] = win[t]
    <3>1. \A i \in DOMAIN stack : ~(Telling(stack[i]) \/ stack[i].at = "exit")
      BY <1>1, <1>2, <1>3 DEF Telling
    <3> QED BY <1>5, <2>1, <2>2, <3>1, WindowStays
  <2>3. CASE win'[t] = C(t)
    BY <1>5, <2>1, <2>3 DEF WindowOK
  <2> QED BY <1>4, <2>2, <2>3
<1>7. win' \in [Terms -> Windows] /\ mainOpen' \in BOOLEAN
  BY <1>2, <1>4, <1>6 DEF TypeOK
<1>8. TypeOK'
  BY <1>2, <1>4, <1>7, SessionAssumption DEF TypeOK, settingsVars
<1>9. SettingsOK'
  <2>1. shown = NoSettings
    BY <1>1, <1>2 DEF SettingsFrames
  <2>2. SettingsFrames(stack', shown)
    BY <1>4 DEF SettingsFrames
  <2>3. shown.what # "change"
    BY <2>1 DEF NoSettings
  <2> QED BY <1>1, <1>2, <1>4, <2>2, <2>3, SameSettings
<1>10. FramesOK(win', stack') /\ WindowsOK(win', stack')
  BY <1>4, <1>6 DEF FramesOK, PairsOK, WindowsOK
<1> QED BY <1>1, <1>4, <1>8, <1>9, <1>10, StillRunning

LEMMA MenuOK ==
  ASSUME SessionInv, DismissMenu \/ MenuReturns
  PROVE  SessionInv'
<1> DEFINE t == Top.t
           n == Len(stack)
           f == Frame("menudone", t, <<>>)
<1>1. CASE MenuReturns
  <2>1. Waits("menudone") /\ Top.at = "menudone" /\ fault = NoFault /\ stack # <<>>
    BY <1>1 DEF MenuReturns, Waits
  <2>2. TypeOK /\ FrameOK(win, stack, n) /\ stack[n] = Top
    BY <2>1, Answering
  <2>3. t \in Terms /\ (win[t].life = "freed" => ClosedItself(win[t]))
    BY <2>1, <2>2 DEF FrameOK
  <2>4. CASE Alive(t)
    <3>1. stack' = Below /\ UNCHANGED <<win, settingsVars, mainOpen, fault>>
      BY <1>1, <2>4 DEF MenuReturns
    <3>2. ~(Telling(Top) \/ Top.at = "exit")
      BY <2>1 DEF Telling
    <3> QED BY <2>1, <2>3, <3>1, <3>2, JustReturns
  <2>5. CASE ~Alive(t)
    <3>1. Fail("menu", t)
      BY <1>1, <2>5 DEF MenuReturns
    <3>2. win[t].closeOnExit # "never"
      BY <2>3, <2>5 DEF Alive, ClosedItself
    <3> QED BY <2>1, <2>3, <3>1, <3>2, Failing
  <2> QED BY <2>4, <2>5
<1>2. CASE DismissMenu
  <2>1. Waits("menu") /\ Top.at = "menu" /\ fault = NoFault /\ stack # <<>>
    BY <1>2 DEF DismissMenu, Waits
  <2>2. /\ TypeOK /\ FrameOK(win, stack, n) /\ stack[n] = Top /\ stack \in Seq(Handlers)
        /\ Below \in Seq(Handlers) /\ WindowsOK(win, stack) /\ Len(Below) = n - 1
    BY <2>1, Answering
  <2>3. t \in Terms /\ n = 1 /\ (win[t].life = "open" \/ ClosedItself(win[t]))
    BY <2>1, <2>2 DEF FrameOK
  <2>4. f \in Handlers /\ f.at = "menudone" /\ f.t = t /\ f.then = <<>>
    <3>1. "menudone" \in Boxes \cup {"run", "menudone"}
      OBVIOUS
    <3>2. <<>> \in {<<>>} \cup Notifications \cup {<<c>> : c \in Calls}
      OBVIOUS
    <3> HIDE DEF t
    <3> QED BY <2>3, <3>1, <3>2, HandlerFields
  <2>5. stack' = Append(Below, f) /\ UNCHANGED <<win, settingsVars, mainOpen, fault>>
    BY <1>2 DEF DismissMenu
  <2>6. win[t] \in Windows /\ win' = [win EXCEPT ![t] = win[t]] /\ win' = win
    BY <2>2, <2>3, <2>5 DEF TypeOK
  <2> HIDE DEF t, n, f
  <2>7. t = Top.t /\ Below = <<>> /\ DOMAIN Below = {}
    BY <2>2, <2>3 DEF t
  <2>8. Len(stack') = n /\ n \in DOMAIN stack' /\ stack'[n] = f
    BY <2>1, <2>2, <2>4, <2>5, TopReplaced DEF n
  <2>9. ~(Telling(Top) \/ Top.at = "exit")
    BY <2>1 DEF Telling
  <2>10. WindowOK(win', stack', t)
    <3>1. WindowOK(win', Below, t)
      BY <2>1, <2>2, <2>3, <2>6, <2>9, WindowPop DEF WindowsOK
    <3> QED BY <2>2, <2>4, <2>5, <3>1, WindowPush
  <2>11. FrameOK(win', stack', n)
    BY <2>3, <2>4, <2>6, <2>8 DEF FrameOK, Chain, Telling
  <2>12. f.at \notin {"ask", "askall"} /\ f.then \notin {<<"compactclose">>, <<"settingsclose">>}
    BY <2>4
  <2>13. UNCHANGED <<settingsVars, mainOpen, fault>>
    BY <2>5
  <2> QED BY <2>1, <2>3, <2>4, <2>5, <2>6, <2>7, <2>10, <2>11, <2>12, <2>13, GoesOn DEF n
<1> QED BY <1>1, <1>2

-----------------------------------------------------------------------------
(* Events.                                                                 *)

\* While an event loop is running every handler waits in a box.
LEMMA LoopingQuiet ==
  ASSUME SessionInv, Looping
  PROVE  /\ fault = NoFault /\ TypeOK /\ WindowsOK(win, stack) /\ FramesOK(win, stack) /\ SettingsOK
         /\ SettingsFrames(stack, shown) /\ stack \in Seq(Handlers) /\ Len(stack) <= MaxStack
         /\ Quiet(win, stack)
<1>1. /\ fault = NoFault /\ TypeOK /\ WindowsOK(win, stack) /\ FramesOK(win, stack) /\ SettingsOK
      /\ SettingsFrames(stack, shown) /\ stack \in Seq(Handlers) /\ Len(stack) <= MaxStack
  BY Running DEF Looping, TypeOK
<1>2. ASSUME NEW i \in DOMAIN stack
      PROVE  /\ stack[i].at # "run"
             /\ stack[i].at = "menudone" => \/ win[stack[i].t].life = "open"
                                            \/ ClosedItself(win[stack[i].t])
  <2>1. FrameOK(win, stack, i)
    BY <1>1 DEF FramesOK
  <2>2. stack # <<>>
    BY <1>1
  <2>3. i = Len(stack) => stack[i] = Top
    BY <1>1, <2>2, PopShape
  <2>4. i = Len(stack) => stack[i].at \in Boxes
    BY <2>2, <2>3 DEF Looping
  <2> QED BY <2>1, <2>4 DEF FrameOK, Boxes
<1> QED BY <1>1, <1>2 DEF Quiet

\* A call above the handlers b, all of which wait.
LEMMA CalledOK ==
  ASSUME TypeOK, fault = NoFault, SettingsOK, NEW b \in Seq(Handlers), Len(b) < MaxStack,
         FramesOK(win, b), Quiet(win, b), WindowsOK(win, b), SettingsFrames(b, shown),
         NEW t \in Terms, NEW v \in Windows, NEW f \in Handlers, f.t = t,
         win' = [win EXCEPT ![t] = v], stack' = Append(b, f),
         UNCHANGED <<settingsVars, mainOpen, fault>>,
         \A i \in DOMAIN b : b[i].at # "askall" /\ b[i].t = t /\ FrameOK(win, b, i)
            => FrameOK(win', b, i) /\ Together(b[i], f),
         win[t].life = "open" \/ ClosedItself(win[t]) => v.life = "open" \/ ClosedItself(v),
         FrameOK(win', stack', Len(b) + 1), WindowOK(win', stack', t),
         f.at \in {"ask", "askall"} => shown = NoSettings,
         f.then = <<"compactclose">> => b = <<>> /\ shown.what = "compact",
         f.then = <<"settingsclose">> => b = <<>> /\ shown.what = "new"
  PROVE  SessionInv'
<1> DEFINE w == win
           x == win'
<1>1. /\ w \in [Terms -> Windows] /\ x \in [Terms -> Windows] /\ x[t] = v
      /\ \A u \in Terms : u # t => x[u] = w[u]
  BY DEF TypeOK
<1>2. /\ FramesOK(w, b) /\ Quiet(w, b)
      /\ \A i \in DOMAIN b : b[i].at # "askall" /\ b[i].t = t /\ FrameOK(w, b, i)
            => FrameOK(x, b, i) /\ Together(b[i], f)
      /\ w[t].life = "open" \/ ClosedItself(w[t]) => x[t].life = "open" \/ ClosedItself(x[t])
      /\ FrameOK(x, Append(b, f), Len(b) + 1)
  BY <1>1
<1>3. ASSUME NEW u \in Terms, u # t
      PROVE  WindowOK(win', Append(b, f), u)
  BY <1>1, <1>3, WindowPush DEF WindowsOK
<1> HIDE DEF w, x
<1>4. FramesOK(x, b)
  <2>1. \A i \in DOMAIN b : b[i].at # "askall" /\ b[i].t = t /\ FrameOK(w, b, i) => FrameOK(x, b, i)
    BY <1>2
  <2> QED BY <1>1, <1>2, <2>1, ChangeOK
<1>5. Quiet(x, b)
  <2> SUFFICES ASSUME NEW i \in DOMAIN b
               PROVE  /\ b[i].at # "run"
                      /\ b[i].at = "menudone" => x[b[i].t].life = "open" \/ ClosedItself(x[b[i].t])
    BY DEF Quiet
  <2>1. FrameOK(w, b, i)
    BY <1>2 DEF FramesOK
  <2>2. b[i].at = "menudone" => b[i].t \in Terms
    BY <2>1 DEF FrameOK
  <2> QED BY <1>1, <1>2, <2>2 DEF Quiet
<1>6. \A i \in DOMAIN b : b[i].t = f.t => Together(b[i], f)
  <2> SUFFICES ASSUME NEW i \in DOMAIN b, b[i].t = t
               PROVE  Together(b[i], f)
    OBVIOUS
  <2>1. CASE b[i].at = "askall"
    BY <2>1 DEF Together, Chain, Telling
  <2>2. CASE b[i].at # "askall"
    BY <1>2, <2>2 DEF FramesOK
  <2> QED BY <2>1, <2>2
<1>7. FramesOK(x, Append(b, f))
  BY <1>2, <1>4, <1>5, <1>6, PushOK
<1>8. FramesOK(win', stack') /\ WindowsOK(win', stack')
  BY <1>3, <1>7 DEF x, WindowsOK
<1>9. TypeOK'
  <2>1. stack' \in Seq(Handlers) /\ Len(stack') = Len(b) + 1 /\ Len(b) \in Nat
    BY PushShape
  <2> QED BY <1>1, <2>1, SessionAssumption DEF TypeOK, settingsVars, x
<1>10. SettingsOK'
  <2>1. SettingsFrames(stack', shown)
    BY SettingsPush
  <2>2. shown.what = "change" => x[shown.t].life = "open" \/ ClosedItself(x[shown.t])
    BY <1>1, <1>2 DEF SettingsOK, w
  <2>3. shown.what = "change" => win'[shown.t].life = "open" \/ ClosedItself(win'[shown.t])
    BY <2>2 DEF x
  <2> QED BY <2>1, <2>3, SameSettings
<1> QED BY <1>8, <1>9, <1>10, StillRunning

\* A step after which the handlers b are on the stack.
LEMMA LeftOK ==
  ASSUME TypeOK, fault = NoFault, NEW b \in Seq(Handlers), Len(b) <= MaxStack,
         FramesOK(win, b), WindowsOK(win, b),
         NEW t \in Terms, NEW v \in Windows, win' = [win EXCEPT ![t] = v], stack' = b,
         mainOpen' = mainOpen, fault' = fault, SettingsOK',
         /\ shown' \in [what : {"none", "compact", "new", "change"}, t : Terms \cup {NULL}]
         /\ settingsWindow' \in {"null", "new", "change"} /\ compactSettingsWindow' \in BOOLEAN,
         \A i \in DOMAIN b : b[i].at # "askall" /\ b[i].t = t /\ FrameOK(win, b, i)
            => FrameOK(win', b, i),
         WindowOK(win', b, t)
  PROVE  SessionInv'
<1> DEFINE w == win
           x == win'
<1>1. /\ w \in [Terms -> Windows] /\ x \in [Terms -> Windows] /\ x[t] = v
      /\ \A u \in Terms : u # t => x[u] = w[u]
  BY DEF TypeOK
<1>2. /\ FramesOK(w, b) /\ WindowsOK(w, b) /\ WindowOK(x, b, t)
      /\ \A i \in DOMAIN b : b[i].at # "askall" /\ b[i].t = t /\ FrameOK(w, b, i)
            => FrameOK(x, b, i)
  OBVIOUS
<1> HIDE DEF w, x
<1>3. FramesOK(x, b)
  BY <1>1, <1>2, ChangeOK
<1>4. WindowsOK(x, b)
  <2> SUFFICES ASSUME NEW u \in Terms
               PROVE  WindowOK(x, b, u)
    BY DEF WindowsOK
  <2> QED BY <1>1, <1>2, WindowStays DEF WindowsOK
<1>5. FramesOK(win', stack') /\ WindowsOK(win', stack') /\ win' \in [Terms -> Windows]
  BY <1>1, <1>3, <1>4 DEF x
<1>6. TypeOK'
  BY <1>5 DEF TypeOK
<1> QED BY <1>5, <1>6, StillRunning

LEMMA ConnectionEndsOK ==
  ASSUME SessionInv, NEW t \in Terms, ConnectionEnds(t)
  PROVE  SessionInv'
<1> DEFINE n == Len(stack) + 1
<1>1. Looping /\ Len(stack) < MaxStack /\ win[t].conn \in {"kex", "up"}
  BY DEF ConnectionEnds, Nested
<1>2. /\ fault = NoFault /\ TypeOK /\ WindowsOK(win, stack) /\ FramesOK(win, stack) /\ SettingsOK
      /\ SettingsFrames(stack, shown) /\ stack \in Seq(Handlers) /\ Quiet(win, stack)
  BY <1>1, LoopingQuiet
<1>3. PICK calls \in Notifications : stack' = Append(stack, Frame("run", t, calls))
  BY DEF ConnectionEnds
<1> DEFINE f == Frame("run", t, calls)
<1>4. f \in Handlers /\ f.at = "run" /\ f.t = t /\ f.then = calls
  BY HandlerFields
<1>5. stack' = Append(stack, f) /\ Telling(f) /\ Chain(f)
  BY <1>3, <1>4 DEF Telling, Chain
<1>6. /\ win[t] \in Windows /\ win[t].reports = 0 /\ win[t].life \in {"open", "closed"}
      /\ win[t].life = "closed" => win[t].userClosingTab
  BY <1>1, <1>2 DEF TypeOK, WindowsOK, WindowOK
<1> DEFINE v == [win[t] EXCEPT !.conn = "down"]
<1>7. win' = [win EXCEPT ![t] = v] /\ UNCHANGED <<settingsVars, mainOpen, fault>> /\ win'[t] = v
  BY <1>2 DEF ConnectionEnds, TypeOK
<1>8. /\ v \in Windows /\ v.conn = "down" /\ v.reports = 0 /\ v.life = win[t].life
      /\ v.userClosingTab = win[t].userClosingTab /\ v.closeOnExit = win[t].closeOnExit
  BY <1>6 DEF Windows
<1> HIDE DEF f, v
<1>9. Len(stack') = n /\ n \in DOMAIN stack' /\ stack'[n] = f
  BY <1>2, <1>4, <1>5, PushShape
<1> HIDE DEF n
<1>10. v.life = "closed" => Down(v)
  BY <1>6, <1>8 DEF Down
<1>11. win[t].life = "open" \/ ClosedItself(win[t]) => v.life = "open" \/ ClosedItself(v)
  BY <1>8 DEF ClosedItself
<1>12. ASSUME NEW i \in DOMAIN stack, stack[i].at # "askall", stack[i].t = t, FrameOK(win, stack, i)
       PROVE  FrameOK(win', stack, i) /\ Together(stack[i], f)
  <2> DEFINE x == win'
  <2>1. /\ x[t].life = win[t].life /\ x[t].userClosingTab = win[t].userClosingTab
        /\ x[t].closeOnExit = win[t].closeOnExit
    BY <1>7, <1>8
  <2> HIDE DEF x
  <2>2. ~Chain(stack[i]) /\ FrameOK(x, stack, i)
    BY <1>1, <1>12, <2>1, Connection
  <2> QED BY <1>4, <2>2 DEF Together, x
<1>13. FrameOK(win', stack', n)
  BY <1>4, <1>5, <1>6, <1>7, <1>8, <1>9, <1>10 DEF FrameOK, Telling
<1>14. WindowOK(win', stack', t)
  BY <1>4, <1>5, <1>7, <1>8, <1>9 DEF WindowOK
<1>15. /\ f.at \notin {"ask", "askall"}
       /\ f.then # <<"compactclose">> /\ f.then # <<"settingsclose">>
  BY <1>4, NotificationTails
<1> QED BY <1>1, <1>2, <1>4, <1>5, <1>7, <1>8, <1>11, <1>12, <1>13, <1>14, <1>15, CalledOK DEF n

LEMMA ConfirmHostKeyOK ==
  ASSUME SessionInv, NEW t \in Terms, ConfirmHostKey(t)
  PROVE  SessionInv'
<1> DEFINE n == Len(stack) + 1
           f == Frame("hostkey", t, <<>>)
<1>1. Looping /\ Len(stack) < MaxStack /\ win[t].conn = "kex"
  BY DEF ConfirmHostKey, Nested
<1>2. /\ fault = NoFault /\ TypeOK /\ WindowsOK(win, stack) /\ FramesOK(win, stack) /\ SettingsOK
      /\ SettingsFrames(stack, shown) /\ stack \in Seq(Handlers) /\ Quiet(win, stack)
  BY <1>1, LoopingQuiet
<1>3. f \in Handlers /\ f.at = "hostkey" /\ f.t = t /\ f.then = <<>>
  BY HandlerFields DEF Boxes
<1>4. stack' = Append(stack, f) /\ UNCHANGED <<win, settingsVars, mainOpen, fault>>
  BY DEF ConfirmHostKey
<1>5. win[t] \in Windows /\ win' = [win EXCEPT ![t] = win[t]] /\ win' = win
  BY <1>2, <1>4 DEF TypeOK
<1> HIDE DEF f
<1>6. Len(stack') = n /\ n \in DOMAIN stack' /\ stack'[n] = f
  BY <1>2, <1>3, <1>4, PushShape
<1> HIDE DEF n
<1>7. \A i \in DOMAIN stack : Together(stack[i], f)
  BY <1>3 DEF Together, Chain, Telling
<1>8. FrameOK(win', stack', n)
  BY <1>3, <1>5, <1>6 DEF FrameOK, Chain, Telling
<1>9. WindowOK(win', stack', t)
  BY <1>2, <1>3, <1>4, <1>5, WindowPush DEF WindowsOK
<1>10. /\ f.at \notin {"ask", "askall"}
       /\ f.then # <<"compactclose">> /\ f.then # <<"settingsclose">>
  BY <1>3
<1>11. \A i \in DOMAIN stack : stack[i].at # "askall" /\ stack[i].t = t /\ FrameOK(win, stack, i)
         => FrameOK(win', stack, i) /\ Together(stack[i], f)
  BY <1>5, <1>7
<1> DEFINE v == win[t]
<1>12. /\ UNCHANGED <<settingsVars, mainOpen, fault>>
       /\ win[t].life = "open" \/ ClosedItself(win[t]) => v.life = "open" \/ ClosedItself(v)
       /\ v \in Windows /\ win' = [win EXCEPT ![t] = v] /\ stack' = Append(stack, f)
  BY <1>4, <1>5
<1> HIDE DEF v
<1> QED BY <1>1, <1>2, <1>3, <1>8, <1>9, <1>10, <1>11, <1>12, CalledOK DEF n

LEMMA KnownHostKeyOK ==
  ASSUME SessionInv, NEW t \in Terms, KnownHostKey(t)
  PROVE  SessionInv'
<1> DEFINE v == [win[t] EXCEPT !.conn = "up"]
<1>1. Looping /\ win[t].conn = "kex"
  BY DEF KnownHostKey
<1>2. /\ fault = NoFault /\ TypeOK /\ WindowsOK(win, stack) /\ FramesOK(win, stack) /\ SettingsOK
      /\ SettingsFrames(stack, shown) /\ stack \in Seq(Handlers) /\ Len(stack) <= MaxStack
  BY <1>1, LoopingQuiet
<1>3. /\ win[t] \in Windows /\ win[t].reports = 0 /\ win[t].life \in {"open", "closed"}
      /\ win[t].life = "closed" => win[t].userClosingTab
  BY <1>1, <1>2 DEF TypeOK, WindowsOK, WindowOK
<1>4. /\ win' = [win EXCEPT ![t] = v] /\ UNCHANGED <<stack, settingsVars, mainOpen, fault>>
      /\ win'[t] = v
  BY <1>2 DEF KnownHostKey, TypeOK
<1>5. /\ v \in Windows /\ v.conn = "up" /\ v.reports = 0 /\ v.life = win[t].life
      /\ v.userClosingTab = win[t].userClosingTab /\ v.closeOnExit = win[t].closeOnExit
  BY <1>3 DEF Windows
<1> HIDE DEF v
<1>6. win[t].life = "open" \/ ClosedItself(win[t]) => v.life = "open" \/ ClosedItself(v)
  BY <1>5 DEF ClosedItself
<1>7. ASSUME NEW i \in DOMAIN stack, stack[i].at # "askall", stack[i].t = t, FrameOK(win, stack, i)
      PROVE  FrameOK(win', stack, i)
  <2> DEFINE x == win'
  <2>1. /\ x[t].life = win[t].life /\ x[t].userClosingTab = win[t].userClosingTab
        /\ x[t].closeOnExit = win[t].closeOnExit
    BY <1>4, <1>5
  <2> HIDE DEF x
  <2>2. FrameOK(x, stack, i)
    BY <1>1, <1>7, <2>1, Connection
  <2> QED BY <2>2 DEF x
<1>8. WindowOK(win', stack, t)
  BY <1>3, <1>4, <1>5 DEF WindowOK
<1>9. SettingsOK'
  <2>1. shown.what = "change" => win'[shown.t].life = "open" \/ ClosedItself(win'[shown.t])
    BY <1>2, <1>4, <1>6 DEF SettingsOK, TypeOK
  <2> QED BY <1>2, <1>4, <2>1, SameSettings
<1>10. /\ shown' \in [what : {"none", "compact", "new", "change"}, t : Terms \cup {NULL}]
       /\ settingsWindow' \in {"null", "new", "change"} /\ compactSettingsWindow' \in BOOLEAN
       /\ stack' = stack /\ mainOpen' = mainOpen /\ fault' = fault
  BY <1>2, <1>4 DEF TypeOK, settingsVars
<1> QED BY <1>2, <1>4, <1>5, <1>7, <1>8, <1>9, <1>10, LeftOK

\* A window is deleted only when no box that tells of its end is open.
LEMMA DeferredDeleteOK ==
  ASSUME SessionInv, NEW t \in Terms, DeferredDelete(t)
  PROVE  SessionInv'
<1> DEFINE v == [win[t] EXCEPT !.life = "freed", !.term = FALSE, !.conn = "none"]
<1>1. Looping /\ win[t].life = "closed" /\ Depth(stack) <= win[t].level
  BY DEF DeferredDelete
<1>2. /\ fault = NoFault /\ TypeOK /\ WindowsOK(win, stack) /\ FramesOK(win, stack) /\ SettingsOK
      /\ SettingsFrames(stack, shown) /\ stack \in Seq(Handlers) /\ Len(stack) <= MaxStack
      /\ Quiet(win, stack)
  BY <1>1, LoopingQuiet
<1>3. win[t] \in Windows /\ win[t].reports <= 1 /\ win[t].level \in Nat
  BY <1>2 DEF TypeOK, WindowsOK, WindowOK, Windows
<1>4. /\ win' = [win EXCEPT ![t] = v] /\ UNCHANGED <<stack, settingsVars, mainOpen, fault>>
      /\ win'[t] = v
  BY <1>2 DEF DeferredDelete, TypeOK
<1>5. /\ v \in Windows /\ v.conn = "none" /\ v.reports = win[t].reports /\ v.life = "freed"
      /\ v.closeOnExit = win[t].closeOnExit
  BY <1>3 DEF Windows
<1> HIDE DEF v
<1>6. ClosedItself(win[t]) => ClosedItself(v)
  BY <1>5 DEF ClosedItself
<1>7. ASSUME NEW i \in DOMAIN stack, stack[i].at # "askall", stack[i].t = t, FrameOK(win, stack, i)
      PROVE  FrameOK(win', stack, i)
  <2>1. i \in 1..Len(stack) /\ Len(stack) \in Nat
    BY <1>2
  <2>2. LoopsUpTo(stack, i) <= Depth(stack) /\ LoopsUpTo(stack, i) \in Nat /\ Depth(stack) \in Nat
    BY <1>2, <2>1, Loops, DepthIsLoops
  <2>3. stack[i].at \notin {"fatal", "exit"}
    <3>1. stack[i].at \in {"fatal", "exit"} => win[t].level < LoopsUpTo(stack, i)
      BY <1>1, <1>7 DEF FrameOK
    <3> QED BY <1>1, <1>3, <2>2, <3>1
  <2>4. stack[i].at # "run" /\ (stack[i].at = "menudone" => ClosedItself(win[t]))
    BY <1>1, <1>2, <1>7 DEF Quiet
  <2>5. ~Chain(stack[i]) /\ stack[i].at # "noconn" /\ stack[i].at # "ask"
    BY <1>1, <1>7, <2>3, <2>4 DEF Chain, Telling, FrameOK
  <2> DEFINE x == win'
  <2>6. x[t] = v
    BY <1>4
  <2> HIDE DEF x
  <2>7. FrameOK(x, stack, i)
    BY <1>1, <1>6, <1>7, <2>4, <2>5, <2>6, Bystander
  <2> QED BY <2>7 DEF x
<1>8. WindowOK(win', stack, t)
  BY <1>3, <1>4, <1>5 DEF WindowOK
<1>9. SettingsOK'
  <2>1. shown.what = "change" => win'[shown.t].life = "open" \/ ClosedItself(win'[shown.t])
    BY <1>1, <1>2, <1>4, <1>6 DEF SettingsOK, TypeOK
  <2> QED BY <1>2, <1>4, <2>1, SameSettings
<1>10. /\ shown' \in [what : {"none", "compact", "new", "change"}, t : Terms \cup {NULL}]
       /\ settingsWindow' \in {"null", "new", "change"} /\ compactSettingsWindow' \in BOOLEAN
       /\ stack' = stack /\ mainOpen' = mainOpen /\ fault' = fault
  BY <1>2, <1>4 DEF TypeOK, settingsVars
<1> QED BY <1>2, <1>4, <1>5, <1>7, <1>8, <1>9, <1>10, LeftOK

-----------------------------------------------------------------------------
(* Commands of the main window and of a menu.                              *)

\* Nothing is on the stack but the menu the command was chosen from.
LEMMA AfterOK ==
  ASSUME SessionInv, NEW t \in Terms, Command(t)
  PROVE  /\ fault = NoFault /\ TypeOK /\ SettingsOK /\ shown = NoSettings
         /\ WindowsOK(win, stack) /\ FramesOK(win, stack)
         /\ After(t) \in Seq(Handlers) /\ Len(After(t)) = Len(stack) /\ Len(stack) \in Nat
         /\ Len(stack) <= 1 /\ Len(stack) <= MaxStack
         /\ \A i \in DOMAIN After(t) :
              /\ i = 1 /\ Len(After(t)) = 1 /\ After(t)[i].at = "menudone"
              /\ After(t)[i].t = t /\ After(t)[i].then = <<>>
         /\ After(t) # <<>> => win[t].life = "open" \/ ClosedItself(win[t])
         /\ WindowsOK(win, After(t))
         /\ \A sh : SettingsFrames(After(t), sh)
<1> DEFINE b == After(t)
           f == Frame("menudone", t, <<>>)
<1>1. fault = NoFault /\ shown = NoSettings
  BY DEF Command, AtMainWindow, InMenu, Looping, Waits
<1>2. /\ TypeOK /\ SettingsOK /\ WindowsOK(win, stack) /\ FramesOK(win, stack)
      /\ stack \in Seq(Handlers) /\ Len(stack) <= MaxStack
  BY <1>1, Running DEF TypeOK
<1>3. CASE stack = <<>>
  <2>1. b = <<>> /\ Len(stack) = 0 /\ b = stack
    BY <1>3 DEF After
  <2> QED BY <1>1, <1>2, <2>1 DEF SettingsFrames
<1>4. CASE stack # <<>>
  <2>1. Waits("menu") /\ Top.at = "menu" /\ Top.t = t
    BY <1>4 DEF Command, AtMainWindow, InMenu, Waits
  <2>2. /\ Len(stack) \in DOMAIN stack /\ stack[Len(stack)] = Top
        /\ FrameOK(win, stack, Len(stack)) /\ Below \in Seq(Handlers) /\ Len(Below) = Len(stack) - 1
    BY <2>1, Answering
  <2>3. Len(stack) = 1 /\ (win[t].life = "open" \/ ClosedItself(win[t]))
    BY <2>1, <2>2 DEF FrameOK
  <2>4. Below = <<>>
    BY <2>2, <2>3
  <2>5. f \in Handlers /\ f.at = "menudone" /\ f.t = t /\ f.then = <<>>
    BY HandlerFields
  <2>6. b = Append(Below, f)
    BY <1>4 DEF After
  <2> HIDE DEF b, f
  <2>7. b \in Seq(Handlers) /\ Len(b) = 1 /\ DOMAIN b = 1..1 /\ b[1] = f
    BY <2>2, <2>3, <2>5, <2>6, PushShape
  <2>8. WindowsOK(win, b)
    <3> SUFFICES ASSUME NEW u \in Terms
                 PROVE  WindowOK(win, b, u)
      BY DEF WindowsOK
    <3>1. \A i \in DOMAIN stack : ~(Telling(stack[i]) \/ stack[i].at = "exit")
      BY <1>2, <2>1, <2>2, <2>3 DEF Telling
    <3>2. WindowOK(win, stack, u)
      BY <1>2 DEF WindowsOK
    <3> QED BY <3>1, <3>2, WindowStays
  <2>9. ASSUME NEW sh
        PROVE  SettingsFrames(b, sh)
    BY <2>5, <2>7 DEF SettingsFrames
  <2> QED BY <1>1, <1>2, <2>3, <2>5, <2>7, <2>8, <2>9 DEF b
<1> QED BY <1>3, <1>4

\* The handlers of a command, for windows w in which the command's own is not freed.
LEMMA AfterFrames ==
  ASSUME SessionInv, NEW t \in Terms, Command(t), NEW w,
         w[t].life \in {"open", "closed"} \/ ClosedItself(w[t])
  PROVE  /\ FramesOK(w, After(t))
         /\ w[t].life = "open" \/ ClosedItself(w[t]) => Quiet(w, After(t))
<1> DEFINE b == After(t)
<1>1. \A i \in DOMAIN b : /\ i = 1 /\ Len(b) = 1 /\ b[i].at = "menudone"
                          /\ b[i].t = t /\ b[i].then = <<>>
  BY AfterOK
<1> HIDE DEF b
<1>2. \A i \in DOMAIN b : FrameOK(w, b, i)
  BY <1>1 DEF FrameOK, Chain, Telling
<1>3. PairsOK(b)
  BY <1>1 DEF PairsOK
<1>4. w[t].life = "open" \/ ClosedItself(w[t]) => Quiet(w, b)
  BY <1>1 DEF Quiet
<1> QED BY <1>2, <1>3, <1>4 DEF FramesOK, b

\* A new session, above the handlers b.
LEMMA NewTabOK ==
  ASSUME TypeOK, fault = NoFault, SettingsOK, NEW b \in Seq(Handlers),
         FramesOK(win, b), Quiet(win, b), WindowsOK(win, b), SettingsFrames(b, shown),
         NEW P \in SUBSET Policies, NEW then, CreateNewTab(b, P, then),
         \/ then = <<>>
         \/ then = <<"compactclose">> /\ b = <<>> /\ shown.what = "compact"
         \/ then = <<"settingsclose">> /\ b = <<>> /\ shown.what = "new"
  PROVE  SessionInv'
<1> DEFINE n == Len(b) + 1
<1>1. PICK t \in Terms, p \in P :
        /\ Len(b) < MaxStack /\ win[t].life = "unborn"
        /\ \/ /\ win' = [win EXCEPT ![t] = [Connected(NewWindow(p)) EXCEPT !.life = "open"]]
              /\ stack' = Append(b, Frame("run", t, then))
           \/ /\ win' = [win EXCEPT ![t] = NewWindow(p)]
              /\ stack' = Append(b, Frame("noconn", t, then))
        /\ UNCHANGED <<settingsVars, mainOpen, fault>>
  BY DEF CreateNewTab
<1>2. then \in {<<>>} \cup Notifications \cup {<<c>> : c \in Calls} /\ then \notin Notifications
  BY NotificationTails DEF Calls
<1>3. /\ NewWindow(p) \in Windows /\ NewWindow(p).conn = "none" /\ NewWindow(p).reports = 0
      /\ NewWindow(p).life = "new"
  BY NewWindowFields
<1>4. /\ [Connected(NewWindow(p)) EXCEPT !.life = "open"] \in Windows
      /\ [Connected(NewWindow(p)) EXCEPT !.life = "open"].conn = "kex"
      /\ [Connected(NewWindow(p)) EXCEPT !.life = "open"].reports = 0
      /\ [Connected(NewWindow(p)) EXCEPT !.life = "open"].life = "open"
  <2> DEFINE nw == NewWindow(p)
             c == Connected(nw)
  <2>1. c \in Windows /\ c.conn = "kex" /\ c.reports = 0
    <3>1. nw \in Windows
      BY <1>3
    <3> HIDE DEF nw
    <3> QED BY <3>1 DEF Connected, Windows
  <2> HIDE DEF c
  <2>2. /\ [c EXCEPT !.life = "open"] \in Windows /\ [c EXCEPT !.life = "open"].conn = "kex"
        /\ [c EXCEPT !.life = "open"].reports = 0 /\ [c EXCEPT !.life = "open"].life = "open"
    BY <2>1 DEF Windows
  <2> QED BY <2>2 DEF c
<1>5. ASSUME NEW v \in Windows, NEW at \in {"run", "noconn"}, win' = [win EXCEPT ![t] = v],
             stack' = Append(b, Frame(at, t, then)),
             v.reports = 0, v.conn \in {"none", "kex"}, v.conn = "kex" => v.life = "open",
             at = "noconn" => v.conn = "none" /\ v.life = "new"
      PROVE  SessionInv'
  <2> DEFINE f == Frame(at, t, then)
  <2>1. f \in Handlers /\ f.at = at /\ f.t = t /\ f.then = then
    BY <1>2, HandlerFields DEF Boxes
  <2>2. stack' = Append(b, f) /\ win'[t] = v
    BY <1>5 DEF TypeOK
  <2> HIDE DEF f
  <2>3. Len(stack') = n /\ n \in DOMAIN stack' /\ stack'[n] = f
    BY <2>1, <2>2, PushShape
  <2> HIDE DEF n
  <2>4. ~Chain(f)
    BY <1>2, <2>1 DEF Chain, Telling
  <2>5. ASSUME NEW i \in DOMAIN b, b[i].at # "askall", b[i].t = t, FrameOK(win, b, i)
        PROVE  FrameOK(win', b, i) /\ Together(b[i], f)
    <3>1. ~Chain(b[i]) /\ b[i].at \notin {"noconn", "ask", "menu", "menudone"}
      BY <1>1, <2>5 DEF FrameOK, ClosedItself
    <3> DEFINE x == win'
    <3> HIDE DEF x
    <3>2. FrameOK(x, b, i)
      BY <2>5, <3>1, Bystander
    <3> QED BY <2>1, <2>4, <3>1, <3>2 DEF Together, x
  <2>6. ~(win[t].life = "open" \/ ClosedItself(win[t]))
    BY <1>1 DEF ClosedItself
  <2>7. FrameOK(win', stack', n)
    BY <1>5, <2>1, <2>2, <2>3, <2>4 DEF FrameOK, Chain
  <2>8. WindowOK(win', stack', t)
    BY <1>5, <2>2 DEF WindowOK
  <2>9. /\ f.at \notin {"ask", "askall"}
        /\ f.then = <<"compactclose">> => b = <<>> /\ shown.what = "compact"
        /\ f.then = <<"settingsclose">> => b = <<>> /\ shown.what = "new"
    <3>1. /\ <<"compactclose">> # <<"settingsclose">> /\ <<"compactclose">> # <<>>
          /\ <<"settingsclose">> # <<>>
      OBVIOUS
    <3> QED BY <1>5, <2>1, <3>1
  <2> QED BY <1>1, <1>5, <2>1, <2>2, <2>5, <2>6, <2>7, <2>8, <2>9, CalledOK DEF n
<1> QED BY <1>1, <1>3, <1>4, <1>5

LEMMA DuplicateOK ==
  ASSUME SessionInv, NEW t \in Terms, DuplicateSession(t)
  PROVE  SessionInv'
<1>1. Command(t) /\ win[t].life = "open" /\ CreateNewTab(After(t), {win[t].closeOnExit}, <<>>)
  BY DEF DuplicateSession, terminalList
<1>2. /\ fault = NoFault /\ TypeOK /\ SettingsOK /\ After(t) \in Seq(Handlers)
      /\ WindowsOK(win, After(t)) /\ SettingsFrames(After(t), shown)
  BY <1>1, AfterOK
<1>3. FramesOK(win, After(t)) /\ Quiet(win, After(t))
  BY <1>1, AfterFrames
<1>4. {win[t].closeOnExit} \in SUBSET Policies
  BY <1>2 DEF TypeOK, Windows
<1> QED BY <1>1, <1>2, <1>3, <1>4, NewTabOK

LEMMA RestartOK ==
  ASSUME SessionInv, NEW t \in Terms, RestartSession(t)
  PROVE  SessionInv'
<1> DEFINE w == [win[t] EXCEPT !.term = FALSE, !.conn = "none", !.isSockDisconnected = FALSE]
           b == After(t)
<1>1. Command(t) /\ win[t].life = "open" /\ Len(stack) < MaxStack
  BY DEF RestartSession, terminalList, Command, Nested
<1>2. /\ fault = NoFault /\ TypeOK /\ SettingsOK /\ b \in Seq(Handlers) /\ shown = NoSettings
      /\ Len(b) = Len(stack) /\ Len(b) \in Nat /\ WindowsOK(win, b) /\ SettingsFrames(b, shown)
      /\ \A i \in DOMAIN b : b[i].at = "menudone" /\ b[i].t = t
  BY <1>1, AfterOK
<1>3. FramesOK(win, b) /\ Quiet(win, b)
  BY <1>1, AfterFrames
<1>4. win[t] \in Windows /\ win[t].reports <= 1
  BY <1>2 DEF TypeOK, WindowsOK, WindowOK
<1>5. w \in Windows /\ w.conn = "none" /\ w.life = "open" /\ w.reports <= 1
  BY <1>1, <1>4 DEF Windows
<1>6. UNCHANGED <<settingsVars, mainOpen, fault>>
  BY DEF RestartSession
<1>7. \/ win' = [win EXCEPT ![t] = Connected(w)] /\ stack' = b
      \/ win' = [win EXCEPT ![t] = w] /\ stack' = Append(b, Frame("noconn", t, <<>>))
  BY DEF RestartSession
<1> HIDE DEF w
<1>8. /\ Connected(w) \in Windows /\ Connected(w).conn = "kex" /\ Connected(w).reports = 0
      /\ Connected(w).life = "open"
  BY <1>5 DEF Connected, Windows
<1>9. CASE win' = [win EXCEPT ![t] = Connected(w)] /\ stack' = b
  <2>1. win'[t] = Connected(w)
    BY <1>2, <1>9 DEF TypeOK
  <2>2. FramesOK(win', b)
    BY <1>1, <1>8, <2>1, AfterFrames
  <2>3. WindowOK(win', b, t)
    BY <1>8, <2>1 DEF WindowOK
  <2>4. SettingsOK'
    <3>1. shown.what # "change" /\ SettingsFrames(stack', shown)
      BY <1>2, <1>9 DEF NoSettings
    <3> QED BY <1>2, <1>6, <3>1, SameSettings
  <2>5. /\ shown' \in [what : {"none", "compact", "new", "change"}, t : Terms \cup {NULL}]
        /\ settingsWindow' \in {"null", "new", "change"} /\ compactSettingsWindow' \in BOOLEAN
        /\ mainOpen' = mainOpen /\ fault' = fault
    BY <1>2, <1>6 DEF TypeOK, settingsVars
  <2>6. \A i \in DOMAIN b : FrameOK(win', b, i)
    BY <2>2 DEF FramesOK
  <2>7. Len(b) <= MaxStack
    BY <1>1, <1>2, SessionAssumption
  <2> HIDE DEF b
  <2> QED BY <1>2, <1>3, <1>8, <1>9, <2>3, <2>4, <2>5, <2>6, <2>7, LeftOK
<1>10. CASE win' = [win EXCEPT ![t] = w] /\ stack' = Append(b, Frame("noconn", t, <<>>))
  <2> DEFINE f == Frame("noconn", t, <<>>)
             n == Len(b) + 1
  <2>1. f \in Handlers /\ f.at = "noconn" /\ f.t = t /\ f.then = <<>>
    BY HandlerFields DEF Boxes
  <2>2. stack' = Append(b, f) /\ win'[t] = w
    BY <1>2, <1>10 DEF TypeOK
  <2>3. FramesOK(win', b)
    BY <1>1, <1>5, <2>2, AfterFrames
  <2> HIDE DEF f, b
  <2>4. Len(stack') = n /\ n \in DOMAIN stack' /\ stack'[n] = f
    BY <1>2, <2>1, <2>2, PushShape
  <2> HIDE DEF n
  <2>5. ASSUME NEW i \in DOMAIN b
        PROVE  FrameOK(win', b, i) /\ Together(b[i], f)
    BY <1>2, <2>1, <2>3, <2>5 DEF FramesOK, Together, Chain, Telling
  <2>6. FrameOK(win', stack', n)
    BY <1>5, <2>1, <2>2, <2>4 DEF FrameOK, Chain, Telling
  <2>7. WindowOK(win', stack', t)
    BY <1>5, <2>2 DEF WindowOK
  <2>8. /\ f.at \notin {"ask", "askall"} /\ f.then # <<"compactclose">>
        /\ f.then # <<"settingsclose">> /\ Len(b) < MaxStack
    BY <1>1, <1>2, <2>1
  <2> QED BY <1>2, <1>3, <1>5, <1>6, <1>10, <2>1, <2>2, <2>5, <2>6, <2>7, <2>8, CalledOK DEF n
<1> QED BY <1>7, <1>9, <1>10

LEMMA ReqCloseOK ==
  ASSUME SessionInv, NEW t \in Terms, ReqCloseTerminal(t)
  PROVE  SessionInv'
<1> DEFINE w == [win[t] EXCEPT !.userClosingTab = TRUE]
           b == After(t)
<1>1. Command(t) /\ win[t].life = "open" /\ Len(stack) < MaxStack
  BY DEF ReqCloseTerminal, terminalList, Nested
<1>2. /\ fault = NoFault /\ TypeOK /\ SettingsOK /\ b \in Seq(Handlers) /\ shown = NoSettings
      /\ Len(b) = Len(stack) /\ Len(b) \in Nat /\ WindowsOK(win, b) /\ SettingsFrames(b, shown)
      /\ Len(b) <= MaxStack /\ Len(b) <= 1
      /\ \A i \in DOMAIN b : i = 1 /\ b[i].at = "menudone" /\ b[i].t = t
  BY <1>1, AfterOK
<1>3. FramesOK(win, b) /\ Quiet(win, b)
  BY <1>1, AfterFrames
<1>4. win[t] \in Windows /\ WindowOK(win, b, t)
  BY <1>2 DEF TypeOK, WindowsOK
<1>5. /\ w \in Windows /\ w.conn = win[t].conn /\ w.life = "open" /\ w.reports = win[t].reports
      /\ w.userClosingTab
  BY <1>1, <1>4 DEF Windows
<1>6. UNCHANGED <<settingsVars, mainOpen, fault>>
  BY DEF ReqCloseTerminal
<1>7. \/ win' = [win EXCEPT ![t] = Close(w, b)] /\ stack' = b
      \/ win' = [win EXCEPT ![t] = w] /\ stack' = Append(b, Frame("ask", t, <<>>))
  BY <1>2 DEF ReqCloseTerminal, TypeOK
<1> HIDE DEF w
<1>8. /\ Close(w, b) \in Windows /\ Close(w, b).conn = w.conn /\ Close(w, b).reports = w.reports
      /\ Close(w, b).life = "closed" /\ Close(w, b).userClosingTab
  BY <1>2, <1>5, CloseFields
<1>9. CASE win' = [win EXCEPT ![t] = Close(w, b)] /\ stack' = b
  <2>1. win'[t] = Close(w, b)
    BY <1>2, <1>9 DEF TypeOK
  <2>2. FramesOK(win', b)
    BY <1>1, <1>8, <2>1, AfterFrames
  <2>3. WindowOK(win', b, t)
    BY <1>4, <1>5, <1>8, <2>1 DEF WindowOK
  <2>4. SettingsOK'
    <3>1. shown.what # "change" /\ SettingsFrames(stack', shown)
      BY <1>2, <1>9 DEF NoSettings
    <3> QED BY <1>2, <1>6, <3>1, SameSettings
  <2>5. /\ shown' \in [what : {"none", "compact", "new", "change"}, t : Terms \cup {NULL}]
        /\ settingsWindow' \in {"null", "new", "change"} /\ compactSettingsWindow' \in BOOLEAN
        /\ mainOpen' = mainOpen /\ fault' = fault
    BY <1>2, <1>6 DEF TypeOK, settingsVars
  <2>6. \A i \in DOMAIN b : FrameOK(win', b, i)
    BY <2>2 DEF FramesOK
  <2> HIDE DEF b
  <2> QED BY <1>2, <1>3, <1>8, <1>9, <2>3, <2>4, <2>5, <2>6, LeftOK
<1>10. CASE win' = [win EXCEPT ![t] = w] /\ stack' = Append(b, Frame("ask", t, <<>>))
  <2> DEFINE f == Frame("ask", t, <<>>)
             n == Len(b) + 1
  <2>1. f \in Handlers /\ f.at = "ask" /\ f.t = t /\ f.then = <<>>
    BY HandlerFields DEF Boxes
  <2>2. stack' = Append(b, f) /\ win'[t] = w
    BY <1>2, <1>10 DEF TypeOK
  <2>3. FramesOK(win', b)
    BY <1>1, <1>5, <2>2, AfterFrames
  <2> HIDE DEF f, b
  <2>4. /\ Len(stack') = n /\ n \in DOMAIN stack' /\ stack'[n] = f
        /\ \A i \in 1..Len(b) : stack'[i] = b[i]
        /\ n = 1 \/ (n = 2 /\ stack'[1].at = "menudone")
    <3>1. /\ Len(stack') = n /\ n \in DOMAIN stack' /\ stack'[n] = f
          /\ \A i \in 1..Len(b) : stack'[i] = b[i]
          /\ DOMAIN b = 1..Len(b)
      BY <1>2, <2>1, <2>2, PushShape
    <3> QED BY <1>2, <3>1
  <2> HIDE DEF n
  <2>5. ASSUME NEW i \in DOMAIN b
        PROVE  FrameOK(win', b, i) /\ Together(b[i], f)
    BY <1>2, <2>1, <2>3, <2>5 DEF FramesOK, Together, Chain, Telling
  <2>6. FrameOK(win', stack', n)
    BY <1>5, <2>1, <2>2, <2>4 DEF FrameOK, Chain, Telling
  <2>7. WindowOK(win', stack', t)
    BY <1>4, <1>5, <2>2 DEF WindowOK, Down
  <2>8. /\ f.then # <<"compactclose">>
        /\ f.then # <<"settingsclose">> /\ Len(b) < MaxStack
    BY <1>1, <1>2, <2>1
  <2> QED BY <1>2, <1>3, <1>5, <1>6, <1>10, <2>1, <2>2, <2>5, <2>6, <2>7, <2>8, CalledOK DEF n
<1> QED BY <1>7, <1>9, <1>10

\* The menu of a window and the question of closeEvent.
LEMMA FirstBoxOK ==
  ASSUME SessionInv, \/ \E t \in Terms : ShowContextMenu(t)
                     \/ CloseEvent
  PROVE  SessionInv'
<1>1. /\ AtMainWindow /\ Looping /\ stack = <<>> /\ shown = NoSettings
      /\ UNCHANGED <<win, settingsVars, fault>>
  BY DEF ShowContextMenu, CloseEvent, AtMainWindow
<1>2. /\ fault = NoFault /\ TypeOK /\ WindowsOK(win, stack) /\ FramesOK(win, stack) /\ SettingsOK
      /\ SettingsFrames(stack, shown)
  BY <1>1, LoopingQuiet
<1>3. win' = win /\ UNCHANGED settingsVars /\ fault' = NoFault
  BY <1>1, <1>2
<1>4. CASE stack' = <<>> /\ mainOpen' \in BOOLEAN
  <2>1. stack' = stack
    BY <1>1, <1>4
  <2>2. TypeOK'
    BY <1>1, <1>2, <1>3, <1>4, <2>1 DEF TypeOK, settingsVars
  <2>3. shown.what = "change" => win'[shown.t].life = "open" \/ ClosedItself(win'[shown.t])
    BY <1>2, <1>3 DEF SettingsOK
  <2>4. SettingsFrames(stack', shown)
    BY <1>2, <2>1
  <2>5. SettingsOK'
    BY <1>2, <1>3, <2>3, <2>4, SameSettings
  <2>6. WindowsOK(win', stack') /\ FramesOK(win', stack')
    BY <1>2, <1>3, <2>1
  <2> QED BY <1>3, <2>2, <2>5, <2>6, StillRunning
<1>5. ASSUME NEW g \in Handlers, stack' = <<g>>, mainOpen' = mainOpen, FrameOK(win, <<g>>, 1),
             g.then # <<"compactclose">>, g.then # <<"settingsclose">>
      PROVE  SessionInv'
  <2> DEFINE s == <<g>>
  <2>1. s \in Seq(Handlers) /\ Len(s) = 1 /\ DOMAIN s = {1} /\ s[1] = g
    OBVIOUS
  <2>2. stack' = s /\ FrameOK(win, s, 1)
    BY <1>5
  <2> HIDE DEF s
  <2>3. TypeOK'
    BY <1>2, <1>3, <1>5, <2>1, <2>2, SessionAssumption DEF TypeOK, settingsVars
  <2>4. FramesOK(win', stack')
    BY <1>3, <2>1, <2>2 DEF FramesOK, PairsOK
  <2>5. WindowsOK(win', stack')
    <3> SUFFICES ASSUME NEW u \in Terms
                 PROVE  WindowOK(win', stack', u)
      BY DEF WindowsOK
    <3> QED BY <1>1, <1>2, <1>3, WindowStays DEF WindowsOK
  <2>6. SettingsFrames(stack', shown)
    BY <1>1, <1>5, <2>1, <2>2 DEF SettingsFrames
  <2>7. shown.what = "change" => win'[shown.t].life = "open" \/ ClosedItself(win'[shown.t])
    BY <1>2, <1>3 DEF SettingsOK
  <2>8. SettingsOK'
    BY <1>2, <1>3, <2>6, <2>7, SameSettings
  <2> QED BY <1>3, <2>3, <2>4, <2>5, <2>8, StillRunning
<1>6. CASE CloseEvent
  <2>1. CASE terminalList = {}
    BY <1>1, <1>4, <1>6, <2>1 DEF CloseEvent
  <2>2. CASE terminalList # {}
    <3> DEFINE g == Frame("askall", NULL, <<>>)
    <3>1. g \in Handlers /\ g.at = "askall" /\ g.then = <<>>
      BY DEF Frame, Handlers, Boxes
    <3>2. stack' = <<g>> /\ mainOpen' = mainOpen
      BY <1>6, <2>2 DEF CloseEvent
    <3> HIDE DEF g
    <3>3. <<g>>[1] = g
      OBVIOUS
    <3>4. FrameOK(win, <<g>>, 1)
      BY <3>1, <3>3 DEF FrameOK, Chain, Telling
    <3>5. g.then # <<"compactclose">> /\ g.then # <<"settingsclose">>
      BY <3>1
    <3> QED BY <1>5, <3>1, <3>2, <3>4, <3>5
  <2> QED BY <2>1, <2>2
<1>7. ASSUME NEW t \in Terms, ShowContextMenu(t)
      PROVE  SessionInv'
  <2> DEFINE c == IF win[t].isSockDisconnected THEN <<"restart">> ELSE <<>>
             g == Frame("menu", t, c)
  <2>1. /\ c \in {<<>>, <<"restart">>} /\ c # <<"compactclose">> /\ c # <<"settingsclose">>
        /\ c \in {<<>>} \cup Notifications \cup {<<d>> : d \in Calls}
    BY DEF Calls
  <2>2. g \in Handlers /\ g.at = "menu" /\ g.t = t /\ g.then = c
    BY <2>1, HandlerFields DEF Boxes
  <2>3. stack' = <<g>> /\ mainOpen' = mainOpen /\ win[t].life = "open"
    BY <1>7 DEF ShowContextMenu, terminalList
  <2> HIDE DEF g, c
  <2>4. <<g>>[1] = g
    OBVIOUS
  <2>5. FrameOK(win, <<g>>, 1)
    BY <2>1, <2>2, <2>3, <2>4 DEF FrameOK, Chain, Telling
  <2> QED BY <1>5, <2>1, <2>2, <2>3, <2>5
<1> QED BY <1>6, <1>7

-----------------------------------------------------------------------------
(* The settings windows.                                                   *)

\* One is opened or closed and no session changes.
LEMMA SettingsStep ==
  ASSUME TypeOK, fault = NoFault, NEW b \in Seq(Handlers), Len(b) <= MaxStack,
         FramesOK(win, b), WindowsOK(win, b), \A sh : SettingsFrames(b, sh), stack' = b,
         UNCHANGED <<win, mainOpen, fault>>,
         settingsWindow' \in {"null", "change"}, compactSettingsWindow' \in BOOLEAN,
         settingsWindow' # "null" => shown'.what = settingsWindow',
         compactSettingsWindow' => shown'.what = "compact",
         \/ shown' = NoSettings
         \/ shown' \in {[what |-> "compact", t |-> NULL], [what |-> "new", t |-> NULL]}
         \/ \E t \in Terms : shown' = [what |-> "change", t |-> t] /\ win[t].life = "open"
  PROVE  SessionInv'
<1>1. win' = win /\ mainOpen' = mainOpen /\ fault' = NoFault
  OBVIOUS
<1>2. /\ shown' \in [what : {"none", "compact", "new", "change"}, t : Terms \cup {NULL}]
      /\ shown'.what = "none" => shown' = NoSettings
      /\ shown'.what = "change" => shown'.t \in Terms /\ win'[shown'.t].life = "open"
  BY <1>1 DEF NoSettings
<1>3. TypeOK'
  BY <1>1, <1>2 DEF TypeOK
<1>4. SettingsFrames(stack', shown')
  OBVIOUS
<1>5. SettingsOK'
  BY <1>2, <1>4 DEF SettingsOK, SettingsFrames, SettingsPointersLive
<1>6. FramesOK(win', stack') /\ WindowsOK(win', stack')
  BY <1>1
<1> QED BY <1>1, <1>3, <1>5, <1>6, StillRunning

LEMMA OpenSettingsOK ==
  ASSUME SessionInv, NEW t \in Terms, OpenNewCompactSession(t) \/ ChangeSettings(t)
  PROVE  SessionInv'
<1>1. Command(t)
  BY DEF OpenNewCompactSession, ChangeSettings
<1>2. /\ fault = NoFault /\ TypeOK /\ SettingsOK /\ shown = NoSettings /\ After(t) \in Seq(Handlers)
      /\ Len(After(t)) <= MaxStack /\ WindowsOK(win, After(t))
      /\ \A sh : SettingsFrames(After(t), sh)
      /\ After(t) # <<>> => win[t].life = "open" \/ ClosedItself(win[t])
  BY <1>1, AfterOK
<1>3. FramesOK(win, After(t))
  <2>1. CASE After(t) = <<>>
    BY <2>1 DEF FramesOK, PairsOK
  <2>2. CASE After(t) # <<>>
    BY <1>1, <1>2, <2>2, AfterFrames
  <2> QED BY <2>1, <2>2
<1>4. settingsWindow = "null" /\ compactSettingsWindow = FALSE
  BY <1>2 DEF SettingsOK, SettingsPointersLive, NoSettings, TypeOK
<1>5. stack' = After(t) /\ UNCHANGED <<win, mainOpen, fault>>
  BY DEF OpenNewCompactSession, ChangeSettings
<1>6. CASE OpenNewCompactSession(t)
  <2>1. /\ shown' = [what |-> "compact", t |-> NULL] /\ compactSettingsWindow' = TRUE
        /\ settingsWindow' = "null"
    BY <1>4, <1>6 DEF OpenNewCompactSession
  <2>2. compactSettingsWindow' \in BOOLEAN /\ shown'.what = "compact"
    BY <2>1
  <2> QED BY <1>2, <1>3, <1>5, <2>1, <2>2, SettingsStep
<1>7. CASE ChangeSettings(t)
  <2>1. /\ shown' = [what |-> "change", t |-> t] /\ compactSettingsWindow' = FALSE
        /\ settingsWindow' = "change" /\ win[t].life = "open"
    BY <1>4, <1>7 DEF ChangeSettings, terminalList
  <2>2. compactSettingsWindow' \in BOOLEAN /\ shown'.what = "change"
    BY <2>1
  <2> QED BY <1>2, <1>3, <1>5, <2>1, <2>2, SettingsStep
<1> QED BY <1>6, <1>7

LEMMA AtSettingsOK ==
  ASSUME SessionInv, NEW what, AtSettings(what)
  PROVE  /\ fault = NoFault /\ TypeOK /\ SettingsOK /\ shown.what = what /\ stack = <<>>
         /\ stack \in Seq(Handlers) /\ Len(stack) <= MaxStack /\ Quiet(win, stack)
         /\ WindowsOK(win, stack) /\ FramesOK(win, stack) /\ \A sh : SettingsFrames(stack, sh)
  BY LoopingQuiet DEF AtSettings, SettingsFrames

LEMMA UserSettingsOK ==
  ASSUME SessionInv, UserSettings
  PROVE  SessionInv'
<1>1. PICK what \in {"compact", "new", "change"} : AtSettings(what)
  BY DEF UserSettings, CompactOpen, CompactCancel, CompactDetails, SettingsOpen, SettingsCancel,
         ChangeAccepted, ChangeRejected
<1>2. /\ fault = NoFault /\ TypeOK /\ SettingsOK /\ stack = <<>>
      /\ stack \in Seq(Handlers) /\ Len(stack) <= MaxStack /\ Quiet(win, stack)
      /\ WindowsOK(win, stack) /\ FramesOK(win, stack) /\ \A sh : SettingsFrames(stack, sh)
  BY <1>1, AtSettingsOK
<1>3. CASE CompactOpen
  <2>1. shown.what = "compact" /\ CreateNewTab(stack, Policies, <<"compactclose">>)
    BY <1>3 DEF CompactOpen, AtSettings
  <2> QED BY <1>2, <2>1, NewTabOK
<1>4. CASE SettingsOpen
  <2>1. shown.what = "new" /\ CreateNewTab(stack, Policies, <<"settingsclose">>)
    BY <1>4 DEF SettingsOpen, AtSettings
  <2> QED BY <1>2, <2>1, NewTabOK
<1>5. CASE CompactCancel \/ ChangeRejected \/ CompactDetails
  <2>1. /\ shown' = NoSettings \/ shown' = [what |-> "new", t |-> NULL]
        /\ settingsWindow' = "null" /\ compactSettingsWindow' = FALSE
        /\ stack' = stack /\ UNCHANGED <<win, mainOpen, fault>>
    BY <1>5 DEF CompactCancel, ChangeRejected, CompactDetails, CompactClose, on_settingsWindowClose
  <2>2. settingsWindow' \in {"null", "change"} /\ compactSettingsWindow' \in BOOLEAN
    BY <2>1
  <2> QED BY <1>2, <2>1, <2>2, SettingsStep
<1>6. CASE SettingsCancel
  <2>1. shown.what = "new" /\ shown' = NoSettings
        /\ UNCHANGED <<win, stack, settingsWindow, compactSettingsWindow, mainOpen, fault>>
    BY <1>6 DEF SettingsCancel, AtSettings
  <2>2. settingsWindow = "null" /\ compactSettingsWindow = FALSE
    BY <1>2, <2>1 DEF SettingsOK, SettingsPointersLive, TypeOK
  <2>3. /\ settingsWindow' \in {"null", "change"} /\ compactSettingsWindow' \in BOOLEAN
        /\ settingsWindow' = "null" /\ compactSettingsWindow' = FALSE
        /\ stack' = stack /\ UNCHANGED <<win, mainOpen, fault>>
    BY <2>1, <2>2
  <2> QED BY <1>2, <2>1, <2>3, SettingsStep
<1>7. CASE ChangeAccepted
  <2> DEFINE t == shown.t
  <2>1. /\ t \in Terms /\ shown.what = "change"
        /\ win[t].life = "open" \/ ClosedItself(win[t])
    BY <1>2, <1>7 DEF ChangeAccepted, AtSettings, SettingsOK
  <2>2. win[t] \in Windows
    BY <1>2, <2>1 DEF TypeOK
  <2> HIDE DEF t
  <2>3. CASE t \notin terminalList
    <3>1. Fail("settings", t)
      BY <1>7, <2>3 DEF ChangeAccepted, t
    <3>2. win[t].closeOnExit # "never"
      BY <2>1, <2>3 DEF terminalList, ClosedItself
    <3> QED BY <1>2, <2>1, <3>1, <3>2, Failing
  <2>4. CASE t \in terminalList /\ ~win[t].term
    <3>1. Fail("noterm", t)
      BY <1>7, <2>4 DEF ChangeAccepted, t
    <3> QED BY <1>2, <2>1, <3>1, Failing
  <2>5. CASE t \in terminalList /\ win[t].term
    <3>1. /\ \E p \in Policies : win' = [win EXCEPT ![t].closeOnExit = p]
          /\ shown' = NoSettings /\ settingsWindow' = "null" /\ compactSettingsWindow' = FALSE
          /\ stack' = stack /\ mainOpen' = mainOpen /\ fault' = fault
      BY <1>7, <2>5 DEF ChangeAccepted, on_settingsWindowClose, t
    <3>2. PICK p \in Policies : win' = [win EXCEPT ![t].closeOnExit = p]
      BY <3>1
    <3> DEFINE v == [win[t] EXCEPT !.closeOnExit = p]
    <3>3. win' = [win EXCEPT ![t] = v] /\ win'[t] = v
      BY <1>2, <2>1, <3>2 DEF TypeOK
    <3>4. /\ v \in Windows /\ v.life = win[t].life /\ v.conn = win[t].conn
          /\ v.reports = win[t].reports /\ v.userClosingTab = win[t].userClosingTab
          /\ v.isSockDisconnected = win[t].isSockDisconnected
      BY <2>2 DEF Windows
    <3> HIDE DEF v
    <3>5. WindowOK(win', stack, t)
      <4>1. WindowOK(win, stack, t)
        BY <1>2, <2>1 DEF WindowsOK
      <4> QED BY <3>3, <3>4, <4>1 DEF WindowOK, Down
    <3>6. SettingsOK'
      BY <1>2, <3>1 DEF SettingsOK, SettingsPointersLive, NoSettings
    <3>7. \A i \in DOMAIN stack : FrameOK(win', stack, i)
      BY <1>2
    <3>8. /\ shown' \in [what : {"none", "compact", "new", "change"}, t : Terms \cup {NULL}]
          /\ settingsWindow' \in {"null", "new", "change"} /\ compactSettingsWindow' \in BOOLEAN
      BY <3>1 DEF NoSettings
    <3> QED BY <1>2, <2>1, <3>1, <3>3, <3>4, <3>5, <3>6, <3>7, <3>8, LeftOK
  <2> QED BY <2>3, <2>4, <2>5
<1> QED BY <1>3, <1>4, <1>5, <1>6, <1>7 DEF UserSettings

-----------------------------------------------------------------------------
(* The theorems.                                                           *)

\* Every step preserves the invariant.
LEMMA SessionStep ==
  ASSUME SessionInv, [Next]_vars
  PROVE  SessionInv'
<1>1. CASE Returns
  BY <1>1, RunOK, MenuOK DEF Returns
<1>2. CASE UserAnswers
  BY <1>2, FailureSeenOK, HostKeyAnsweredOK, FatalSeenOK, ExitSeenOK, CloseAnsweredOK,
     CloseAllAnsweredOK, MenuOK DEF UserAnswers
<1>3. CASE UserSettings
  BY <1>3, UserSettingsOK
<1>4. CASE CloseEvent
  BY <1>4, FirstBoxOK
<1>5. ASSUME NEW t \in Terms, PaintEvent(t)
      PROVE  SessionInv'
  <2>1. fault = NoFault /\ Fail("noterm", t)
    BY <1>5 DEF PaintEvent, Looping
  <2> QED BY <2>1, Failing
<1>6. ASSUME NEW t \in Terms,
             \/ DeferredDelete(t) \/ ConnectionEnds(t) \/ ConfirmHostKey(t) \/ KnownHostKey(t)
      PROVE  SessionInv'
  BY <1>6, DeferredDeleteOK, ConnectionEndsOK, ConfirmHostKeyOK, KnownHostKeyOK
<1>7. ASSUME NEW t \in Terms,
             \/ DuplicateSession(t) \/ RestartSession(t) \/ ReqCloseTerminal(t)
             \/ ShowContextMenu(t) \/ OpenNewCompactSession(t) \/ ChangeSettings(t)
      PROVE  SessionInv'
  BY <1>7, DuplicateOK, RestartOK, ReqCloseOK, FirstBoxOK, OpenSettingsOK
<1>8. CASE UNCHANGED vars
  BY <1>8 DEF vars, SessionInv, HandlersKeepTheirWindow, TypeOK, NeverClosingIsSafe, LossToldOnce,
              SettingsOK, SettingsPointersLive
<1> QED BY <1>1, <1>2, <1>3, <1>4, <1>5, <1>6, <1>7, <1>8 DEF Next

LEMMA SessionStart ==
  ASSUME Init
  PROVE  SessionInv
<1>1. win \in [Terms -> Windows] /\ \A t \in Terms : win[t] = Unborn
  BY NewWindowFields DEF Init
<1>2. \A t \in Terms : win[t].reports = 0 /\ win[t].conn = "none"
  BY <1>1, NewWindowFields
<1>3. TypeOK
  <2>1. stack \in Seq(Handlers) /\ Len(stack) <= MaxStack
    <3>1. stack = <<>> /\ Len(stack) = 0 /\ 0 <= MaxStack
      BY SessionAssumption DEF Init
    <3> QED BY <3>1
  <2>2. shown \in [what : {"none", "compact", "new", "change"}, t : Terms \cup {NULL}]
    BY DEF Init, NoSettings
  <2>3. mainOpen \in BOOLEAN /\ compactSettingsWindow \in BOOLEAN /\ settingsWindow = "null"
    BY DEF Init
  <2> QED BY <1>1, <2>1, <2>2, <2>3 DEF TypeOK
<1>4. \A t \in Terms : WindowOK(win, stack, t)
  BY <1>2 DEF WindowOK
<1>5. SettingsOK
  BY DEF Init, SettingsOK, SettingsPointersLive, NoSettings
<1>6. HandlersKeepTheirWindow /\ NeverClosingIsSafe /\ LossToldOnce
  BY <1>2, <1>3 DEF Init, HandlersKeepTheirWindow, NeverClosingIsSafe, LossToldOnce, NoFault
<1>7. (\A i \in DOMAIN stack : FrameOK(win, stack, i)) /\ PairsOK(stack)
  BY DEF Init, PairsOK
<1> QED BY <1>4, <1>5, <1>6, <1>7 DEF SessionInv

\* The inductive invariant, for any number of windows and any depth of nested boxes.
THEOREM SessionSafe == Spec => []SessionInv
<1>1. Init => SessionInv
  BY SessionStart
<1>2. SessionInv /\ [Next]_vars => SessionInv'
  BY SessionStep
<1> QED BY <1>1, <1>2, PTL DEF Spec

\* A handler that was suspended by a box of its own window finds the window when the
\* box is answered: the question whether to close (reqCloseTerminal), the boxes of
\* qt_connection_fatal and qt_notify_remote_exit, that of a failed start.
THEOREM SuspendedHandlersAreSafe == Spec => []HandlersKeepTheirWindow
<1>1. SessionInv => HandlersKeepTheirWindow
  BY DEF SessionInv
<1> QED BY <1>1, SessionSafe, PTL

\* showContextMenu and on_changeSettingsTabComplete meet a window that is gone only if
\* its session was set to close by itself.
THEOREM NeverClosingSessionsAreSafe == Spec => []NeverClosingIsSafe
<1>1. SessionInv => NeverClosingIsSafe
  BY DEF SessionInv
<1> QED BY <1>1, SessionSafe, PTL

\* The user is told at most once that a connection has ended.
THEOREM EndIsToldOnce == Spec => []LossToldOnce
<1>1. SessionInv => LossToldOnce
  BY DEF SessionInv
<1> QED BY <1>1, SessionSafe, PTL

\* When nobody is telling of it any more, an ended session is marked as disconnected,
\* or the user has once asked to close it.
THEOREM EndIsMarked == Spec => []LossIsMarked
<1>1. SessionInv => LossIsMarked
  <2> SUFFICES ASSUME SessionInv, NEW t \in Terms, win[t].life = "open", win[t].conn = "down",
                      fault = NoFault,
                      \A i \in DOMAIN stack : stack[i].t # t \/ stack[i].at = "menu"
               PROVE  win[t].isSockDisconnected \/ win[t].userClosingTab
    BY DEF LossIsMarked, terminalList
  <2>1. WindowOK(win, stack, t)
    BY DEF SessionInv
  <2> QED BY <2>1 DEF WindowOK, Down, Telling
<1> QED BY <1>1, SessionSafe, PTL

\* GuiMainWindow's pointers to settings windows point to the one on the screen.
THEOREM PointersAreLive == Spec => []SettingsPointersLive
<1>1. SessionInv => SettingsPointersLive
  BY DEF SessionInv, SettingsOK, SettingsPointersLive
<1> QED BY <1>1, SessionSafe, PTL
=============================================================================
