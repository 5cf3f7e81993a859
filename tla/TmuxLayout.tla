----------------------------- MODULE TmuxLayout -----------------------------
(***************************************************************************)
(* tmux's window layouts (tmux/TmuxLayout.cpp): the parser that turns the  *)
(* text of a layout into a tree of panes.                                  *)
(*                                                                         *)
(* _mapLayout keeps one TmuxLayout object for each window, and             *)
(* createNewWindow calls initLayout on it again whenever the window is     *)
(* listed again, so a parse may start from what an earlier one left.       *)
(*                                                                         *)
(* A text is a sequence of characters; its numbers have one digit.         *)
(***************************************************************************)
EXTENDS Naturals, Sequences, SequencesExt

CONSTANTS MaxDepth,    \* bound: depth of a tree
          MaxParses    \* bound: initLayout calls on one object

ASSUME LayoutAssumption == MaxDepth \in Nat /\ MaxParses \in Nat

VARIABLES
  tree,     \* the layout tmux has
  ids,      \* whether tmux writes pane ids; old versions do not
  text,     \* the text tmux writes for it
  layout,   \* the TmuxLayout object
  ok,       \* what the last initLayout returned
  parses    \* initLayout calls so far

vars == <<tree, ids, text, layout, ok, parses>>

Digits == {"0", "1", "2", "3", "4", "5", "6", "7", "8", "9"}
NoPane == "-1"          \* the default of paneid, an unsigned -1

Fresh == [type |-> "NONE", width |-> "0", height |-> "0", x |-> "0", y |-> "0",
          paneid |-> NoPane, child |-> <<>>]

-----------------------------------------------------------------------------
(* tmux (external): the trees it can have, and the text of each.           *)

Node(type, pane, kids) ==
  [type |-> type, width |-> "1", height |-> "2", x |-> "3", y |-> "4", paneid |-> pane, child |-> kids]

RECURSIVE Trees(_)
Trees(d) ==
  {Node("LEAF", p, <<>>) : p \in {"0", "5"}} \cup
  IF d = 0 THEN {}
  ELSE {Node(t, NoPane, <<a, b>>) : t \in {"VERTICAL", "HORIZONTAL"},
                                    a \in Trees(d - 1), b \in Trees(d - 1)}

RECURSIVE Render(_, _)
Render(t, withIds) ==
  <<t.width, "x", t.height, ",", t.x, ",", t.y>> \o
  CASE t.type = "LEAF" -> IF withIds THEN <<",", t.paneid>> ELSE <<>>
    [] t.type = "VERTICAL" -> <<"[">> \o Render(t.child[1], withIds) \o <<",">> \o Render(t.child[2], withIds) \o <<"]">>
    [] t.type = "HORIZONTAL" -> <<"{">> \o Render(t.child[1], withIds) \o <<",">> \o Render(t.child[2], withIds) \o <<"}">>

-----------------------------------------------------------------------------
(* The istringstream.  A stream is what is left of it; one that has failed *)
(* is at its end.                                                          *)

Peek(s) == IF s = <<>> THEN "eof" ELSE Head(s)
Rest(s) == IF s = <<>> THEN <<>> ELSE Tail(s)

\* iresp >> l.f: at the end of the stream the field keeps its value; if there is
\* no number it becomes 0 and the stream has failed.
ReadField(l, f, s) ==
  IF s = <<>> THEN [l |-> l, s |-> <<>>, ok |-> TRUE]
  ELSE IF Head(s) \in Digits THEN [l |-> [l EXCEPT ![f] = Head(s)], s |-> Tail(s), ok |-> TRUE]
  ELSE [l |-> [l EXCEPT ![f] = "0"], s |-> <<>>, ok |-> TRUE]

\* Mutant: y is read before x.
ReadHeaderSwapped(l, s) ==
  FoldLeft(
    LAMBDA a, f :
      IF ~a.ok THEN a
      ELSE LET r == ReadField(a.l, f.field, a.s) IN
           [l |-> r.l, s |-> Rest(r.s), ok |-> Peek(r.s) = f.then],
    [l |-> l, s |-> s, ok |-> TRUE],
    << [field |-> "width", then |-> "x"], [field |-> "height", then |-> ","],
       [field |-> "y", then |-> ","] >>)

\* Fields that are followed by a given character, up to the first that is not.
ReadHeader(l, s) ==
  FoldLeft(
    LAMBDA a, f :
      IF ~a.ok THEN a
      ELSE LET r == ReadField(a.l, f.field, a.s) IN
           [l |-> r.l, s |-> Rest(r.s), ok |-> Peek(r.s) = f.then],
    [l |-> l, s |-> s, ok |-> TRUE],
    << [field |-> "width", then |-> "x"], [field |-> "height", then |-> ","],
       [field |-> "x", then |-> ","] >>)

\* What cannot be parsed has no type.
Failed(r) == [l |-> [r.l EXCEPT !.type = "NONE"], s |-> r.s, ok |-> FALSE]

\* Mutant: a child is put in front.
AddChildFront(l, c) == [l EXCEPT !.child = <<c>> \o @]

\* push_back of a parsed child.
AddChild(l, c) == [l EXCEPT !.child = Append(@, c)]

\* What may follow a child.
Separators == {"]", "}", ","}

RECURSIVE ParseLayout(_, _), ParseLayoutChildren(_, _)
\* parseLayoutChildren: whether a child could be parsed is not looked at, only
\* the character that follows it.
ParseLayoutChildren(l, s) ==
  LET c == ParseLayout(Fresh, s)
      more == AddChild(l, c.l)
      ch == Peek(c.s)
  IN
  IF ch \notin Separators THEN [l |-> l, s |-> Rest(c.s), ok |-> FALSE]
  ELSE IF ch = "," THEN ParseLayoutChildren(more, Rest(c.s))
  ELSE [l |-> more, s |-> Rest(c.s), ok |-> TRUE]

\* parseLayout, into the object l.
ParseLayout(l, s) ==
  LET h == ReadHeader(l, s)
      y == ReadField(h.l, "y", h.s)
      ch == Peek(y.s)
      type == IF ch = "[" THEN "VERTICAL" ELSE "HORIZONTAL"
      kids == ParseLayoutChildren([y.l EXCEPT !.type = type], Rest(y.s))
      leaf == ReadField([y.l EXCEPT !.type = "LEAF"], "paneid", Rest(y.s))
  IN
  IF ~h.ok THEN Failed(h)
  ELSE IF ch \in {"[", "{"} THEN IF kids.ok THEN kids ELSE Failed(kids)
  ELSE IF ch # "," THEN Failed([y EXCEPT !.s = Rest(y.s)])
  ELSE leaf

-----------------------------------------------------------------------------
Init ==
  /\ tree \in Trees(MaxDepth)
  /\ ids \in BOOLEAN
  /\ text = Render(tree, ids)
  /\ layout = Fresh /\ ok = FALSE /\ parses = 0

\* initLayout of the window's object.
InitLayout ==
  /\ parses < MaxParses
  /\ parses' = parses + 1
  /\ LET r == ParseLayout(layout, text) IN layout' = r.l /\ ok' = r.ok
  /\ UNCHANGED <<tree, ids, text>>

\* tmux's layout becomes another; the window will be listed again.
SrvLayout ==
  /\ parses > 0 /\ parses < MaxParses
  /\ tree' \in Trees(1)
  /\ text' = Render(tree', ids)
  /\ UNCHANGED <<ids, layout, ok, parses>>

Next == InitLayout \/ SrvLayout

Spec == Init /\ [][Next]_vars

-----------------------------------------------------------------------------
RECURSIVE Types(_)
Types(l) == {l.type} \cup UNION {Types(l.child[i]) : i \in DOMAIN l.child}

\* A layout that is written with pane ids is understood: parsed into a new
\* object it gives tmux's tree, panes, sizes and directions, at every depth.
ReadsWhatTmuxWrites ==
  [][InitLayout /\ parses = 0 /\ ids => ok' /\ layout' = tree]_vars

\* Listed again, a window ends with the children it now has: what an earlier
\* parse left comes before them and never mixes with them.  A layout that is
\* accepted has a type at every node, as createNewWindowPane asserts, although
\* parseLayoutChildren ignores that a child could not be parsed.
ReparseEndsWithTree ==
  [][InitLayout => /\ ok' => "NONE" \notin Types(layout')
                   /\ ids => IsSuffix(tree.child, layout'.child) /\ layout'.type = tree.type]_vars
=============================================================================
