------------------------- MODULE TmuxGatewayProofs -------------------------
(***************************************************************************)
(* Proofs about TmuxGateway, for any window and pane ids and any bounds:   *)
(* the gateway uses no deleted window or gateway but in the four situations*)
(* NoFaultUnprovoked names, it implements the command channel, and a pane  *)
(* shows its history and then all output in order.                         *)
(*                                                                         *)
(* The handlers that create panes loop over the windows and panes of an    *)
(* answer.  What a loop keeps is proved by induction, which is made with   *)
(* sets of numbers, from the fact that < is well-founded.                  *)
(***************************************************************************)
EXTENDS TmuxGateway, WellFoundedInduction, TLAPS

-----------------------------------------------------------------------------
(* Induction and recursion.                                                *)

\* A set with 0 and the successor of each of its numbers has every number.
LEMMA SetInduction ==
  ASSUME NEW S, 0 \in S, \A n \in Nat : n \in S => n + 1 \in S
  PROVE  Nat \subseteq S
<1> DEFINE T == Nat \ S
<1> SUFFICES ASSUME T # {} PROVE FALSE
  OBVIOUS
<1>1. PICK x \in T : \A y \in T : ~(<<y, x>> \in OpToRel(<, Nat))
  <2> HIDE DEF T
  <2>1. T \subseteq Nat
    BY DEF T
  <2> QED BY <2>1, WFMin, NatLessThanWellFounded
<1>2. x # 0 /\ x - 1 \in Nat /\ x - 1 < x
  BY DEF T
<1>3. x - 1 \notin T
  BY <1>1, <1>2 DEF OpToRel
<1>4. x \in S
  BY <1>2, <1>3
<1> QED BY <1>4

\* What a loop keeps at each turn holds all along.
LEMMA LoopKeeps ==
  ASSUME NEW S, NEW m \in Nat, NEW f, f[0] \in S,
         \A n \in 1..m : f[n - 1] \in S => f[n] \in S
  PROVE  \A n \in 0..m : f[n] \in S
<1> DEFINE T == {n \in Nat : n <= m => f[n] \in S}
<1>1. 0 \in T
  OBVIOUS
<1>2. ASSUME NEW n \in Nat, n \in T PROVE n + 1 \in T
  <2> SUFFICES ASSUME n + 1 <= m PROVE f[n + 1] \in S
    OBVIOUS
  <2>1. n + 1 \in 1..m /\ (n + 1) - 1 = n /\ n <= m
    OBVIOUS
  <2> QED BY <1>2, <2>1
<1>3. Nat \subseteq T
  <2> HIDE DEF T
  <2> QED BY <1>1, <1>2, SetInduction
<1> QED BY <1>3

\* A loop of m turns on values of S, from c: turn n takes x to G[<<n, x>>].
IsLoop(G, m, S, c) == m \in Nat /\ c \in S /\ G \in [(1..m) \X S -> S]
IsRun(f, G, m, S, c) ==
  f \in [0..m -> S] /\ f[0] = c /\ \A n \in 1..m : f[n] = G[<<n, f[n - 1]>>]

\* A loop given by a recursive function has a value at each turn, made from the one before.
LEMMA LoopRuns ==
  ASSUME NEW S, NEW m, NEW c, NEW G, IsLoop(G, m, S, c)
  PROVE  \E f : IsRun(f, G, m, S, c)
<1> USE DEF IsLoop, IsRun
<1> DEFINE Is(f, k) == /\ f \in [0..k -> S] /\ f[0] = c
                       /\ \A n \in 1..k : f[n] = G[<<n, f[n - 1]>>]
           T == {k \in Nat : k <= m => \E f : Is(f, k)}
<1>1. 0 \in T
  <2>1. Is([n \in 0..0 |-> c], 0)
    OBVIOUS
  <2> QED BY <2>1
<1>2. ASSUME NEW k \in Nat, k \in T PROVE k + 1 \in T
  <2> SUFFICES ASSUME k + 1 <= m PROVE \E f : Is(f, k + 1)
    OBVIOUS
  <2>1. PICK f : Is(f, k)
    BY <1>2
  <2> DEFINE g == [n \in 0..(k + 1) |-> IF n = k + 1 THEN G[<<n, f[k]>>] ELSE f[n]]
  <2>2. f[k] \in S /\ k + 1 \in 1..m
    BY <2>1
  <2>3. G[<<k + 1, f[k]>>] \in S
    BY <2>2
  <2>4. g \in [0..(k + 1) -> S]
    <3>1. \A n \in 0..(k + 1) : n # k + 1 => n \in 0..k
      OBVIOUS
    <3> QED BY <2>1, <2>3, <3>1
  <2>5. g[0] = c
    BY <2>1
  <2>6. ASSUME NEW n \in 1..(k + 1) PROVE g[n] = G[<<n, g[n - 1]>>]
    <3>1. n - 1 \in 0..k /\ g[n - 1] = f[n - 1]
      OBVIOUS
    <3>2. CASE n = k + 1
      <4>1. g[n] = G[<<n, f[k]>>] /\ n - 1 = k
        BY <3>2
      <4> QED BY <3>1, <4>1
    <3>3. CASE n # k + 1
      <4>1. n \in 1..k /\ g[n] = f[n]
        BY <3>3
      <4> HIDE DEF g
      <4> QED BY <2>1, <3>1, <4>1
    <3> QED BY <3>2, <3>3
  <2> HIDE DEF g
  <2> QED BY <2>4, <2>5, <2>6
<1>3. Nat \subseteq T
  <2> HIDE DEF T
  <2> QED BY <1>1, <1>2, SetInduction
<1>4. m \in T
  <2> HIDE DEF T
  <2> QED BY <1>3
<1> QED BY <1>4

\* Sequences put together.
LEMMA ConcatProps ==
  ASSUME NEW T, NEW s \in Seq(T), NEW t \in Seq(T)
  PROVE  /\ s \o t \in Seq(T) /\ Len(s \o t) = Len(s) + Len(t)
         /\ Len(s) \in Nat /\ Len(t) \in Nat /\ DOMAIN (s \o t) = 1..(Len(s) + Len(t))
         /\ \A j \in 1..Len(s \o t) : (s \o t)[j] = IF j <= Len(s) THEN s[j] ELSE t[j - Len(s)]
OBVIOUS

-----------------------------------------------------------------------------
(* Creating panes.                                                         *)

\* The state of the loops: the objects, the two tables, the commands to send.
Work == [objs : Seq(Object), map : [Id -> Nat], lay : [Id -> Seq(Id)],
         cmds : Seq(Command), bad : BOOLEAN]

\* While the loops run: the objects made before are as they were, the table and the
\* commands name objects there are, and only a pane the user closed is used in vain.
WorkOK(a) ==
  /\ Len(objs) <= Len(a.objs)
  /\ \A i \in 1..Len(objs) : a.objs[i] = objs[i]
  /\ \A p \in Id : a.map[p] <= Len(a.objs) /\ (a.map[p] # 0 => a.objs[a.map[p]].pane = p)
  /\ \A i \in 1..Len(a.objs) :
       /\ a.objs[i].win # "closed"
       /\ a.objs[i].win = "open" => a.map[a.objs[i].pane] = i \/ a.objs[i].dropped
  /\ \A i \in 1..Len(a.cmds) : a.cmds[i].recv <= Len(a.objs)
  /\ a.bad => \E i \in 1..Len(a.objs) : a.objs[i].win = "user-closed"

\* What the loops make is new: the table changes to new objects only, which show nothing
\* yet, and the commands are theirs; the history of a pane is the first thing asked for.
Fresh(a) ==
  /\ \A p \in Id : a.map[p] = mapPanes[p] \/ a.map[p] > Len(objs)
  /\ \A i \in 1..Len(a.objs) : i > Len(objs) => ~a.objs[i].ready /\ a.objs[i].shown = <<>>
  /\ \A i \in 1..Len(a.cmds) :
       /\ a.cmds[i].recv > Len(objs)
       /\ a.cmds[i].cb = "CB_DUMP_HISTORY" =>
            /\ a.objs[a.cmds[i].recv].pane = a.cmds[i].arg
            /\ \A j \in 1..(i - 1) : a.cmds[j].recv # a.cmds[i].recv

GoodWork == {a \in Work : WorkOK(a) /\ Fresh(a)}

\* The fields of an object.
LEMMA ObjectFields ==
  \A o \in Object : /\ o.pane \in Id /\ o.ready \in BOOLEAN /\ o.shown \in Seq(Nat)
                    /\ o.win \in {"open", "closed", "user-closed"}
                    /\ o.tab \in BOOLEAN /\ o.split \in BOOLEAN /\ o.dropped \in BOOLEAN
BY DEF Object

\* The fields of a command.
LEMMA CommandFields ==
  \A c \in Command : c.id \in Nat /\ c.recv \in Nat /\ c.cb \in Callbacks /\ c.arg \in Id
BY DEF Command

\* createPane for one pane of a layout keeps what a handler may rely on.
LEMMA LeafKeeps ==
  ASSUME NEW a \in GoodWork, NEW p \in Id, NEW split \in BOOLEAN, objs \in Seq(Object)
  PROVE  CreateLeaf(a, p, split) \in GoodWork
<1> DEFINE b == CreateLeaf(a, p, split)
<1>0. a \in Work /\ WorkOK(a) /\ Fresh(a)
  BY DEF GoodWork
<1>1. CASE a.map[p] = 0
  <2> DEFINE i == Len(a.objs) + 1
             o == [pane |-> p, ready |-> FALSE, shown |-> <<>>,
                   win |-> "open", tab |-> TRUE, split |-> split, dropped |-> FALSE]
             new == << Cmd(i, "CB_DUMP_HISTORY", p), Cmd(i, "CB_DUMP_HISTORY_ALT", p),
                       Cmd(i, "CB_DUMP_TERM_STATE", p) >>
             os == Append(a.objs, o)
             mp == [a.map EXCEPT ![p] = i]
             cs == a.cmds \o new
  <2>1. b = [objs |-> os, map |-> mp, lay |-> a.lay, cmds |-> cs, bad |-> a.bad]
    BY <1>0, <1>1 DEF CreateLeaf, Work
  <2>2. /\ a.objs \in Seq(Object) /\ a.map \in [Id -> Nat] /\ a.lay \in [Id -> Seq(Id)]
        /\ a.cmds \in Seq(Command) /\ a.bad \in BOOLEAN
    BY <1>0 DEF Work
  <2>3. o \in Object
    BY DEF Object
  <2>4. i \in Nat /\ Len(a.objs) \in Nat /\ Len(objs) \in Nat
    BY <2>2
  <2>5. /\ new \in Seq(Command) /\ Len(new) = 3
        /\ \A j \in 1..3 : /\ new[j].recv = i /\ new[j].arg = p
                           /\ new[j].cb = "CB_DUMP_HISTORY" => j = 1
    <3>1. \A c \in Callbacks : /\ Cmd(i, c, p) \in Command /\ Cmd(i, c, p).recv = i
                              /\ Cmd(i, c, p).arg = p /\ Cmd(i, c, p).cb = c
      BY <2>4 DEF Command, Cmd
    <3>2. {"CB_DUMP_HISTORY", "CB_DUMP_HISTORY_ALT", "CB_DUMP_TERM_STATE"} \subseteq Callbacks
      BY DEF Callbacks
    <3> QED BY <3>1, <3>2
  <2> HIDE DEF o
  <2>6. /\ os \in Seq(Object) /\ Len(os) = i /\ os[i] = o
        /\ \A j \in 1..Len(a.objs) : os[j] = a.objs[j]
    BY <2>2, <2>3
  <2>7. mp \in [Id -> Nat] /\ mp[p] = i /\ \A q \in Id : q # p => mp[q] = a.map[q]
    BY <2>2, <2>4
  <2> HIDE DEF new
  <2>8. /\ cs \in Seq(Command) /\ Len(cs) = Len(a.cmds) + 3 /\ Len(a.cmds) \in Nat
        /\ \A j \in 1..Len(cs) : cs[j] = IF j <= Len(a.cmds) THEN a.cmds[j]
                                         ELSE new[j - Len(a.cmds)]
    <3> DEFINE as == a.cmds
    <3>1. as \in Seq(Command) /\ new \in Seq(Command)
      BY <2>2, <2>5
    <3> HIDE DEF as
    <3>2. /\ Len(as \o new) = Len(as) + Len(new) /\ Len(as) \in Nat /\ as \o new \in Seq(Command)
          /\ \A j \in 1..Len(as \o new) : (as \o new)[j] = IF j <= Len(as) THEN as[j] ELSE new[j - Len(as)]
      BY <3>1, ConcatProps
    <3> QED BY <2>5, <3>2 DEF as
  <2>9. o.pane = p /\ o.win = "open" /\ ~o.dropped /\ ~o.ready /\ o.shown = <<>>
    BY DEF o
  <2> HIDE DEF os, mp, cs
  <2>10. /\ b.objs = os /\ b.map = mp /\ b.lay = a.lay /\ b.cmds = cs /\ b.bad = a.bad
         /\ b \in Work
    BY <2>1, <2>2, <2>6, <2>7, <2>8 DEF Work
  <2> HIDE DEF b
  <2>11. Len(objs) <= Len(os) /\ \A j \in 1..Len(objs) : os[j] = objs[j]
    <3>1. Len(objs) <= Len(a.objs) /\ \A j \in 1..Len(objs) : a.objs[j] = objs[j]
      BY <1>0 DEF WorkOK
    <3>2. Len(objs) <= i /\ 1..Len(objs) \subseteq 1..Len(a.objs)
      BY <2>4, <3>1
    <3> HIDE DEF i
    <3> QED BY <2>6, <3>1, <3>2
  <2>12. ASSUME NEW q \in Id PROVE mp[q] <= Len(os) /\ (mp[q] # 0 => os[mp[q]].pane = q)
    <3>1. CASE q = p
      BY <2>4, <2>6, <2>7, <2>9, <3>1
    <3>2. CASE q # p
      <4>1. a.map[q] \in Nat /\ a.map[q] <= Len(a.objs) /\ (a.map[q] # 0 => a.objs[a.map[q]].pane = q)
        BY <1>0, <2>2 DEF WorkOK
      <4> QED BY <2>4, <2>6, <2>7, <3>2, <4>1
    <3> QED BY <3>1, <3>2
  <2>13. ASSUME NEW j \in 1..Len(os)
         PROVE  /\ os[j].win # "closed"
                /\ os[j].win = "open" => mp[os[j].pane] = j \/ os[j].dropped
    <3>1. CASE j = i
      BY <2>6, <2>7, <2>9, <3>1
    <3>2. CASE j # i
      <4>1. j \in 1..Len(a.objs) /\ os[j] = a.objs[j]
        BY <2>4, <2>6, <3>2
      <4>2. /\ a.objs[j].win # "closed"
            /\ a.objs[j].win = "open" => a.map[a.objs[j].pane] = j \/ a.objs[j].dropped
        BY <1>0, <4>1 DEF WorkOK
      <4>3. a.objs[j].pane \in Id
        <5>1. a.objs[j] \in Object
          BY <2>2, <4>1
        <5> QED BY <5>1, ObjectFields
      <4>4. a.map[a.objs[j].pane] = j => a.objs[j].pane # p
        BY <1>1, <4>1
      <4> QED BY <2>7, <4>1, <4>2, <4>3, <4>4
    <3> QED BY <3>1, <3>2
  <2>14. ASSUME NEW j \in 1..Len(cs) PROVE cs[j].recv <= Len(os)
    <3>1. CASE j <= Len(a.cmds)
      <4>1. j \in 1..Len(a.cmds) /\ cs[j] = a.cmds[j]
        BY <2>8, <3>1
      <4>2. a.cmds[j].recv <= Len(a.objs) /\ a.cmds[j].recv \in Nat
        <5>1. a.cmds[j] \in Command
          BY <2>2, <4>1
        <5> QED BY <1>0, <4>1, <5>1, CommandFields DEF WorkOK
      <4> QED BY <2>4, <2>6, <4>1, <4>2
    <3>2. CASE j > Len(a.cmds)
      <4>1. j - Len(a.cmds) \in 1..3 /\ cs[j] = new[j - Len(a.cmds)]
        BY <2>8, <3>2
      <4>2. new[j - Len(a.cmds)].recv = i
        BY <2>5, <4>1
      <4> HIDE DEF i
      <4> QED BY <2>4, <2>6, <4>1, <4>2
    <3> QED BY <2>8, <3>1, <3>2
  <2>15. a.bad => \E j \in 1..Len(os) : os[j].win = "user-closed"
    <3> SUFFICES ASSUME a.bad PROVE \E j \in 1..Len(os) : os[j].win = "user-closed"
      OBVIOUS
    <3>1. PICK j \in 1..Len(a.objs) : a.objs[j].win = "user-closed"
      BY <1>0 DEF WorkOK
    <3>2. j \in 1..Len(os) /\ os[j] = a.objs[j]
      BY <2>4, <2>6
    <3> QED BY <3>1, <3>2
  <2>16. WorkOK(b)
    BY <2>10, <2>11, <2>12, <2>13, <2>14, <2>15 DEF WorkOK
  <2>17. \A q \in Id : mp[q] = mapPanes[q] \/ mp[q] > Len(objs)
    <3>1. Len(objs) < i
      BY <1>0, <2>4 DEF WorkOK
    <3> QED BY <1>0, <2>7, <3>1 DEF Fresh
  <2>18. \A j \in 1..Len(os) : j > Len(objs) => ~os[j].ready /\ os[j].shown = <<>>
    <3> SUFFICES ASSUME NEW j \in 1..Len(os), j > Len(objs) PROVE ~os[j].ready /\ os[j].shown = <<>>
      OBVIOUS
    <3>1. CASE j = i
      BY <2>6, <2>9, <3>1
    <3>2. CASE j # i
      <4>1. j \in 1..Len(a.objs) /\ os[j] = a.objs[j]
        BY <2>4, <2>6, <3>2
      <4> QED BY <1>0, <4>1 DEF Fresh
    <3> QED BY <3>1, <3>2
  <2>19. ASSUME NEW j \in 1..Len(cs)
         PROVE  /\ cs[j].recv > Len(objs)
                /\ cs[j].cb = "CB_DUMP_HISTORY" =>
                     os[cs[j].recv].pane = cs[j].arg /\ \A k \in 1..(j - 1) : cs[k].recv # cs[j].recv
    <3>0. Len(objs) < i /\ Len(a.cmds) \in Nat /\ j \in Nat
      BY <1>0, <2>4, <2>8 DEF WorkOK
    <3>1. CASE j <= Len(a.cmds)
      <4>1. /\ j \in 1..Len(a.cmds) /\ cs[j] = a.cmds[j]
            /\ \A k \in 1..(j - 1) : k \in 1..Len(a.cmds) /\ cs[k] = a.cmds[k]
        BY <2>8, <3>1
      <4>2. a.cmds[j].recv <= Len(a.objs) /\ a.cmds[j].recv \in Nat /\ a.cmds[j].recv > Len(objs)
        <5>1. a.cmds[j] \in Command
          BY <2>2, <4>1
        <5> QED BY <1>0, <4>1, <5>1, CommandFields DEF WorkOK, Fresh
      <4>3. a.cmds[j].recv \in 1..Len(a.objs)
        BY <2>4, <4>2
      <4>4. os[a.cmds[j].recv] = a.objs[a.cmds[j].recv]
        BY <2>6, <4>3
      <4>5. a.cmds[j].cb = "CB_DUMP_HISTORY" =>
              /\ a.objs[a.cmds[j].recv].pane = a.cmds[j].arg
              /\ \A k \in 1..(j - 1) : a.cmds[k].recv # a.cmds[j].recv
        BY <1>0, <4>1 DEF Fresh
      <4> QED BY <4>1, <4>2, <4>4, <4>5
    <3>2. CASE j > Len(a.cmds)
      <4>1. j - Len(a.cmds) \in 1..3 /\ cs[j] = new[j - Len(a.cmds)]
        BY <2>8, <3>2
      <4>2. /\ cs[j].recv = i /\ cs[j].arg = p
            /\ cs[j].cb = "CB_DUMP_HISTORY" => j = Len(a.cmds) + 1
        BY <2>5, <2>8, <4>1
      <4>3. ASSUME NEW k \in 1..Len(a.cmds) PROVE cs[k].recv # i
        <5>0. k \in 1..Len(cs) /\ k <= Len(a.cmds)
          BY <2>8
        <5>1. a.cmds[k] \in Command /\ cs[k] = a.cmds[k]
          BY <2>2, <2>8, <5>0
        <5>2. a.cmds[k].recv <= Len(a.objs) /\ a.cmds[k].recv \in Nat
          BY <1>0, <5>1, CommandFields DEF WorkOK
        <5> QED BY <2>4, <5>1, <5>2
      <4>4. os[i].pane = p
        BY <2>6, <2>9
      <4>5. ASSUME cs[j].cb = "CB_DUMP_HISTORY", NEW k \in 1..(j - 1) PROVE cs[k].recv # i
        <5>1. k \in 1..Len(a.cmds)
          BY <3>0, <4>2, <4>5
        <5> QED BY <4>3, <5>1
      <4> HIDE DEF i
      <4>6. cs[j].recv > Len(objs)
        BY <3>0, <4>2
      <4> QED BY <4>2, <4>4, <4>5, <4>6
    <3> QED BY <3>0, <3>1, <3>2
  <2>20. Fresh(b)
    BY <2>10, <2>17, <2>18, <2>19 DEF Fresh
  <2> QED BY <2>10, <2>16, <2>20 DEF GoodWork, b
<1>2. CASE a.map[p] # 0
  <2> DEFINE x == a.objs[a.map[p]].win # "open"
  <2>1. b = [objs |-> a.objs, map |-> a.map, lay |-> a.lay, cmds |-> a.cmds, bad |-> a.bad \/ x]
    BY <1>0, <1>2 DEF CreateLeaf, Work
  <2>2. /\ a.objs \in Seq(Object) /\ a.map \in [Id -> Nat] /\ a.lay \in [Id -> Seq(Id)]
        /\ a.cmds \in Seq(Command) /\ a.bad \in BOOLEAN
    BY <1>0 DEF Work
  <2>3. x => \E i \in 1..Len(a.objs) : a.objs[i].win = "user-closed"
    <3>1. a.map[p] \in 1..Len(a.objs)
      BY <1>0, <1>2, <2>2 DEF WorkOK
    <3>2. a.objs[a.map[p]].win # "closed"
      BY <1>0, <3>1 DEF WorkOK
    <3>3. a.objs[a.map[p]].win \in {"open", "closed", "user-closed"}
      <4>1. a.objs[a.map[p]] \in Object
        BY <2>2, <3>1
      <4> QED BY <4>1, ObjectFields
    <3> QED BY <3>1, <3>2, <3>3
  <2> HIDE DEF x
  <2>4. /\ b.objs = a.objs /\ b.map = a.map /\ b.lay = a.lay /\ b.cmds = a.cmds
        /\ b.bad = (a.bad \/ x) /\ b \in Work
    BY <2>1, <2>2 DEF Work
  <2> HIDE DEF b
  <2>5. b.bad => \E i \in 1..Len(a.objs) : a.objs[i].win = "user-closed"
    BY <1>0, <2>3, <2>4 DEF WorkOK
  <2>6. WorkOK(b)
    BY <1>0, <2>4, <2>5 DEF WorkOK
  <2>7. Fresh(b)
    BY <1>0, <2>4 DEF Fresh
  <2> QED BY <2>4, <2>6, <2>7 DEF GoodWork, b
<1> QED BY <1>1, <1>2

\* So does the loop over the panes of one window.
LEMMA WindowKeeps ==
  ASSUME NEW a \in GoodWork, NEW l \in Payloads, objs \in Seq(Object)
  PROVE  CreateWindow(a, l) \in GoodWork
<1>0. a \in Work /\ WorkOK(a) /\ Fresh(a) /\ l.id \in Id /\ l.panes \in Seq(Id)
  BY DEF GoodWork, Payloads
<1>1. CASE Len(l.panes) = 1
  <2>1. CreateWindow(a, l) = CreateLeaf(a, l.panes[1], FALSE)
    BY <1>1 DEF CreateWindow
  <2>2. l.panes[1] \in Id
    BY <1>0, <1>1
  <2> QED BY <2>1, <2>2, LeafKeeps
<1>2. CASE Len(l.panes) # 1
  <2> DEFINE lay == a.lay[l.id] \o l.panes
             c == [a EXCEPT !.lay = [@ EXCEPT ![l.id] = lay]]
             Is(f) == f = [n \in 0..Len(lay) |->
                             IF n = 0 THEN c ELSE CreateLeaf(f[n - 1], lay[n], TRUE)]
             k == CHOOSE f : Is(f)
             G == [x \in (1..Len(lay)) \X GoodWork |-> CreateLeaf(x[2], lay[x[1]], TRUE)]
  <2>1. CreateWindow(a, l) = k[Len(lay)]
    BY <1>2 DEF CreateWindow
  <2>2. lay \in Seq(Id)
    <3>1. a.lay[l.id] \in Seq(Id)
      BY <1>0 DEF Work
    <3> QED BY <1>0, <3>1, ConcatProps
  <2> HIDE DEF lay
  <2>3. c \in GoodWork
    <3> DEFINE lays == [a.lay EXCEPT ![l.id] = lay]
    <3>1. c = [objs |-> a.objs, map |-> a.map, lay |-> lays, cmds |-> a.cmds, bad |-> a.bad]
      <4>1. c = [a EXCEPT !.lay = lays]
        OBVIOUS
      <4> HIDE DEF lays, c
      <4> QED BY <1>0, <4>1 DEF Work
    <3>2. lays \in [Id -> Seq(Id)]
      BY <1>0, <2>2 DEF Work
    <3> HIDE DEF lays
    <3>3. c.objs = a.objs /\ c.map = a.map /\ c.cmds = a.cmds /\ c.bad = a.bad /\ c \in Work
      BY <1>0, <3>1, <3>2 DEF Work
    <3> HIDE DEF c
    <3>4. WorkOK(c)
      BY <1>0, <3>3 DEF WorkOK
    <3>5. Fresh(c)
      BY <1>0, <3>3 DEF Fresh
    <3> QED BY <3>3, <3>4, <3>5 DEF GoodWork
  <2> HIDE DEF c
  <2>4. ASSUME NEW x \in GoodWork, NEW n \in 1..Len(lay)
        PROVE  CreateLeaf(x, lay[n], TRUE) \in GoodWork
    <3>1. lay[n] \in Id
      BY <2>2
    <3> QED BY <3>1, LeafKeeps
  <2>5. Len(lay) \in Nat
    BY <2>2
  <2>6. PICK f : /\ f \in [0..Len(lay) -> GoodWork] /\ f[0] = c
                 /\ \A n \in 1..Len(lay) : f[n] = G[<<n, f[n - 1]>>]
    <3>1. G \in [(1..Len(lay)) \X GoodWork -> GoodWork]
      BY <2>4
    <3>2. IsLoop(G, Len(lay), GoodWork, c)
      BY <2>3, <2>5, <3>1 DEF IsLoop
    <3> HIDE DEF G
    <3>3. \E f : IsRun(f, G, Len(lay), GoodWork, c)
      BY <3>2, LoopRuns
    <3> QED BY <3>3 DEF IsRun
  <2>7. Is(f)
    <3> DEFINE g == [n \in 0..Len(lay) |-> IF n = 0 THEN c ELSE CreateLeaf(f[n - 1], lay[n], TRUE)]
    <3>1. ASSUME NEW n \in 0..Len(lay) PROVE f[n] = g[n]
      <4>1. CASE n = 0
        BY <2>6, <4>1
      <4>2. CASE n # 0
        <5>1. n \in 1..Len(lay) /\ n - 1 \in 0..Len(lay)
          BY <2>5, <4>2
        <5>2. f[n - 1] \in GoodWork
          BY <2>6, <5>1
        <5>3. G[<<n, f[n - 1]>>] = CreateLeaf(f[n - 1], lay[n], TRUE)
          BY <5>1, <5>2
        <5>4. f[n] = G[<<n, f[n - 1]>>]
          BY <2>6, <5>1
        <5> QED BY <4>2, <5>3, <5>4
      <4> QED BY <4>1, <4>2
    <3> QED BY <2>6, <3>1
  <2>8. Is(k)
    BY <2>7
  <2> HIDE DEF k
  <2>9. k[0] = c /\ \A n \in 1..Len(lay) : k[n] = CreateLeaf(k[n - 1], lay[n], TRUE)
    BY <2>5, <2>8
  <2>10. \A n \in 0..Len(lay) : k[n] \in GoodWork
    BY <2>3, <2>4, <2>5, <2>9, LoopKeeps
  <2> QED BY <2>1, <2>5, <2>10
<1> QED BY <1>1, <1>2

\* Before the loops.
WorkStart == [objs |-> objs, map |-> mapPanes, lay |-> mapLayout, cmds |-> <<>>, bad |-> FALSE]

\* So does the loop over the windows of an answer.
LEMMA WindowsKeep ==
  ASSUME NEW ls \in Seq(Line), objs \in Seq(Object), WorkStart \in GoodWork
  PROVE  CreateWindows(ls) \in GoodWork
<1> DEFINE Is(f) == f = [n \in 0..Len(ls) |->
                           IF n = 0 THEN WorkStart ELSE CreateWindow(f[n - 1], ls[n].d)]
           k == CHOOSE f : Is(f)
           G == [x \in (1..Len(ls)) \X GoodWork |-> CreateWindow(x[2], ls[x[1]].d)]
<1>1. CreateWindows(ls) = k[Len(ls)]
  BY DEF CreateWindows, WorkStart
<1>2. Len(ls) \in Nat
  OBVIOUS
<1>3. ASSUME NEW x \in GoodWork, NEW n \in 1..Len(ls)
      PROVE  CreateWindow(x, ls[n].d) \in GoodWork
  <2>1. ls[n] \in Line
    OBVIOUS
  <2>2. ls[n].d \in Payloads
    BY <2>1 DEF Line
  <2> QED BY <2>2, WindowKeeps
<1>4. PICK f : /\ f \in [0..Len(ls) -> GoodWork] /\ f[0] = WorkStart
               /\ \A n \in 1..Len(ls) : f[n] = G[<<n, f[n - 1]>>]
  <2>1. G \in [(1..Len(ls)) \X GoodWork -> GoodWork]
    BY <1>3
  <2>2. IsLoop(G, Len(ls), GoodWork, WorkStart)
    BY <1>2, <2>1 DEF IsLoop
  <2> HIDE DEF G
  <2>3. \E f : IsRun(f, G, Len(ls), GoodWork, WorkStart)
    BY <2>2, LoopRuns
  <2> QED BY <2>3 DEF IsRun
<1>5. Is(f)
  <2> DEFINE g == [n \in 0..Len(ls) |-> IF n = 0 THEN WorkStart ELSE CreateWindow(f[n - 1], ls[n].d)]
  <2>1. ASSUME NEW n \in 0..Len(ls) PROVE f[n] = g[n]
    <3>1. CASE n = 0
      BY <1>4, <3>1
    <3>2. CASE n # 0
      <4>1. n \in 1..Len(ls) /\ n - 1 \in 0..Len(ls)
        BY <1>2, <3>2
      <4>2. f[n - 1] \in GoodWork
        BY <1>4, <4>1
      <4>3. G[<<n, f[n - 1]>>] = CreateWindow(f[n - 1], ls[n].d)
        BY <4>1, <4>2
      <4>4. f[n] = G[<<n, f[n - 1]>>]
        BY <1>4, <4>1
      <4> QED BY <3>2, <4>3, <4>4
    <3> QED BY <3>1, <3>2
  <2> QED BY <1>4, <2>1
<1>6. Is(k)
  BY <1>5
<1> HIDE DEF k
<1>7. k[0] = WorkStart /\ \A n \in 1..Len(ls) : k[n] = CreateWindow(k[n - 1], ls[n].d)
  BY <1>2, <1>6
<1>8. \A n \in 0..Len(ls) : k[n] \in GoodWork
  BY <1>2, <1>3, <1>7, LoopKeeps
<1> QED BY <1>1, <1>2, <1>8

\* Handlers that create nothing.
LEMMA NoWindows == CreateWindows(<<>>) = WorkStart
<1> DEFINE Is(f) == f = [n \in 0..Len(<<>>) |->
                           IF n = 0 THEN WorkStart ELSE CreateWindow(f[n - 1], <<>>[n].d)]
           k == CHOOSE f : Is(f)
<1>1. CreateWindows(<<>>) = k[Len(<<>>)]
  BY DEF CreateWindows, WorkStart
<1>2. Is([n \in 0..0 |-> WorkStart])
  OBVIOUS
<1>3. Is(k)
  BY <1>2
<1> HIDE DEF k
<1>4. k[0] = WorkStart
  BY <1>3
<1> QED BY <1>1, <1>4

-----------------------------------------------------------------------------
(* What the server writes.                                                 *)

\* list-windows writes a line for each window, so no more than there are ids.
LEMMA ListedTyped ==
  ASSUME wins \in [Id -> Seq(Id)], alive \subseteq Id
  PROVE  Listed \in Seq(Payloads) /\ Len(Listed) <= MaxId + 1
<1> DEFINE m == MaxId + 1
           Turn(x, n) == IF n - 1 \in alive THEN Append(x, WindowLine(n - 1)) ELSE x
           Is(f) == f = [n \in 0..m |->
                           IF n = 0 THEN <<>>
                           ELSE IF n - 1 \in alive THEN Append(f[n - 1], WindowLine(n - 1)) ELSE f[n - 1]]
           k == CHOOSE f : Is(f)
           P == Seq(Payloads)
           G == [x \in (1..m) \X P |-> Turn(x[2], x[1])]
<1>1. Listed = k[m]
  BY DEF Listed
<1>2. m \in Nat
  BY GatewayAssumption
<1>3. \A w \in Id : WindowLine(w) \in Payloads
  BY DEF WindowLine, Payload, Payloads
<1>4. ASSUME NEW x \in P, NEW n \in 1..m
      PROVE  Turn(x, n) \in P /\ Len(Turn(x, n)) <= Len(x) + 1 /\ Len(x) \in Nat
  <2>1. n - 1 \in alive => WindowLine(n - 1) \in Payloads
    BY <1>3
  <2> QED BY <2>1
<1> HIDE DEF m, Turn
<1>5. PICK f : IsRun(f, G, m, P, <<>>)
  <2>1. <<>> \in P
    OBVIOUS
  <2> HIDE DEF P
  <2>2. G \in [(1..m) \X P -> P]
    BY <1>4
  <2>3. IsLoop(G, m, P, <<>>)
    BY <1>2, <2>1, <2>2 DEF IsLoop
  <2> HIDE DEF G
  <2> QED BY <2>3, LoopRuns
<1>6. Is(f)
  <2> DEFINE g == [n \in 0..m |-> IF n = 0 THEN <<>> ELSE Turn(f[n - 1], n)]
  <2>1. ASSUME NEW n \in 0..m PROVE f[n] = g[n]
    <3>1. CASE n = 0
      BY <1>5, <3>1 DEF IsRun
    <3>2. CASE n # 0
      <4>1. n \in 1..m /\ n - 1 \in 0..m
        BY <1>2, <3>2
      <4>2. f[n - 1] \in P
        BY <1>5, <4>1 DEF IsRun
      <4> HIDE DEF P
      <4>3. G[<<n, f[n - 1]>>] = Turn(f[n - 1], n)
        BY <4>1, <4>2
      <4>4. f[n] = G[<<n, f[n - 1]>>]
        BY <1>5, <4>1 DEF IsRun
      <4> HIDE DEF G
      <4> QED BY <3>2, <4>3, <4>4
    <3> QED BY <3>1, <3>2
  <2>2. f = g
    <3> HIDE DEF P
    <3> QED BY <1>5, <2>1 DEF IsRun
  <2> QED BY <2>2 DEF Turn
<1>7. Is(k)
  BY <1>6
<1> HIDE DEF k
<1>8. k[0] = <<>> /\ \A n \in 1..m : k[n] = Turn(k[n - 1], n)
  <2>1. \A n \in 0..m : k[n] = IF n = 0 THEN <<>>
                               ELSE IF n - 1 \in alive THEN Append(k[n - 1], WindowLine(n - 1)) ELSE k[n - 1]
    BY <1>7
  <2>2. 0 \in 0..m /\ \A n \in 1..m : n \in 0..m /\ n # 0
    BY <1>2
  <2> QED BY <2>1, <2>2 DEF Turn
<1> DEFINE T == {n \in Nat : n <= m => k[n] \in P /\ Len(k[n]) <= n}
<1>9. 0 \in T
  <2>1. <<>> \in P /\ Len(<<>>) <= 0
    OBVIOUS
  <2> HIDE DEF P
  <2> QED BY <1>8, <2>1
<1>10. ASSUME NEW n \in Nat, n \in T PROVE n + 1 \in T
  <2> SUFFICES ASSUME n + 1 <= m PROVE k[n + 1] \in P /\ Len(k[n + 1]) <= n + 1
    OBVIOUS
  <2>1. n + 1 \in 1..m /\ (n + 1) - 1 = n /\ n <= m
    BY <1>2
  <2>2. k[n] \in P /\ Len(k[n]) <= n
    BY <1>10, <2>1
  <2>3. k[n + 1] = Turn(k[n], n + 1)
    BY <1>8, <2>1
  <2> HIDE DEF P
  <2>4. Turn(k[n], n + 1) \in P /\ Len(Turn(k[n], n + 1)) <= Len(k[n]) + 1 /\ Len(k[n]) \in Nat
    BY <1>4, <2>1, <2>2
  <2>5. Len(Turn(k[n], n + 1)) \in Nat
    BY <2>4 DEF P
  <2> QED BY <2>2, <2>3, <2>4, <2>5
<1>11. Nat \subseteq T
  <2> HIDE DEF T
  <2> QED BY <1>9, <1>10, SetInduction
<1>12. m \in T
  <2> HIDE DEF T
  <2> QED BY <1>2, <1>11
<1> QED BY <1>1, <1>2, <1>12 DEF m

\* The payloads the server answers with are payloads.
LEMMA AnswerTyped ==
  ASSUME TypeOK, NEW c \in Command
  PROVE  AnswerTo(c) \in Seq(Payloads) /\ Len(AnswerTo(c)) \in 0..(MaxId + 2)
<1>1. c.arg \in Id /\ outs[c.arg] \in Nat /\ wins[c.arg] \in Seq(Id)
  BY CommandFields DEF TypeOK
<1>2. Listed \in Seq(Payloads) /\ Len(Listed) <= MaxId + 1
  BY ListedTyped DEF TypeOK
<1> DEFINE one == {WindowLine(c.arg), Payload("history", c.arg, outs[c.arg], <<>>),
                   Payload("state", c.arg, 0, <<>>)}
<1>3. one \subseteq Payloads
  BY <1>1 DEF WindowLine, Payload, Payloads
<1>4. \A d \in Payloads : <<d>> \in Seq(Payloads) /\ Len(<<d>>) = 1
  OBVIOUS
<1>5. AnswerTo(c) \in {Listed, <<>>} \cup {<<d>> : d \in one}
  BY DEF AnswerTo
<1>6. Len(Listed) \in Nat /\ Len(<<>>) = 0 /\ <<>> \in Seq(Payloads) /\ MaxId \in Nat
  BY <1>2, GatewayAssumption
<1>7. CASE AnswerTo(c) \in {Listed, <<>>}
  <2>1. CASE AnswerTo(c) = Listed
    BY <1>2, <1>6, <2>1
  <2>2. CASE AnswerTo(c) = <<>>
    BY <1>6, <2>2
  <2> QED BY <1>7, <2>1, <2>2
<1>8. CASE AnswerTo(c) \in {<<d>> : d \in one}
  <2>1. PICK d \in one : AnswerTo(c) = <<d>>
    BY <1>8
  <2> HIDE DEF one
  <2>2. d \in Payloads
    BY <1>3
  <2> QED BY <1>4, <1>6, <2>1, <2>2
<1> QED BY <1>5, <1>7, <1>8

\* An answer is lines.
LEMMA BlockTyped ==
  ASSUME TypeOK, NEW c \in Command
  PROVE  BlockOf(c) \in Seq(Line)
<1> DEFINE a == AnswerTo(c)
           m == Len(a)
           B(i) == [t |-> IF i = 1 THEN "begin" ELSE IF i = m + 2 THEN "end" ELSE "data",
                    n |-> c.id,
                    k |-> IF i = m + 2 THEN m ELSE i - 1,
                    d |-> IF i \in 2..(m + 1) THEN a[i - 1] ELSE NoPayload]
<1>1. a \in Seq(Payloads) /\ m \in Nat
  BY AnswerTyped
<1>2. NoPayload \in Payloads
  BY GatewayAssumption DEF NoPayload, Payload, Payloads, Id
<1>3. BlockOf(c) = [i \in 1..(m + 2) |-> B(i)]
  BY DEF BlockOf
<1> HIDE DEF a, m
<1>4. ASSUME NEW i \in 1..(m + 2) PROVE B(i) \in Line
  <2>1. i \in 2..(m + 1) => a[i - 1] \in Payloads
    BY <1>1 DEF m
  <2>2. c.id \in Nat
    BY CommandFields
  <2>3. i - 1 \in Nat
    OBVIOUS
  <2> QED BY <1>1, <1>2, <2>1, <2>2, <2>3 DEF Line
<1> HIDE DEF B
<1>5. m + 2 \in Nat
  BY <1>1
<1> QED BY <1>3, <1>4, <1>5

-----------------------------------------------------------------------------
(* The invariant, step by step.                                            *)

\* Commands are queued and written, and name objects there are.
LEMMA SendEffect ==
  ASSUME NEW cs \in Seq(Command), NEW b \in Nat, SendCommands(cs),
         cmdq \in Seq(Command), toSrv \in Seq(Command), sent \in Nat, Len(toSrv) <= sent,
         \A i \in 1..Len(cs) : cs[i].recv <= b, \A i \in 1..Len(cmdq) : cmdq[i].recv <= b
  PROVE  /\ cmdq' \in Seq(Command) /\ toSrv' \in Seq(Command) /\ sent' \in Nat
         /\ Len(toSrv') <= sent'
         /\ \A i \in 1..Len(cmdq') : cmdq'[i].recv <= b
<1> DEFINE new == [i \in DOMAIN cs |-> [cs[i] EXCEPT !.id = sent + i]]
<1>1. sent' = sent + Len(cs) /\ cmdq' = cmdq \o new /\ toSrv' = toSrv \o new
  BY DEF SendCommands
<1>2. ASSUME NEW i \in 1..Len(cs) PROVE new[i] \in Command /\ new[i].recv = cs[i].recv
  <2>1. cs[i] \in Command /\ sent + i \in Nat
    OBVIOUS
  <2>2. new[i] = [cs[i] EXCEPT !.id = sent + i]
    OBVIOUS
  <2> HIDE DEF new
  <2> QED BY <2>1, <2>2 DEF Command
<1>3. new \in Seq(Command) /\ Len(new) = Len(cs) /\ Len(cs) \in Nat
  <2>1. new = [i \in 1..Len(cs) |-> new[i]] /\ Len(cs) \in Nat
    OBVIOUS
  <2> HIDE DEF new
  <2> QED BY <1>2, <2>1
<1> HIDE DEF new
<1>4. /\ cmdq \o new \in Seq(Command) /\ toSrv \o new \in Seq(Command)
      /\ Len(cmdq \o new) = Len(cmdq) + Len(new) /\ Len(toSrv \o new) = Len(toSrv) + Len(new)
      /\ Len(cmdq) \in Nat /\ Len(toSrv) \in Nat
  BY <1>3, ConcatProps
<1>5. ASSUME NEW i \in 1..Len(cmdq \o new) PROVE (cmdq \o new)[i].recv <= b
  <2>1. (cmdq \o new)[i] = IF i <= Len(cmdq) THEN cmdq[i] ELSE new[i - Len(cmdq)]
    BY <1>3, ConcatProps
  <2>2. CASE i <= Len(cmdq)
    <3>1. i \in 1..Len(cmdq)
      BY <1>4, <2>2
    <3> QED BY <2>1, <2>2, <3>1
  <2>3. CASE i > Len(cmdq)
    <3>1. i - Len(cmdq) \in 1..Len(cs)
      BY <1>3, <1>4, <2>3
    <3>2. (cmdq \o new)[i] = new[i - Len(cmdq)]
      BY <1>4, <2>1, <2>3
    <3> QED BY <1>2, <3>1, <3>2
  <2> QED BY <1>4, <2>2, <2>3
<1>6. sent' \in Nat /\ Len(toSrv') <= sent'
  BY <1>1, <1>3, <1>4
<1> QED BY <1>1, <1>4, <1>5, <1>6

\* The invariant holds at the start.
LEMMA GatewayInit == Init => GatewayInv
<1> SUFFICES ASSUME Init PROVE GatewayInv
  OBVIOUS
<1>1. 0 \in Id
  BY GatewayAssumption DEF Id
<1>2. <<>> \in Seq(Command) /\ <<>> \in Seq(Line) /\ <<>> \in Seq(Object) /\ <<>> \in Seq(Id)
      /\ <<0>> \in Seq(Id) /\ Len(<<>>) = 0
  BY <1>1
<1>3. NoPayload \in Payloads
  BY <1>1, <1>2 DEF NoPayload, Payload, Payloads
<1>4. stream \in Seq(Line)
  <2> DEFINE b == [t |-> "begin", n |-> 0, k |-> 0, d |-> NoPayload]
             e == [t |-> "end", n |-> 0, k |-> 0, d |-> NoPayload]
  <2>1. b \in Line /\ e \in Line
    BY <1>3 DEF Line
  <2>2. stream = <<b, e>>
    BY DEF Init
  <2> HIDE DEF b, e
  <2> QED BY <2>1, <2>2
<1>5. cur \in Command /\ cur.recv = 0
  BY <1>1 DEF Init, NoCmd, Gateway, Command, Callbacks
<1>6. callback \in [cmd : Nat, lines : Seq(Line), size : Nat]
  BY <1>2 DEF Init
<1>7. wins \in [Id -> Seq(Id)] /\ alive \subseteq Id /\ outs \in [Id -> Nat]
  BY <1>1, <1>2 DEF Init
<1>8. TypeOK
  BY <1>2, <1>4, <1>5, <1>6, <1>7 DEF Init, TypeOK, Stops
<1>9. ReceiversExist
  BY <1>2, <1>5 DEF Init, ReceiversExist
<1>10. PanesKnown
  BY <1>2 DEF Init, PanesKnown
<1>11. EndsTogether /\ NoFaultUnprovoked
  BY DEF Init, EndsTogether, NoFaultUnprovoked
<1> QED BY <1>8, <1>9, <1>10, <1>11 DEF GatewayInv

\* What a step that leaves the gateway and its panes alone keeps.
LEMMA Frame ==
  ASSUME GatewayInv, TypeOK',
         UNCHANGED <<mode, gw, gwWnd, cmdq, cur, callback, objs, mapPanes, fault>>
  PROVE  GatewayInv'
<1>1. ReceiversExist'
  BY DEF GatewayInv, ReceiversExist
<1>2. PanesKnown'
  BY DEF GatewayInv, PanesKnown
<1>3. EndsTogether'
  BY DEF GatewayInv, EndsTogether
<1>4. NoFaultUnprovoked'
  BY DEF GatewayInv, NoFaultUnprovoked
<1> QED BY <1>1, <1>2, <1>3, <1>4 DEF GatewayInv

\* A notification put on the stream keeps the invariant.
LEMMA NotifyKeeps ==
  ASSUME GatewayInv, NEW d \in Payloads, Notify(d),
         wins' \in [Id -> Seq(Id)], alive' \subseteq Id, outs' \in [Id -> Nat]
  PROVE  GatewayInv'
<1> DEFINE l == [t |-> "note", n |-> sent - Len(toSrv), k |-> 0, d |-> d]
<1>1. TypeOK
  BY DEF GatewayInv
<1>2. l \in Line
  <2>1. sent - Len(toSrv) \in Nat
    BY <1>1 DEF TypeOK
  <2> QED BY <2>1 DEF Line
<1>3. stream' = Append(stream, l) /\ notes' = notes + 1
  BY DEF Notify
<1> HIDE DEF l
<1>4. stream' \in Seq(Line) /\ notes' \in Nat
  BY <1>1, <1>2, <1>3 DEF TypeOK
<1>5. UNCHANGED <<gwVars, histVars, sent, toSrv>>
  BY DEF Notify
<1>6. TypeOK'
  BY <1>1, <1>4, <1>5 DEF TypeOK, gwVars, histVars
<1> QED BY <1>5, <1>6, Frame DEF gwVars, histVars

\* What notification d does to the server's count of output.
Writes(d) ==
  IF d.e = "output" THEN outs' = [outs EXCEPT ![d.id] = @ + 1] /\ d.pos = outs'[d.id]
  ELSE outs' = outs

\* A step of the server answers a command or writes a notification.
LEMMA ServerWrites ==
  ASSUME GatewayInv, Server, ~SrvAnswer
  PROVE  \E d \in Payloads : /\ Notify(d) /\ Writes(d)
                             /\ wins' \in [Id -> Seq(Id)] /\ alive' \subseteq Id /\ outs' \in [Id -> Nat]
<1>0. TypeOK
  BY DEF GatewayInv
<1>1. /\ wins \in [Id -> Seq(Id)] /\ alive \subseteq Id /\ outs \in [Id -> Nat]
      /\ 0 \in Id /\ <<>> \in Seq(Id)
  BY <1>0, GatewayAssumption DEF TypeOK, Id
<1>2. \A e \in Events, i \in Id, n \in Nat, q \in Seq(Id) : Payload(e, i, n, q) \in Payloads
  BY DEF Payload, Payloads
<1>3. Events = {"output", "session-changed", "window-add", "window-close",
                "window-renamed", "layout-change", "exit"}
  BY DEF Events
<1>4. \A e \in Events : \A i, n, q :
        e # "output" /\ outs' = outs => Writes(Payload(e, i, n, q))
  BY DEF Writes, Payload
<1>5. CASE SrvSession
  <2>1. Payload("session-changed", 0, 0, <<>>) \in Payloads
    BY <1>1, <1>2, <1>3
  <2>2. Writes(Payload("session-changed", 0, 0, <<>>))
    BY <1>3, <1>4, <1>5 DEF SrvSession, srvVars
  <2> QED BY <1>1, <1>5, <2>1, <2>2 DEF SrvSession, srvVars
<1>6. CASE SrvNewWindow
  <2>1. PICK w, p \in Id : /\ wins' = [wins EXCEPT ![w] = <<p>>]
                           /\ alive' = alive \cup {w}
                           /\ Notify(Payload("window-add", w, 0, <<>>))
                           /\ UNCHANGED outs
    BY <1>6 DEF SrvNewWindow
  <2>2. Payload("window-add", w, 0, <<>>) \in Payloads
    BY <1>1, <1>2, <1>3
  <2>3. <<p>> \in Seq(Id)
    OBVIOUS
  <2>4. wins' \in [Id -> Seq(Id)] /\ alive' \subseteq Id /\ outs' \in [Id -> Nat]
    BY <1>1, <2>1, <2>3
  <2>5. Writes(Payload("window-add", w, 0, <<>>))
    BY <1>3, <1>4, <2>1
  <2> QED BY <2>1, <2>2, <2>4, <2>5
<1>7. CASE SrvSplitWindow
  <2>1. PICK w \in alive, p \in Id : /\ wins' = [wins EXCEPT ![w] = Append(@, p)]
                                     /\ Notify(Payload("layout-change", w, 0, wins'[w]))
                                     /\ UNCHANGED <<alive, outs>>
    BY <1>7 DEF SrvSplitWindow
  <2>2. w \in Id /\ Append(wins[w], p) \in Seq(Id)
    BY <1>1
  <2>3. wins' \in [Id -> Seq(Id)] /\ alive' \subseteq Id /\ outs' \in [Id -> Nat]
    BY <1>1, <2>1, <2>2
  <2>4. wins'[w] \in Seq(Id)
    BY <1>1, <2>1, <2>2
  <2>5. Payload("layout-change", w, 0, wins'[w]) \in Payloads
    <3> DEFINE x == wins'[w]
    <3>1. x \in Seq(Id)
      BY <2>4
    <3> HIDE DEF x
    <3>2. Payload("layout-change", w, 0, x) \in Payloads
      BY <1>2, <1>3, <2>2, <3>1
    <3> QED BY <3>2 DEF x
  <2>6. Notify(Payload("layout-change", w, 0, wins'[w]))
    BY <2>1
  <2>7. Writes(Payload("layout-change", w, 0, wins'[w]))
    BY <1>3, <1>4, <2>1
  <2> QED BY <2>3, <2>5, <2>6, <2>7
<1>8. CASE SrvCloseWindow
  <2>1. PICK w \in alive : /\ alive' = alive \ {w}
                           /\ Notify(Payload("window-close", w, 0, <<>>))
                           /\ UNCHANGED <<wins, outs>>
    BY <1>8 DEF SrvCloseWindow
  <2>2. Payload("window-close", w, 0, <<>>) \in Payloads
    BY <1>1, <1>2, <1>3
  <2>3. Writes(Payload("window-close", w, 0, <<>>))
    BY <1>3, <1>4, <2>1
  <2> QED BY <1>1, <2>1, <2>2, <2>3
<1>9. CASE SrvRenameWindow
  <2>1. PICK w \in alive : Notify(Payload("window-renamed", w, 0, <<>>)) /\ UNCHANGED srvVars
    BY <1>9 DEF SrvRenameWindow
  <2>2. Payload("window-renamed", w, 0, <<>>) \in Payloads
    BY <1>1, <1>2, <1>3
  <2>3. Writes(Payload("window-renamed", w, 0, <<>>))
    BY <1>3, <1>4, <2>1 DEF srvVars
  <2> QED BY <1>1, <2>1, <2>2, <2>3 DEF srvVars
<1>10. CASE SrvOutput
  <2>1. PICK p \in LivePanes : /\ outs' = [outs EXCEPT ![p] = @ + 1]
                               /\ Notify(Payload("output", p, outs'[p], <<>>))
                               /\ UNCHANGED <<wins, alive>>
    BY <1>10 DEF SrvOutput
  <2>2. p \in Id
    <3>1. PICK w \in alive : p \in Range(wins[w])
      BY DEF LivePanes
    <3>2. wins[w] \in Seq(Id)
      BY <1>1
    <3> QED BY <3>1, <3>2 DEF Range
  <2>3. outs' \in [Id -> Nat]
    BY <1>1, <2>1, <2>2
  <2>4. Payload("output", p, outs'[p], <<>>) \in Payloads
    <3> DEFINE x == outs'[p]
    <3>1. x \in Nat
      BY <2>2, <2>3
    <3> HIDE DEF x
    <3>2. Payload("output", p, x, <<>>) \in Payloads
      BY <1>1, <1>2, <1>3, <2>2, <3>1
    <3> QED BY <3>2 DEF x
  <2>5. Notify(Payload("output", p, outs'[p], <<>>)) /\ wins' \in [Id -> Seq(Id)] /\ alive' \subseteq Id
    BY <1>1, <2>1
  <2>6. Writes(Payload("output", p, outs'[p], <<>>))
    BY <2>1 DEF Writes, Payload
  <2> QED BY <2>3, <2>4, <2>5, <2>6
<1>11. CASE SrvExit
  <2>1. Payload("exit", 0, 0, <<>>) \in Payloads
    BY <1>1, <1>2, <1>3
  <2>2. Writes(Payload("exit", 0, 0, <<>>))
    BY <1>3, <1>4, <1>11 DEF SrvExit, srvVars
  <2> QED BY <1>1, <1>11, <2>1, <2>2 DEF SrvExit, srvVars
<1> QED BY <1>5, <1>6, <1>7, <1>8, <1>9, <1>10, <1>11 DEF Server

\* The server's steps keep the invariant.
LEMMA ServerStep == GatewayInv /\ Server => GatewayInv'
<1> SUFFICES ASSUME GatewayInv, Server PROVE GatewayInv'
  OBVIOUS
<1>0. TypeOK
  BY DEF GatewayInv
<1>1. CASE SrvAnswer
  <2>1. Head(toSrv) \in Command /\ Tail(toSrv) \in Seq(Command) /\ Len(Tail(toSrv)) <= sent
    BY <1>0, <1>1 DEF SrvAnswer, TypeOK
  <2>2. BlockOf(Head(toSrv)) \in Seq(Line)
    BY <1>0, <2>1, BlockTyped
  <2>3. stream' \in Seq(Line)
    <3>1. stream \in Seq(Line)
      BY <1>0 DEF TypeOK
    <3>2. stream \o BlockOf(Head(toSrv)) \in Seq(Line)
      BY <2>2, <3>1, ConcatProps
    <3> QED BY <1>1, <3>2 DEF SrvAnswer
  <2>4. toSrv' = Tail(toSrv) /\ UNCHANGED <<gwVars, histVars, sent, notes, srvVars>>
    BY <1>1 DEF SrvAnswer
  <2>5. TypeOK'
    BY <1>0, <2>1, <2>3, <2>4 DEF TypeOK, gwVars, histVars, srvVars
  <2> QED BY <2>4, <2>5, Frame DEF gwVars, histVars
<1>2. CASE ~SrvAnswer
  <2>1. PICK d \in Payloads : /\ Notify(d) /\ wins' \in [Id -> Seq(Id)]
                              /\ alive' \subseteq Id /\ outs' \in [Id -> Nat]
    BY <1>2, ServerWrites
  <2> QED BY <2>1, NotifyKeeps
<1> QED BY <1>1, <1>2

\* What closeAllPanes leaves, run twice on the same panes.
LEMMA DeleteEffect ==
  ASSUME GatewayInv, NEW left, DeleteGateway(left)
  PROVE  /\ gw' = left /\ objs' \in Seq(Object) /\ Len(objs') = Len(objs)
         /\ mapPanes' = [p \in Id |-> 0] /\ fault' \in BOOLEAN
         /\ \A i \in 1..Len(objs) :
              objs'[i] = IF i \in Mapped(mapPanes) /\ objs[i].win = "open"
                         THEN [objs[i] EXCEPT !.win = "closed"] ELSE objs[i]
         /\ fault' => \E i \in 1..Len(objs) : objs[i].win = "user-closed"
<1> DEFINE once == CloseAllPanes(objs, mapPanes)
           twice == CloseAllPanes(once.objs, once.map)
           O(i) == IF i \in Mapped(mapPanes) /\ objs[i].win = "open"
                   THEN [objs[i] EXCEPT !.win = "closed"] ELSE objs[i]
<1>1. gw' = left /\ objs' = twice.objs /\ mapPanes' = twice.map /\ fault' = (once.bad \/ twice.bad)
  BY DEF DeleteGateway
<1>2. TypeOK /\ PanesKnown /\ objs \in Seq(Object) /\ DOMAIN objs = 1..Len(objs) /\ Len(objs) \in Nat
  BY DEF GatewayInv, TypeOK
<1>3. /\ once.objs = [i \in 1..Len(objs) |-> O(i)] /\ once.map = [p \in Id |-> 0]
      /\ once.bad = \E i \in Mapped(mapPanes) : objs[i].win # "open"
  BY <1>2 DEF CloseAllPanes
<1>4. ASSUME NEW i \in 1..Len(objs) PROVE O(i) \in Object
  <2>1. objs[i] \in Object
    BY <1>2
  <2> QED BY <2>1 DEF Object
<1> HIDE DEF O
<1>5. once.objs \in Seq(Object) /\ Len(once.objs) = Len(objs) /\ DOMAIN once.objs = 1..Len(objs)
  BY <1>2, <1>3, <1>4
<1>6. Mapped(once.map) = {}
  BY <1>3 DEF Mapped
<1> HIDE DEF once
<1>7. /\ twice.objs = [i \in 1..Len(objs) |-> once.objs[i]] /\ twice.map = [p \in Id |-> 0]
      /\ ~twice.bad
  BY <1>5, <1>6 DEF CloseAllPanes
<1>8. twice.objs = once.objs
  <2>1. once.objs = [i \in 1..Len(objs) |-> once.objs[i]]
    BY <1>5
  <2> QED BY <1>7, <2>1
<1> HIDE DEF twice
<1>9. \A i \in 1..Len(objs) : objs'[i] = O(i)
  BY <1>1, <1>3, <1>8
<1>10. ASSUME fault' PROVE \E i \in 1..Len(objs) : objs[i].win = "user-closed"
  <2>1. PICK i \in Mapped(mapPanes) : objs[i].win # "open"
    BY <1>1, <1>3, <1>7, <1>10
  <2>2. PICK p \in Id : i = mapPanes[p] /\ mapPanes[p] # 0
    BY DEF Mapped
  <2>3. i \in 1..Len(objs)
    BY <1>2, <2>2 DEF TypeOK
  <2>4. objs[i].win # "closed"
    BY <1>2, <2>2 DEF PanesKnown
  <2>5. objs[i] \in Object
    BY <1>2, <2>3
  <2>6. objs[i].win \in {"open", "closed", "user-closed"}
    BY <2>5, ObjectFields
  <2> QED BY <2>1, <2>3, <2>4, <2>6
<1>11. fault' \in BOOLEAN
  <2>1. once.bad \in BOOLEAN
    BY <1>3
  <2> QED BY <1>1, <1>7, <2>1
<1> QED BY <1>1, <1>5, <1>7, <1>8, <1>9, <1>10, <1>11 DEF O

\* Deleting the gateway, with its window and its mode ending as they should.
LEMMA DeleteKeeps ==
  ASSUME GatewayInv, NEW left \in {"deleted", "dangling"}, DeleteGateway(left),
         mode' \in {"NONE", "GATEWAY", "DETACH_INIT"}, gwWnd' \in {"hidden", "split", "closed"},
         stream' \in Seq(Line),
         UNCHANGED <<cmdq, cur, resp, callback, mapLayout, stop, sent, toSrv, notes, srvVars>>,
         EndsTogether'
  PROVE  GatewayInv'
<1>1. /\ gw' = left /\ objs' \in Seq(Object) /\ Len(objs') = Len(objs)
      /\ mapPanes' = [p \in Id |-> 0] /\ fault' \in BOOLEAN
      /\ \A i \in 1..Len(objs) :
           objs'[i] = IF i \in Mapped(mapPanes) /\ objs[i].win = "open"
                      THEN [objs[i] EXCEPT !.win = "closed"] ELSE objs[i]
      /\ fault' => \E i \in 1..Len(objs) : objs[i].win = "user-closed"
  BY DeleteEffect
<1>2. TypeOK /\ PanesKnown /\ objs \in Seq(Object) /\ DOMAIN objs = 1..Len(objs) /\ Len(objs) \in Nat
  BY DEF GatewayInv, TypeOK
<1>3. DOMAIN objs' = 1..Len(objs)
  BY <1>1
<1>4. mapPanes' \in [Id -> 0..Len(objs')] /\ \A p \in Id : mapPanes'[p] = 0
  BY <1>1, <1>2
<1>5. TypeOK'
  BY <1>1, <1>2, <1>4 DEF TypeOK, srvVars
<1>6. ReceiversExist'
  <2>1. ReceiversExist
    BY DEF GatewayInv
  <2>2. objs' # <<>> => objs # <<>>
    BY <1>1, <1>2
  <2> QED BY <1>1, <2>1, <2>2 DEF ReceiversExist
<1>7. PanesKnown'
  <2>1. ASSUME NEW i \in DOMAIN objs', objs'[i].win = "open"
        PROVE  objs'[i].dropped
    <3>1. i \in 1..Len(objs) /\ objs[i] \in Object
      BY <1>2, <1>3
    <3>2. ~(i \in Mapped(mapPanes) /\ objs[i].win = "open")
      <4> SUFFICES ASSUME i \in Mapped(mapPanes), objs[i].win = "open" PROVE FALSE
        OBVIOUS
      <4>1. objs'[i] = [objs[i] EXCEPT !.win = "closed"]
        BY <1>1, <3>1
      <4>2. [objs[i] EXCEPT !.win = "closed"].win = "closed"
        BY <3>1 DEF Object
      <4> QED BY <2>1, <4>1, <4>2
    <3>3. objs'[i] = objs[i]
      BY <1>1, <3>1, <3>2
    <3>4. objs[i].win = "open" /\ i \notin Mapped(mapPanes)
      BY <2>1, <3>2, <3>3
    <3>5. objs[i].pane \in Id /\ i # 0
      BY <3>1, ObjectFields
    <3>6. mapPanes[objs[i].pane] # i
      BY <3>4, <3>5 DEF Mapped
    <3>7. objs[i].dropped
      BY <1>2, <3>1, <3>4, <3>6 DEF PanesKnown
    <3> QED BY <3>3, <3>7
  <2>2. gw' # "live"
    BY <1>1
  <2> QED BY <1>4, <2>1, <2>2 DEF PanesKnown
<1>8. NoFaultUnprovoked'
  <2> SUFFICES ASSUME fault' PROVE \E i \in DOMAIN objs' : objs'[i].win = "user-closed"
    BY DEF NoFaultUnprovoked
  <2>1. PICK i \in 1..Len(objs) : objs[i].win = "user-closed"
    BY <1>1
  <2>2. objs'[i] = objs[i]
    BY <1>1, <2>1
  <2> QED BY <1>3, <2>1, <2>2
<1> QED BY <1>5, <1>6, <1>7, <1>8 DEF GatewayInv

\* An object changes, but not its pane; its window may only be closed by the user.
LEMMA UpdateKeeps ==
  ASSUME GatewayInv, NEW i \in 1..Len(objs), NEW o \in Object,
         o.pane = objs[i].pane, o.win \in {objs[i].win, "user-closed"},
         o.dropped = objs[i].dropped,
         objs' = [objs EXCEPT ![i] = o], UNCHANGED <<mapPanes, gw>>
  PROVE  /\ objs' \in Seq(Object) /\ Len(objs') = Len(objs)
         /\ mapPanes' \in [Id -> 0..Len(objs')]
         /\ \A p \in Id : mapPanes'[p] # 0 => objs'[mapPanes'[p]].pane = p
         /\ PanesKnown'
<1>0. /\ TypeOK /\ PanesKnown
      /\ objs \in Seq(Object) /\ DOMAIN objs = 1..Len(objs) /\ Len(objs) \in Nat
  BY DEF GatewayInv, TypeOK
<1>1. /\ objs' \in Seq(Object) /\ Len(objs') = Len(objs) /\ DOMAIN objs' = 1..Len(objs)
      /\ objs'[i] = o /\ \A j \in 1..Len(objs) : j # i => objs'[j] = objs[j]
  BY <1>0
<1>2. \A j \in 1..Len(objs) :
        /\ objs'[j].pane = objs[j].pane /\ objs'[j].dropped = objs[j].dropped
        /\ objs'[j].win \in {objs[j].win, "user-closed"}
  BY <1>1
<1>3. \A p \in Id : mapPanes[p] # 0 => mapPanes[p] \in 1..Len(objs)
  BY <1>0 DEF TypeOK
<1>4. mapPanes' = mapPanes /\ gw' = gw
  OBVIOUS
<1>5. mapPanes' \in [Id -> 0..Len(objs')]
  BY <1>0, <1>1, <1>4 DEF TypeOK
<1>6. \A p \in Id : mapPanes'[p] # 0 => objs'[mapPanes'[p]].pane = p
  BY <1>0, <1>2, <1>3, <1>4 DEF TypeOK
<1> DEFINE os == objs'
<1>7. /\ DOMAIN os = 1..Len(objs)
      /\ \A j \in 1..Len(objs) :
           /\ os[j].pane = objs[j].pane /\ os[j].dropped = objs[j].dropped
           /\ os[j].win \in {objs[j].win, "user-closed"}
  BY <1>1, <1>2
<1> HIDE DEF os
<1>8. /\ \A j \in DOMAIN os : os[j].win = "open" => mapPanes[os[j].pane] = j \/ os[j].dropped
      /\ \A p \in Id : mapPanes[p] # 0 => os[mapPanes[p]].win # "closed"
      /\ gw = "live" => \A j \in DOMAIN os : os[j].win # "closed"
      /\ gw # "live" => \A p \in Id : mapPanes[p] = 0
  BY <1>0, <1>3, <1>7 DEF PanesKnown
<1>9. PanesKnown'
  BY <1>4, <1>8 DEF PanesKnown, os
<1> QED BY <1>1, <1>5, <1>6, <1>9

\* The user's steps keep the invariant.
LEMMA UserStep == GatewayInv /\ User => GatewayInv'
<1> SUFFICES ASSUME GatewayInv, User PROVE GatewayInv'
  OBVIOUS
<1>0. /\ TypeOK /\ ReceiversExist /\ PanesKnown /\ EndsTogether
      /\ objs \in Seq(Object) /\ DOMAIN objs = 1..Len(objs) /\ Len(objs) \in Nat
  BY DEF GatewayInv, TypeOK
<1>1. CASE UserSends
  <2>1. UNCHANGED <<mode, gw, gwWnd, cur, resp, callback, objs, mapPanes, mapLayout,
                    stop, stream, notes, srvVars>>
    BY <1>1 DEF UserSends
  <2>2. CASE gw = "live" /\ gwWnd # "closed"
    <3> DEFINE c == Cmd(Gateway, "CB_NULL", 0)
    <3>1. c \in Command /\ c.recv = 0
      BY GatewayAssumption DEF Cmd, Command, Gateway, Callbacks, Id
    <3>2. SendCommands(<<c>>) /\ fault' = fault
      BY <1>1, <2>2 DEF UserSends
    <3> HIDE DEF c
    <3>3. <<c>> \in Seq(Command) /\ Len(<<c>>) = 1 /\ <<c>>[1] = c
      BY <3>1
    <3> DEFINE cs == <<c>>
    <3>4. cs \in Seq(Command) /\ \A i \in 1..Len(cs) : cs[i].recv <= Len(objs)
      BY <1>0, <3>1, <3>3
    <3> HIDE DEF cs
    <3>5. SendCommands(cs)
      BY <3>2 DEF cs
    <3>6. /\ cmdq \in Seq(Command) /\ toSrv \in Seq(Command) /\ sent \in Nat /\ Len(toSrv) <= sent
          /\ \A i \in 1..Len(cmdq) : cmdq[i].recv <= Len(objs)
      BY <1>0 DEF TypeOK, ReceiversExist
    <3>7. /\ cmdq' \in Seq(Command) /\ toSrv' \in Seq(Command) /\ sent' \in Nat
          /\ Len(toSrv') <= sent'
          /\ \A i \in 1..Len(cmdq') : cmdq'[i].recv <= Len(objs)
      BY <1>0, <3>4, <3>5, <3>6, SendEffect
    <3>8. TypeOK'
      BY <1>0, <2>1, <3>2, <3>7 DEF TypeOK, srvVars
    <3>9. ReceiversExist'
      BY <1>0, <2>1, <3>7 DEF ReceiversExist
    <3>10. PanesKnown' /\ EndsTogether'
      BY <1>0, <2>1 DEF PanesKnown, EndsTogether
    <3>11. NoFaultUnprovoked'
      BY <2>1, <3>2 DEF NoFaultUnprovoked, GatewayInv
    <3> QED BY <3>8, <3>9, <3>10, <3>11 DEF GatewayInv
  <2>3. CASE ~(gw = "live" /\ gwWnd # "closed")
    <3>1. fault' = TRUE /\ UNCHANGED <<sent, cmdq, toSrv>>
      BY <1>1, <2>3 DEF UserSends
    <3>2. TypeOK'
      BY <1>0, <2>1, <3>1 DEF TypeOK, srvVars
    <3>3. ReceiversExist' /\ PanesKnown' /\ EndsTogether'
      BY <1>0, <2>1, <3>1 DEF ReceiversExist, PanesKnown, EndsTogether
    <3>4. NoFaultUnprovoked'
      <4>1. CASE gw = "live"
        BY <1>0, <2>1, <2>3, <4>1 DEF EndsTogether, NoFaultUnprovoked
      <4>2. CASE gw # "live"
        <5>1. PICK i \in DOMAIN objs : objs[i].win = "open" /\ objs[i].tab
          BY <1>1 DEF UserSends
        <5>2. objs[i] \in Object
          BY <1>0
        <5>3. objs[i].pane \in Id /\ i # 0
          BY <1>0, <5>2, ObjectFields
        <5>4. mapPanes[objs[i].pane] = 0
          BY <1>0, <4>2, <5>3 DEF PanesKnown
        <5>5. objs[i].dropped
          BY <1>0, <5>1, <5>3, <5>4 DEF PanesKnown
        <5> QED BY <2>1, <5>1, <5>5 DEF NoFaultUnprovoked
      <4> QED BY <4>1, <4>2
    <3> QED BY <3>2, <3>3, <3>4 DEF GatewayInv
  <2> QED BY <2>2, <2>3
<1>2. CASE UserClosesPane
  <2>1. PICK i \in DOMAIN objs : objs' = [objs EXCEPT ![i].win = "user-closed"]
    BY <1>2 DEF UserClosesPane
  <2>2. ~fault /\ UNCHANGED <<mode, gw, gwWnd, cmdq, cur, resp, callback, mapPanes, mapLayout,
                             histVars, sent, toSrv, stream, notes, srvVars>>
    BY <1>2 DEF UserClosesPane, Running
  <2> DEFINE o == [objs[i] EXCEPT !.win = "user-closed"]
  <2>3. objs[i] \in Object /\ i \in 1..Len(objs)
    BY <1>0
  <2>4. /\ o \in Object /\ o.pane = objs[i].pane /\ o.dropped = objs[i].dropped
        /\ o.win = "user-closed"
    BY <2>3 DEF Object
  <2>5. objs' = [objs EXCEPT ![i] = o]
    BY <2>1
  <2> HIDE DEF o
  <2>6. /\ objs' \in Seq(Object) /\ Len(objs') = Len(objs)
        /\ mapPanes' \in [Id -> 0..Len(objs')]
        /\ \A p \in Id : mapPanes'[p] # 0 => objs'[mapPanes'[p]].pane = p
        /\ PanesKnown'
    BY <2>2, <2>3, <2>4, <2>5, UpdateKeeps
  <2>7. TypeOK'
    BY <1>0, <2>2, <2>6 DEF TypeOK, histVars, srvVars
  <2>8. objs' # <<>> => objs # <<>>
    BY <2>6, <1>0
  <2>9. ReceiversExist'
    BY <1>0, <2>2, <2>6, <2>8 DEF ReceiversExist
  <2>10. EndsTogether' /\ NoFaultUnprovoked'
    BY <1>0, <2>2 DEF EndsTogether, NoFaultUnprovoked, histVars
  <2> QED BY <2>6, <2>7, <2>9, <2>10 DEF GatewayInv
<1>3. CASE CloseGatewayWindow
  <2>1. /\ gwWnd # "closed" /\ gwWnd' = "closed"
        /\ UNCHANGED <<mode, cmdq, cur, resp, callback, mapLayout, stop,
                       sent, toSrv, stream, notes, srvVars>>
    BY <1>3 DEF CloseGatewayWindow
  <2>2. CASE mode = "GATEWAY" /\ gw = "live"
    <3>1. DeleteGateway("deleted")
      BY <1>3, <2>2 DEF CloseGatewayWindow
    <3>2. gw' = "deleted"
      BY <3>1 DEF DeleteGateway
    <3>3. EndsTogether'
      BY <2>1, <2>2, <3>2 DEF EndsTogether
    <3>4. mode' \in {"NONE", "GATEWAY", "DETACH_INIT"} /\ stream' \in Seq(Line)
      BY <1>0, <2>1 DEF TypeOK
    <3> QED BY <2>1, <3>1, <3>3, <3>4, DeleteKeeps
  <2>3. CASE ~(mode = "GATEWAY" /\ gw = "live")
    <3>1. UNCHANGED <<gw, objs, mapPanes>> /\ fault' = (mode = "GATEWAY")
      BY <1>3, <2>3 DEF CloseGatewayWindow
    <3>2. TypeOK'
      BY <1>0, <2>1, <3>1 DEF TypeOK, srvVars
    <3>3. ReceiversExist' /\ PanesKnown'
      BY <1>0, <2>1, <3>1 DEF ReceiversExist, PanesKnown
    <3>4. EndsTogether'
      BY <1>0, <2>1, <2>3, <3>1 DEF EndsTogether, TypeOK
    <3>5. NoFaultUnprovoked'
      BY <1>0, <2>1, <2>3, <3>1 DEF EndsTogether, NoFaultUnprovoked, TypeOK
    <3> QED BY <3>2, <3>3, <3>4, <3>5 DEF GatewayInv
  <2> QED BY <2>2, <2>3
<1>4. CASE RestartGatewayWindow
  <2>1. /\ gwWnd = "split" /\ mode = "GATEWAY" /\ gw = "live" /\ DeleteGateway("dangling")
        /\ UNCHANGED <<mode, gwWnd, cmdq, cur, resp, callback, mapLayout, stop,
                       sent, toSrv, stream, notes, srvVars>>
    BY <1>4 DEF RestartGatewayWindow
  <2>2. gw' = "dangling"
    BY <2>1 DEF DeleteGateway
  <2>3. EndsTogether'
    BY <2>1, <2>2 DEF EndsTogether
  <2>4. /\ mode' \in {"NONE", "GATEWAY", "DETACH_INIT"} /\ stream' \in Seq(Line)
        /\ gwWnd' \in {"hidden", "split", "closed"}
    BY <1>0, <2>1 DEF TypeOK
  <2> QED BY <2>1, <2>3, <2>4, DeleteKeeps
<1>5. CASE ReceiveAfterRestart
  <2>1. fault' = TRUE /\ gw = "dangling" /\ UNCHANGED <<gwVars, stop, sent, toSrv, stream, notes, srvVars>>
    BY <1>5 DEF ReceiveAfterRestart
  <2>2. TypeOK'
    BY <1>0, <2>1 DEF TypeOK, gwVars, srvVars
  <2>3. ReceiversExist' /\ PanesKnown' /\ EndsTogether'
    BY <1>0, <2>1 DEF ReceiversExist, PanesKnown, EndsTogether, gwVars
  <2>4. NoFaultUnprovoked'
    BY <2>1 DEF NoFaultUnprovoked, gwVars
  <2> QED BY <2>2, <2>3, <2>4 DEF GatewayInv
<1>6. CASE EnterAgain
  <2>1. /\ stop' = IF mode = "NONE" THEN "entered-again" ELSE "assert-mode-none"
        /\ UNCHANGED <<gwVars, fault, sent, toSrv, stream, notes, srvVars>>
    BY <1>6 DEF EnterAgain
  <2>2. TypeOK'
    BY <1>0, <2>1 DEF TypeOK, gwVars, srvVars, Stops
  <2> QED BY <2>1, <2>2, Frame DEF gwVars
<1> QED BY <1>1, <1>2, <1>3, <1>4, <1>5, <1>6 DEF User

\* Taking a line.
LEMMA TakeEffect ==
  ASSUME GatewayInv, TakeLine
  PROVE  /\ ~fault /\ stop = "no" /\ mode = "GATEWAY" /\ gw = "live" /\ gwWnd # "closed"
         /\ Head(stream) \in Line /\ stream' \in Seq(Line)
         /\ notes' = notes /\ wins' = wins /\ alive' = alive /\ outs' = outs /\ gwWnd' = gwWnd
         /\ \A i \in 1..Len(objs) : objs[i].win \in {"open", "user-closed"}
<1>1. stream \in Seq(Line) /\ stream # <<>> /\ stream' = Tail(stream)
  BY DEF GatewayInv, TypeOK, TakeLine
<1>2. Head(stream) \in Line /\ Tail(stream) \in Seq(Line)
  BY <1>1
<1>3. ~fault /\ stop = "no" /\ mode = "GATEWAY" /\ gw = "live" /\ gwWnd # "closed"
  BY DEF TakeLine, Running
<1>4. ASSUME NEW i \in 1..Len(objs) PROVE objs[i].win \in {"open", "user-closed"}
  <2>1. objs[i] \in Object /\ i \in DOMAIN objs
    BY DEF GatewayInv, TypeOK
  <2>2. objs[i].win # "closed"
    BY <1>3, <2>1 DEF GatewayInv, PanesKnown
  <2> QED BY <2>1, <2>2, ObjectFields
<1> QED BY <1>1, <1>2, <1>3, <1>4 DEF TakeLine, srvVars

\* The fields of a line.
LEMMA LineFields ==
  \A l \in Line : /\ l.t \in {"begin", "data", "end", "note"} /\ l.n \in Nat /\ l.k \in Nat
                  /\ l.d \in Payloads /\ l.d.id \in Id /\ l.d.pos \in Nat
BY DEF Line, Payloads

\* No command is a command, of nobody.
LEMMA NoCmdTyped == NoCmd \in Command /\ NoCmd.recv = 0 /\ NoCmd.id = 0
BY GatewayAssumption DEF NoCmd, Command, Gateway, Callbacks, Id

\* The loops start from good work.
LEMMA StartIsGood ==
  ASSUME GatewayInv, gw = "live"
  PROVE  WorkStart \in GoodWork
<1>0. /\ TypeOK /\ PanesKnown
      /\ objs \in Seq(Object) /\ DOMAIN objs = 1..Len(objs) /\ Len(objs) \in Nat
  BY DEF GatewayInv, TypeOK
<1>1. \A p \in Id : mapPanes[p] \in 0..Len(objs)
  BY <1>0 DEF TypeOK
<1>2. mapPanes \in [Id -> Nat] /\ mapLayout \in [Id -> Seq(Id)] /\ <<>> \in Seq(Command)
  BY <1>0, <1>1 DEF TypeOK
<1>3. /\ WorkStart \in Work
      /\ WorkStart.objs = objs /\ WorkStart.map = mapPanes
      /\ WorkStart.cmds = <<>> /\ ~WorkStart.bad
  BY <1>0, <1>2 DEF WorkStart, Work
<1>4. /\ \A p \in Id : mapPanes[p] <= Len(objs) /\ (mapPanes[p] # 0 => objs[mapPanes[p]].pane = p)
      /\ \A i \in 1..Len(objs) :
           /\ objs[i].win # "closed"
           /\ objs[i].win = "open" => mapPanes[objs[i].pane] = i \/ objs[i].dropped
  <2>1. \A p \in Id : mapPanes[p] # 0 => objs[mapPanes[p]].pane = p
    BY <1>0 DEF TypeOK
  <2>2. \A p \in Id : mapPanes[p] <= Len(objs)
    BY <1>0, <1>1
  <2>3. \A i \in 1..Len(objs) :
          /\ objs[i].win # "closed"
          /\ objs[i].win = "open" => mapPanes[objs[i].pane] = i \/ objs[i].dropped
    BY <1>0 DEF PanesKnown
  <2> QED BY <2>1, <2>2, <2>3
<1>5. Len(<<>>) = 0 /\ \A i \in 1..0 : FALSE
  OBVIOUS
<1>6. WorkOK(WorkStart)
  BY <1>0, <1>3, <1>4, <1>5 DEF WorkOK
<1>7. Fresh(WorkStart)
  BY <1>0, <1>3, <1>5 DEF Fresh
<1> QED BY <1>3, <1>6, <1>7 DEF GoodWork

\* What the handlers of an answer for the gateway make is good work.
LEMMA WorkDone ==
  ASSUME GatewayInv, ParseEndGateway
  PROVE  \E a \in GoodWork : /\ objs' = a.objs /\ mapPanes' = a.map /\ mapLayout' = a.lay
                             /\ fault' = a.bad /\ SendCommands(a.cmds)
<1>1. gw = "live"
  BY DEF ParseEndGateway, TakeInMode, TakeLine
<1>2. WorkStart \in GoodWork
  BY <1>1, StartIsGood
<1>3. resp \in Seq(Line) /\ <<>> \in Seq(Line) /\ objs \in Seq(Object)
  BY DEF GatewayInv, TypeOK
<1>4. CreateWindows(resp) \in GoodWork /\ CreateWindows(<<>>) \in GoodWork
  BY <1>2, <1>3, WindowsKeep
<1> QED BY <1>4 DEF ParseEndGateway

\* The end of an answer to the gateway: the windows are listed, or nothing waits for it.
LEMMA ParseEndGatewayStep == GatewayInv /\ ParseEndGateway => GatewayInv'
<1> SUFFICES ASSUME GatewayInv, ParseEndGateway PROVE GatewayInv'
  OBVIOUS
<1>0. /\ TypeOK /\ ReceiversExist /\ PanesKnown /\ EndsTogether
      /\ objs \in Seq(Object) /\ DOMAIN objs = 1..Len(objs) /\ Len(objs) \in Nat
  BY DEF GatewayInv, TypeOK
<1>1. /\ ~fault /\ stop = "no" /\ mode = "GATEWAY" /\ gw = "live" /\ gwWnd # "closed"
      /\ Head(stream) \in Line /\ stream' \in Seq(Line)
      /\ notes' = notes /\ wins' = wins /\ alive' = alive /\ outs' = outs /\ gwWnd' = gwWnd
      /\ mode' = mode /\ gw' = gw
  BY TakeEffect DEF ParseEndGateway, TakeInMode
<1>2. PICK a \in GoodWork : /\ objs' = a.objs /\ mapPanes' = a.map /\ mapLayout' = a.lay
                            /\ fault' = a.bad /\ SendCommands(a.cmds)
  BY WorkDone
<1>3. a \in Work /\ WorkOK(a)
  BY DEF GoodWork
<1>4. /\ a.objs \in Seq(Object) /\ a.map \in [Id -> Nat] /\ a.lay \in [Id -> Seq(Id)]
      /\ a.cmds \in Seq(Command) /\ a.bad \in BOOLEAN
  BY <1>3 DEF Work
<1>5. /\ cur.id # 0 /\ callback' = [cmd |-> cur.id, lines |-> resp, size |-> Head(stream).k]
      /\ cur' = NoCmd /\ resp' = <<>> /\ stop' = stop
  BY DEF ParseEndGateway
<1>6. callback' \in [cmd : Nat, lines : Seq(Line), size : Nat] /\ callback'.cmd # 0
  <2>1. cur.id \in Nat /\ resp \in Seq(Line) /\ Head(stream).k \in Nat
    BY <1>0, <1>1, LineFields, CommandFields DEF TypeOK
  <2> QED BY <1>5, <2>1
<1>7. Len(a.objs) \in Nat /\ Len(objs) <= Len(a.objs) /\ DOMAIN a.objs = 1..Len(a.objs)
  BY <1>3, <1>4 DEF WorkOK
<1>8. /\ cmdq' \in Seq(Command) /\ toSrv' \in Seq(Command) /\ sent' \in Nat
      /\ Len(toSrv') <= sent'
      /\ \A i \in 1..Len(cmdq') : cmdq'[i].recv <= Len(a.objs)
  <2> DEFINE cs == a.cmds
             b == Len(a.objs)
  <2>1. cs \in Seq(Command) /\ b \in Nat /\ SendCommands(cs)
    BY <1>2, <1>4, <1>7
  <2>2. \A i \in 1..Len(cs) : cs[i].recv <= b
    BY <1>3 DEF WorkOK
  <2>3. \A i \in 1..Len(cmdq) : cmdq[i].recv <= b
    <3> SUFFICES ASSUME NEW i \in 1..Len(cmdq) PROVE cmdq[i].recv <= b
      OBVIOUS
    <3>1. cmdq[i] \in Command /\ i \in DOMAIN cmdq
      BY <1>0 DEF TypeOK
    <3>2. cmdq[i].recv \in Nat /\ cmdq[i].recv <= Len(objs)
      BY <1>0, <3>1, CommandFields DEF ReceiversExist
    <3> QED BY <1>0, <1>7, <3>2
  <2> HIDE DEF cs, b
  <2>4. cmdq \in Seq(Command) /\ toSrv \in Seq(Command) /\ sent \in Nat /\ Len(toSrv) <= sent
    BY <1>0 DEF TypeOK
  <2>5. /\ cmdq' \in Seq(Command) /\ toSrv' \in Seq(Command) /\ sent' \in Nat
        /\ Len(toSrv') <= sent'
        /\ \A i \in 1..Len(cmdq') : cmdq'[i].recv <= b
    BY <2>1, <2>2, <2>3, <2>4, SendEffect
  <2> QED BY <2>5 DEF b
<1>9. /\ \A p \in Id : a.map[p] <= Len(a.objs) /\ (a.map[p] # 0 => a.objs[a.map[p]].pane = p)
      /\ \A i \in 1..Len(a.objs) :
           /\ a.objs[i].win # "closed"
           /\ a.objs[i].win = "open" => a.map[a.objs[i].pane] = i \/ a.objs[i].dropped
      /\ a.bad => \E i \in 1..Len(a.objs) : a.objs[i].win = "user-closed"
  BY <1>3 DEF WorkOK
<1>10. a.map \in [Id -> 0..Len(a.objs)]
  BY <1>4, <1>7, <1>9
<1>11. <<>> \in Seq(Line)
  OBVIOUS
<1>12. TypeOK'
  BY <1>0, <1>1, <1>2, <1>4, <1>5, <1>6, <1>8, <1>9, <1>10, <1>11, NoCmdTyped DEF TypeOK
<1>13. ReceiversExist'
  <2>1. DOMAIN cmdq' = 1..Len(cmdq')
    BY <1>8
  <2> QED BY <1>2, <1>5, <1>6, <1>7, <1>8, <2>1, NoCmdTyped DEF ReceiversExist
<1>14. \A p \in Id : a.map[p] # 0 => a.map[p] \in 1..Len(a.objs)
  BY <1>10
<1>15. PanesKnown'
  BY <1>1, <1>2, <1>7, <1>9, <1>14 DEF PanesKnown
<1>16. EndsTogether'
  BY <1>0, <1>1 DEF EndsTogether
<1>17. NoFaultUnprovoked'
  BY <1>2, <1>7, <1>9 DEF NoFaultUnprovoked
<1> QED BY <1>12, <1>13, <1>15, <1>16, <1>17 DEF GatewayInv

\* The end of an answer to a pane: its history is shown.
LEMMA ParseEndPaneStep == GatewayInv /\ ParseEndPane => GatewayInv'
<1> SUFFICES ASSUME GatewayInv, ParseEndPane PROVE GatewayInv'
  OBVIOUS
<1>0. /\ TypeOK /\ ReceiversExist /\ PanesKnown /\ EndsTogether
      /\ objs \in Seq(Object) /\ DOMAIN objs = 1..Len(objs) /\ Len(objs) \in Nat
  BY DEF GatewayInv, TypeOK
<1>1. /\ ~fault /\ stop = "no" /\ mode = "GATEWAY" /\ gw = "live" /\ gwWnd # "closed"
      /\ Head(stream) \in Line /\ stream' \in Seq(Line)
      /\ notes' = notes /\ wins' = wins /\ alive' = alive /\ outs' = outs /\ gwWnd' = gwWnd
      /\ mode' = mode /\ gw' = gw
      /\ \A j \in 1..Len(objs) : objs[j].win \in {"open", "user-closed"}
  BY TakeEffect DEF ParseEndPane, TakeInMode
<1> DEFINE i == cur.recv
           x == objs[i]
           o == CASE cur.cb = "CB_DUMP_HISTORY" ->
                       [x EXCEPT !.shown = @ \o [j \in DOMAIN resp |-> resp[j].d.pos]]
                  [] cur.cb = "CB_DUMP_TERM_STATE" /\ resp # <<>> -> [x EXCEPT !.ready = TRUE]
                  [] OTHER -> x
           used == cur.cb # "CB_DUMP_TERM_STATE" \/ resp # <<>>
<1>2. /\ cur.id # 0 /\ cur.recv # Gateway
      /\ callback' = [cmd |-> cur.id, lines |-> resp, size |-> Head(stream).k]
      /\ cur' = NoCmd /\ resp' = <<>>
      /\ fault' = (used /\ x.win # "open")
      /\ stop' = IF cur.cb = "CB_DUMP_HISTORY" /\ x.shown # <<>> THEN "assert-clean-slate" ELSE stop
      /\ objs' = [objs EXCEPT ![i] = o]
      /\ UNCHANGED <<mapPanes, mapLayout, cmdq, sent, toSrv>>
  BY DEF ParseEndPane
<1>3. i \in 1..Len(objs) /\ x \in Object
  <2>1. cur.recv \in Nat /\ cur.recv <= Len(objs) /\ cur.recv # 0
    BY <1>0, <1>2, CommandFields DEF TypeOK, ReceiversExist, Gateway
  <2>2. i \in 1..Len(objs)
    BY <1>0, <2>1
  <2> HIDE DEF i
  <2> QED BY <1>0, <2>2
<1>4. o \in Object /\ o.pane = x.pane /\ o.win = x.win /\ o.dropped = x.dropped
  <2> DEFINE h == [j \in DOMAIN resp |-> resp[j].d.pos]
             sh == x.shown \o h
  <2>1. sh \in Seq(Nat)
    <3>1. resp \in Seq(Line)
      BY <1>0 DEF TypeOK
    <3>2. h \in Seq(Nat)
      <4>1. \A j \in 1..Len(resp) : resp[j].d.pos \in Nat
        <5> SUFFICES ASSUME NEW j \in 1..Len(resp) PROVE resp[j].d.pos \in Nat
          OBVIOUS
        <5>1. resp[j] \in Line
          BY <3>1
        <5> QED BY <5>1, LineFields
      <4>2. h = [j \in 1..Len(resp) |-> resp[j].d.pos] /\ Len(resp) \in Nat
        BY <3>1
      <4> HIDE DEF h
      <4> QED BY <4>1, <4>2
    <3>3. x.shown \in Seq(Nat)
      BY <1>3, ObjectFields
    <3> HIDE DEF h, x
    <3> QED BY <3>2, <3>3, ConcatProps
  <2>2. CASE cur.cb = "CB_DUMP_HISTORY"
    <3>1. o = [x EXCEPT !.shown = sh]
      BY <2>2
    <3> HIDE DEF sh, x, o
    <3> QED BY <1>3, <2>1, <3>1 DEF Object
  <2>3. CASE cur.cb # "CB_DUMP_HISTORY" /\ cur.cb = "CB_DUMP_TERM_STATE" /\ resp # <<>>
    <3>1. o = [x EXCEPT !.ready = TRUE]
      BY <2>3
    <3> HIDE DEF x, o
    <3> QED BY <1>3, <3>1 DEF Object
  <2>4. CASE cur.cb # "CB_DUMP_HISTORY" /\ ~(cur.cb = "CB_DUMP_TERM_STATE" /\ resp # <<>>)
    <3>1. o = x
      BY <2>4
    <3> HIDE DEF o, x
    <3> QED BY <1>3, <3>1
  <2> QED BY <2>2, <2>3, <2>4
<1> HIDE DEF o, used
<1>5. /\ objs' \in Seq(Object) /\ Len(objs') = Len(objs)
      /\ mapPanes' \in [Id -> 0..Len(objs')]
      /\ \A p \in Id : mapPanes'[p] # 0 => objs'[mapPanes'[p]].pane = p
      /\ PanesKnown'
  <2>1. objs' = [objs EXCEPT ![i] = o] /\ o.win \in {objs[i].win, "user-closed"}
    BY <1>2, <1>4
  <2>2. o \in Object /\ o.pane = objs[i].pane /\ o.dropped = objs[i].dropped
    BY <1>4
  <2>3. UNCHANGED <<mapPanes, gw>>
    BY <1>1, <1>2
  <2> HIDE DEF i
  <2> QED BY <1>3, <2>1, <2>2, <2>3, UpdateKeeps
<1>6. callback' \in [cmd : Nat, lines : Seq(Line), size : Nat] /\ callback'.cmd # 0
  <2>1. cur.id \in Nat /\ resp \in Seq(Line) /\ Head(stream).k \in Nat
    BY <1>0, <1>1, LineFields, CommandFields DEF TypeOK
  <2> QED BY <1>2, <2>1
<1>7. <<>> \in Seq(Line) /\ fault' \in BOOLEAN /\ stop' \in Stops
  BY <1>0, <1>2 DEF TypeOK, Stops, used
<1>8. TypeOK'
  BY <1>0, <1>1, <1>2, <1>5, <1>6, <1>7, NoCmdTyped DEF TypeOK
<1>9. ReceiversExist'
  BY <1>0, <1>2, <1>5, <1>6, NoCmdTyped DEF ReceiversExist
<1>10. EndsTogether'
  BY <1>0, <1>1 DEF EndsTogether
<1>11. NoFaultUnprovoked'
  <2> SUFFICES ASSUME fault' PROVE \E j \in DOMAIN objs' : objs'[j].win = "user-closed"
    BY DEF NoFaultUnprovoked
  <2>1. x.win = "user-closed"
    BY <1>1, <1>2, <1>3
  <2>2. objs'[i] = o /\ i \in DOMAIN objs'
    <3> HIDE DEF i
    <3> QED BY <1>0, <1>2, <1>3
  <2>3. o.win = "user-closed"
    BY <1>4, <2>1
  <2> QED BY <2>2, <2>3
<1> QED BY <1>5, <1>8, <1>9, <1>10, <1>11 DEF GatewayInv

\* Commands of the gateway's own are sent; nothing else of it changes.
LEMMA SendKeeps ==
  ASSUME GatewayInv, NEW cs \in Seq(Command), \A i \in 1..Len(cs) : cs[i].recv = 0,
         SendCommands(cs), stream' \in Seq(Line),
         UNCHANGED <<mode, gw, gwWnd, cur, resp, callback, objs, mapPanes, mapLayout,
                     fault, stop, notes, srvVars>>
  PROVE  GatewayInv'
<1>0. /\ TypeOK /\ ReceiversExist /\ PanesKnown /\ EndsTogether /\ NoFaultUnprovoked
      /\ objs \in Seq(Object) /\ Len(objs) \in Nat
  BY DEF GatewayInv, TypeOK
<1>1. /\ cmdq \in Seq(Command) /\ toSrv \in Seq(Command) /\ sent \in Nat /\ Len(toSrv) <= sent
      /\ \A i \in 1..Len(cmdq) : cmdq[i].recv <= Len(objs)
      /\ \A i \in 1..Len(cs) : cs[i].recv <= Len(objs)
  BY <1>0 DEF TypeOK, ReceiversExist
<1>2. /\ cmdq' \in Seq(Command) /\ toSrv' \in Seq(Command) /\ sent' \in Nat
      /\ Len(toSrv') <= sent'
      /\ \A i \in 1..Len(cmdq') : cmdq'[i].recv <= Len(objs)
  BY <1>0, <1>1, SendEffect
<1>3. TypeOK'
  BY <1>0, <1>2 DEF TypeOK, srvVars
<1>4. ReceiversExist'
  BY <1>0, <1>2 DEF ReceiversExist
<1>5. PanesKnown' /\ EndsTogether' /\ NoFaultUnprovoked'
  BY <1>0 DEF PanesKnown, EndsTogether, NoFaultUnprovoked
<1> QED BY <1>3, <1>4, <1>5 DEF GatewayInv

\* Lines that change only what is being answered.
LEMMA ParseCommandStep ==
  GatewayInv /\ (ParseStrayEnd \/ ParseResponseLine \/ ParseBegin) => GatewayInv'
<1> SUFFICES ASSUME GatewayInv, ParseStrayEnd \/ ParseResponseLine \/ ParseBegin
             PROVE  GatewayInv'
  OBVIOUS
<1>0. TypeOK /\ ReceiversExist /\ PanesKnown /\ EndsTogether /\ NoFaultUnprovoked
  BY DEF GatewayInv
<1>1. TakeLine /\ mode' = mode /\ gw' = gw
  BY DEF ParseStrayEnd, ParseResponseLine, ParseBegin, TakeInMode
<1>2. /\ Head(stream) \in Line /\ stream' \in Seq(Line)
      /\ notes' = notes /\ wins' = wins /\ alive' = alive /\ outs' = outs /\ gwWnd' = gwWnd
  BY <1>1, TakeEffect
<1>3. UNCHANGED <<callback, objs, mapPanes, mapLayout, sent, toSrv, histVars>>
  BY DEF ParseStrayEnd, ParseResponseLine, ParseBegin
<1>4. /\ resp' \in Seq(Line) /\ cur' \in Command /\ cur'.recv <= Len(objs)
      /\ cmdq' \in Seq(Command) /\ \A i \in DOMAIN cmdq' : cmdq'[i].recv <= Len(objs)
  <2>0. /\ resp \in Seq(Line) /\ cur \in Command /\ cur.recv <= Len(objs)
        /\ cmdq \in Seq(Command) /\ \A i \in DOMAIN cmdq : cmdq[i].recv <= Len(objs)
    BY <1>0 DEF TypeOK, ReceiversExist
  <2>1. CASE ParseStrayEnd \/ (ParseBegin /\ cmdq = <<>>)
    BY <2>0, <2>1 DEF ParseStrayEnd, ParseBegin
  <2>2. CASE ParseResponseLine
    <3>1. Append(resp, Head(stream)) \in Seq(Line)
      BY <1>2, <2>0
    <3> QED BY <2>0, <2>2, <3>1 DEF ParseResponseLine
  <2>3. CASE ParseBegin /\ cmdq # <<>>
    <3>1. cur' = Head(cmdq) /\ cmdq' = Tail(cmdq) /\ resp' = <<>>
      BY <2>3 DEF ParseBegin
    <3>2. Head(cmdq) = cmdq[1] /\ 1 \in DOMAIN cmdq /\ cmdq[1] \in Command
      BY <2>0, <2>3
    <3>3. Tail(cmdq) \in Seq(Command) /\ <<>> \in Seq(Line)
      BY <2>0, <2>3
    <3>4. \A i \in DOMAIN Tail(cmdq) : Tail(cmdq)[i] = cmdq[i + 1] /\ i + 1 \in DOMAIN cmdq
      BY <2>0, <2>3
    <3>5. \A i \in DOMAIN Tail(cmdq) : Tail(cmdq)[i].recv <= Len(objs)
      BY <2>0, <3>4
    <3> QED BY <2>0, <3>1, <3>2, <3>3, <3>5
  <2> QED BY <2>1, <2>2, <2>3
<1>5. TypeOK'
  BY <1>0, <1>1, <1>2, <1>3, <1>4 DEF TypeOK, histVars
<1>6. ReceiversExist'
  BY <1>0, <1>3, <1>4 DEF ReceiversExist
<1>7. PanesKnown' /\ EndsTogether' /\ NoFaultUnprovoked'
  BY <1>0, <1>1, <1>2, <1>3 DEF PanesKnown, EndsTogether, NoFaultUnprovoked, histVars
<1> QED BY <1>5, <1>6, <1>7 DEF GatewayInv

\* The notifications that send commands.
LEMMA SendingNotes == GatewayInv /\ (SessionChanged \/ WindowAdd) => GatewayInv'
<1> SUFFICES ASSUME GatewayInv, SessionChanged \/ WindowAdd PROVE GatewayInv'
  OBVIOUS
<1>1. TakeLine /\ mode' = mode /\ gw' = gw
  BY DEF SessionChanged, WindowAdd, TakeInMode
<1>2. /\ Head(stream) \in Line /\ stream' \in Seq(Line)
      /\ notes' = notes /\ wins' = wins /\ alive' = alive /\ outs' = outs /\ gwWnd' = gwWnd
  BY <1>1, TakeEffect
<1>3. /\ UNCHANGED <<cur, resp, callback, mapLayout, objs, mapPanes, fault, stop, notes, srvVars>>
      /\ UNCHANGED <<mode, gw, gwWnd>>
  BY <1>1, <1>2 DEF SessionChanged, WindowAdd, Note, histVars, srvVars
<1>4. \A c \in Callbacks, i \in Id : Cmd(Gateway, c, i) \in Command /\ Cmd(Gateway, c, i).recv = 0
  BY DEF Cmd, Command, Gateway
<1>5. {"CB_NULL", "CB_LIST_WINDOWS", "CB_OPEN_LISTED_WINDOWS"} \subseteq Callbacks /\ 0 \in Id
  BY GatewayAssumption DEF Callbacks, Id
<1>6. CASE SessionChanged
  <2> DEFINE cs == OpenWindowsInitial
             x == Cmd(Gateway, "CB_NULL", 0)
             y == Cmd(Gateway, "CB_LIST_WINDOWS", 0)
  <2>1. x \in Command /\ x.recv = 0 /\ y \in Command /\ y.recv = 0
    BY <1>4, <1>5
  <2>2. cs = <<x, x, y>>
    BY DEF OpenWindowsInitial
  <2> HIDE DEF cs, x, y
  <2>3. cs \in Seq(Command) /\ \A i \in 1..Len(cs) : cs[i].recv = 0
    BY <2>1, <2>2
  <2>4. SendCommands(cs)
    BY <1>6 DEF SessionChanged, cs
  <2> QED BY <1>2, <1>3, <2>3, <2>4, SendKeeps
<1>7. CASE WindowAdd
  <2> DEFINE w == Head(stream).d.id
             c == Cmd(Gateway, "CB_OPEN_LISTED_WINDOWS", w)
             cs == <<c>>
  <2>1. CASE mapPanes[w] = 0
    <3>1. c \in Command /\ c.recv = 0
      <4>1. w \in Id
        BY <1>2, LineFields
      <4> QED BY <1>4, <1>5, <4>1
    <3>2. SendCommands(cs)
      BY <1>7, <2>1 DEF WindowAdd
    <3> HIDE DEF c
    <3>3. cs \in Seq(Command) /\ \A i \in 1..Len(cs) : cs[i].recv = 0
      BY <3>1
    <3> HIDE DEF cs
    <3> QED BY <1>2, <1>3, <3>2, <3>3, SendKeeps
  <2>2. CASE mapPanes[w] # 0
    <3>1. UNCHANGED <<cmdq, sent, toSrv>>
      BY <1>7, <2>2 DEF WindowAdd
    <3>2. TypeOK'
      BY <1>2, <1>3, <3>1 DEF GatewayInv, TypeOK
    <3> QED BY <1>3, <3>1, <3>2, Frame
  <2> QED BY <2>1, <2>2
<1> QED BY <1>6, <1>7

\* The notifications that use or drop a pane.
LEMMA PaneNotes ==
  GatewayInv /\ (Output \/ WindowRenamed \/ WindowClose \/ LayoutChange) => GatewayInv'
<1> SUFFICES ASSUME GatewayInv, Output \/ WindowRenamed \/ WindowClose \/ LayoutChange
             PROVE  GatewayInv'
  OBVIOUS
<1>0. /\ TypeOK /\ ReceiversExist /\ PanesKnown /\ EndsTogether /\ NoFaultUnprovoked
      /\ objs \in Seq(Object) /\ DOMAIN objs = 1..Len(objs) /\ Len(objs) \in Nat
  BY DEF GatewayInv, TypeOK
<1>1. TakeLine /\ mode' = mode /\ gw' = gw
  BY DEF Output, WindowRenamed, WindowClose, LayoutChange, TakeInMode
<1>2. /\ ~fault /\ stop = "no" /\ gw = "live" /\ Head(stream) \in Line /\ stream' \in Seq(Line)
      /\ notes' = notes /\ wins' = wins /\ alive' = alive /\ outs' = outs /\ gwWnd' = gwWnd
      /\ \A j \in 1..Len(objs) : objs[j].win \in {"open", "user-closed"}
  BY <1>1, TakeEffect
<1>3. UNCHANGED <<cmdq, cur, resp, callback, mapLayout, sent, toSrv, stop>>
  BY DEF Output, WindowRenamed, WindowClose, LayoutChange, Note, histVars
<1> DEFINE w == Head(stream).d.id
           i == mapPanes[w]
<1>4. w \in Id /\ Head(stream).d.pos \in Nat /\ i \in 0..Len(objs)
  <2>1. w \in Id /\ Head(stream).d.pos \in Nat
    BY <1>2, LineFields
  <2> HIDE DEF w
  <2> QED BY <1>0, <2>1 DEF TypeOK
<1>5. EndsTogether'
  BY <1>0, <1>1, <1>2 DEF EndsTogether
\* One object changes at most.
<1>6. ASSUME objs' \in Seq(Object), Len(objs') = Len(objs), mapPanes' \in [Id -> 0..Len(objs')],
             \A p \in Id : mapPanes'[p] # 0 => objs'[mapPanes'[p]].pane = p,
             PanesKnown', fault' \in BOOLEAN,
             fault' => \E j \in 1..Len(objs) : objs'[j].win = "user-closed"
      PROVE  GatewayInv'
  <2>1. TypeOK'
    BY <1>0, <1>1, <1>2, <1>3, <1>6 DEF TypeOK
  <2>2. objs' # <<>> => objs # <<>>
    BY <1>0, <1>6
  <2>3. ReceiversExist'
    BY <1>0, <1>3, <1>6, <2>2 DEF ReceiversExist
  <2>4. DOMAIN objs' = 1..Len(objs)
    BY <1>6
  <2>5. NoFaultUnprovoked'
    BY <1>6, <2>4 DEF NoFaultUnprovoked
  <2> QED BY <1>5, <1>6, <2>1, <2>3, <2>5 DEF GatewayInv
<1>7. CASE Output
  <2>1. CASE i # 0 /\ objs[i].ready
    <3> DEFINE s == Append(objs[i].shown, Head(stream).d.pos)
               o == [objs[i] EXCEPT !.shown = s]
    <3>1. objs' = [objs EXCEPT ![i] = o] /\ fault' = (objs[i].win # "open") /\ mapPanes' = mapPanes
      BY <1>7, <2>1 DEF Output
    <3>2. i \in 1..Len(objs)
      BY <1>4, <2>1
    <3> HIDE DEF i
    <3>3. objs[i] \in Object
      BY <1>0, <3>2
    <3>4. s \in Seq(Nat)
      BY <1>4, <3>3, ObjectFields
    <3> HIDE DEF s
    <3>5. /\ o \in Object /\ o.pane = objs[i].pane /\ o.dropped = objs[i].dropped
          /\ o.win = objs[i].win
      BY <3>3, <3>4 DEF Object
    <3> HIDE DEF o
    <3>6. /\ objs' \in Seq(Object) /\ Len(objs') = Len(objs)
          /\ mapPanes' \in [Id -> 0..Len(objs')]
          /\ \A p \in Id : mapPanes'[p] # 0 => objs'[mapPanes'[p]].pane = p
          /\ PanesKnown'
      BY <1>1, <3>1, <3>2, <3>5, UpdateKeeps
    <3>7. objs'[i] = o
      BY <1>0, <3>1, <3>2
    <3>8. fault' => objs'[i].win = "user-closed"
      BY <1>2, <3>1, <3>2, <3>5, <3>7
    <3>9. fault' \in BOOLEAN
      BY <3>1
    <3> QED BY <1>6, <3>2, <3>6, <3>8, <3>9
  <2>2. CASE ~(i # 0 /\ objs[i].ready)
    <3>1. UNCHANGED <<objs, mapPanes, fault>>
      BY <1>7, <2>2 DEF Output
    <3>2. TypeOK'
      BY <1>0, <1>1, <1>2, <1>3, <3>1 DEF TypeOK
    <3> QED BY <1>1, <1>2, <1>3, <3>1, <3>2, Frame
  <2> QED BY <2>1, <2>2
<1>8. CASE WindowRenamed
  <2>1. UNCHANGED <<objs, mapPanes>> /\ fault' = (i # 0 /\ objs[i].win # "open")
    BY <1>8 DEF WindowRenamed
  <2>2. i # 0 => i \in 1..Len(objs)
    BY <1>4
  <2> HIDE DEF i
  <2>3. fault' => \E j \in 1..Len(objs) : objs'[j].win = "user-closed"
    BY <1>2, <2>1, <2>2
  <2>4. PanesKnown'
    BY <1>0, <1>1, <2>1 DEF PanesKnown
  <2>5. /\ objs' \in Seq(Object) /\ Len(objs') = Len(objs) /\ mapPanes' \in [Id -> 0..Len(objs')]
        /\ \A p \in Id : mapPanes'[p] # 0 => objs'[mapPanes'[p]].pane = p
        /\ fault' \in BOOLEAN
    BY <1>0, <2>1 DEF TypeOK
  <2> QED BY <1>6, <2>3, <2>4, <2>5
<1>9. CASE WindowClose
  <2>1. /\ mapPanes' = [mapPanes EXCEPT ![w] = 0] /\ fault' = fault
        /\ objs' = IF i = 0 THEN objs
                   ELSE [objs EXCEPT ![i].tab = objs[i].split, ![i].dropped = TRUE]
    BY <1>9 DEF WindowClose, histVars
  <2> DEFINE o == [objs[i] EXCEPT !.tab = objs[i].split, !.dropped = TRUE]
  <2>2. CASE i = 0
    <3>1. mapPanes' = mapPanes /\ objs' = objs
      <4>1. mapPanes \in [Id -> 0..Len(objs)]
        BY <1>0 DEF TypeOK
      <4> HIDE DEF w
      <4> QED BY <1>4, <2>1, <2>2, <4>1
    <3>2. TypeOK'
      BY <1>0, <1>1, <1>2, <1>3, <2>1, <3>1 DEF TypeOK
    <3> QED BY <1>1, <1>2, <1>3, <2>1, <3>1, <3>2, Frame
  <2>3. CASE i # 0
    <3>1. i \in 1..Len(objs)
      BY <1>4, <2>3
    <3>2. objs' = [objs EXCEPT ![i] = o]
      BY <2>1, <2>3, <1>0, <3>1
    <3>3. objs[i] \in Object
      <4> HIDE DEF i
      <4> QED BY <1>0, <3>1
    <3>4. /\ o \in Object /\ o.pane = objs[i].pane /\ o.dropped /\ o.win = objs[i].win
      <4> DEFINE x == objs[i]
                 y == [x EXCEPT !.tab = x.split]
      <4>1. x \in Object /\ o = [y EXCEPT !.dropped = TRUE]
        BY <3>3
      <4> HIDE DEF x, o
      <4>2. y \in Object /\ y.pane = x.pane /\ y.win = x.win
        BY <4>1 DEF Object
      <4> HIDE DEF y
      <4>3. o \in Object /\ o.pane = y.pane /\ o.win = y.win /\ o.dropped
        BY <4>1, <4>2 DEF Object
      <4> QED BY <4>2, <4>3 DEF x
    <3> HIDE DEF o
    <3>5. mapPanes[w] = i
      OBVIOUS
    <3> HIDE DEF i, w
    <3>6. /\ objs' \in Seq(Object) /\ Len(objs') = Len(objs) /\ DOMAIN objs' = 1..Len(objs)
          /\ objs'[i] = o /\ \A j \in 1..Len(objs) : j # i => objs'[j] = objs[j]
      BY <1>0, <3>1, <3>2, <3>4
    <3>7. /\ mapPanes \in [Id -> 0..Len(objs)]
          /\ \A p \in Id : mapPanes[p] # 0 => objs[mapPanes[p]].pane = p
      BY <1>0 DEF TypeOK
    <3>8. mapPanes' \in [Id -> 0..Len(objs')]
      <4>1. 0 \in 0..Len(objs) /\ mapPanes' = [mapPanes EXCEPT ![w] = 0]
        BY <1>0, <2>1
      <4>2. mapPanes' \in [Id -> 0..Len(objs)]
        BY <3>7, <4>1
      <4>3. Len(objs') = Len(objs)
        BY <3>6
      <4> QED BY <4>2, <4>3
    <3>9. \A p \in Id : mapPanes'[p] = IF p = w THEN 0 ELSE mapPanes[p]
      BY <2>1, <3>7
    <3>10. \A p \in Id : mapPanes[p] # 0 => mapPanes[p] \in 1..Len(objs)
      BY <3>7
    <3>11. \A j \in 1..Len(objs) : objs'[j].pane = objs[j].pane /\ objs'[j].win = objs[j].win
      BY <3>4, <3>6
    <3>12. \A p \in Id : mapPanes'[p] # 0 => objs'[mapPanes'[p]].pane = p
      BY <3>7, <3>9, <3>10, <3>11
    <3>13. objs[i].pane = w
      BY <1>4, <2>3, <3>5, <3>7
    <3>14. ASSUME NEW j \in DOMAIN objs', objs'[j].win = "open"
           PROVE  mapPanes'[objs'[j].pane] = j \/ objs'[j].dropped
      <4>1. CASE j = i
        BY <3>4, <3>6, <4>1
      <4>2. CASE j # i
        <5>1. objs'[j] = objs[j] /\ j \in 1..Len(objs)
          BY <3>6, <4>2
        <5>2. objs[j] \in Object
          BY <1>0, <5>1
        <5>3. objs[j].pane \in Id
          BY <5>2, ObjectFields
        <5>4. mapPanes[objs[j].pane] = j \/ objs[j].dropped
          BY <1>0, <3>14, <5>1 DEF PanesKnown
        <5>5. mapPanes[objs[j].pane] = j => objs[j].pane # w
          BY <3>5, <4>2
        <5> QED BY <3>9, <5>1, <5>3, <5>4, <5>5
      <4> QED BY <4>1, <4>2
    <3>15. \A j \in DOMAIN objs' : objs'[j].win # "closed"
      BY <1>2, <3>6, <3>11
    <3>16. \A p \in Id : mapPanes'[p] # 0 => objs'[mapPanes'[p]].win # "closed"
      BY <3>6, <3>9, <3>10, <3>15
    <3>17. PanesKnown'
      BY <1>1, <1>2, <3>14, <3>15, <3>16 DEF PanesKnown
    <3>18. ~fault'
      BY <1>2, <2>1
    <3>19. fault' \in BOOLEAN
      BY <1>0, <2>1 DEF TypeOK
    <3> QED BY <1>6, <3>6, <3>8, <3>12, <3>17, <3>18, <3>19
  <2> QED BY <2>2, <2>3
<1>10. CASE LayoutChange
  <2>1. UNCHANGED <<objs, mapPanes, fault>>
    BY <1>10 DEF LayoutChange, histVars
  <2>2. TypeOK'
    BY <1>0, <1>1, <1>2, <1>3, <2>1 DEF TypeOK
  <2> QED BY <1>1, <1>2, <1>3, <2>1, <2>2, Frame
<1> QED BY <1>7, <1>8, <1>9, <1>10

\* The gateway leaves control mode.
LEMMA ExitStep == GatewayInv /\ Exit => GatewayInv'
<1> SUFFICES ASSUME GatewayInv, Exit PROVE GatewayInv'
  OBVIOUS
<1>1. TakeLine /\ UNCHANGED <<cmdq, cur, resp, callback, mapLayout, sent, toSrv, stop>>
  BY DEF Exit, Note
<1>2. /\ ~fault /\ gw = "live" /\ gwWnd # "closed" /\ stream' \in Seq(Line)
      /\ notes' = notes /\ wins' = wins /\ alive' = alive /\ outs' = outs /\ gwWnd' = gwWnd
  BY <1>1, TakeEffect
<1>3. TypeOK /\ ReceiversExist /\ PanesKnown /\ EndsTogether
  BY DEF GatewayInv
<1>4. CASE mode' = "NONE" /\ DeleteGateway("deleted")
  <2>1. gw' = "deleted"
    BY <1>4 DEF DeleteGateway
  <2>2. EndsTogether'
    BY <1>2, <1>4, <2>1 DEF EndsTogether
  <2>3. gwWnd' \in {"hidden", "split", "closed"}
    BY <1>2, <1>3 DEF TypeOK
  <2>4. UNCHANGED <<cmdq, cur, resp, callback, mapLayout, stop, sent, toSrv, notes, srvVars>>
    BY <1>1, <1>2 DEF srvVars
  <2> QED BY <1>2, <1>4, <2>2, <2>3, <2>4, DeleteKeeps
<1>5. CASE mode' = "DETACH_INIT" /\ UNCHANGED <<gw, objs, mapPanes, fault>>
  <2>1. TypeOK'
    BY <1>1, <1>2, <1>3, <1>5 DEF TypeOK
  <2>2. ReceiversExist' /\ PanesKnown'
    BY <1>1, <1>3, <1>5 DEF ReceiversExist, PanesKnown
  <2>3. EndsTogether' /\ NoFaultUnprovoked'
    BY <1>2, <1>5 DEF EndsTogether, NoFaultUnprovoked
  <2> QED BY <2>1, <2>2, <2>3 DEF GatewayInv
<1> QED BY <1>4, <1>5 DEF Exit

\* Every step keeps the invariant.
LEMMA GatewayStep == GatewayInv /\ [Next]_vars => GatewayInv'
<1> SUFFICES ASSUME GatewayInv, [Next]_vars PROVE GatewayInv'
  OBVIOUS
<1>1. CASE ParseLine
  BY <1>1, ParseEndGatewayStep, ParseEndPaneStep, ParseCommandStep, SendingNotes, PaneNotes, ExitStep
     DEF ParseLine
<1>2. CASE UNCHANGED vars
  <2>1. TypeOK'
    BY <1>2 DEF GatewayInv, TypeOK, vars, gwVars, histVars, srvVars
  <2> QED BY <1>2, <2>1, Frame DEF vars, gwVars, histVars
<1> QED BY <1>1, <1>2, ServerStep, UserStep DEF Next

\* GatewayInv is inductive: whoever is to get an answer exists, and the table knows
\* every pane that is open and that %window-close did not drop.
THEOREM GatewaySafe == Spec => []GatewayInv
<1>1. Init => GatewayInv
  BY GatewayInit
<1>2. GatewayInv /\ [Next]_vars => GatewayInv'
  BY GatewayStep
<1> QED BY <1>1, <1>2, PTL DEF Spec

\* A deleted window or gateway is used in the four situations of NoFaultUnprovoked
\* only, whatever the server writes and whenever windows are closed.
THEOREM FaultsAreProvoked == Spec => []NoFaultUnprovoked
<1>1. GatewayInv => NoFaultUnprovoked
  BY DEF GatewayInv
<1> QED BY <1>1, GatewaySafe, PTL

-----------------------------------------------------------------------------
(* The refinement: the gateway is a command channel.                       *)

\* Sequences that agree.
LEMMA SameSeq ==
  ASSUME NEW A, NEW B, NEW s \in Seq(A), NEW t \in Seq(B), Len(s) = Len(t),
         \A i \in 1..Len(s) : s[i] = t[i]
  PROVE  s = t
OBVIOUS

\* A line as the channel sees it.
Bare(l) == [t |-> l.t, n |-> l.n, k |-> l.k]

\* Stripping the payloads keeps the lines, in their places.
LEMMA StripProps ==
  ASSUME NEW s \in Seq(Line)
  PROVE  /\ Strip(s) \in Seq(Channel!Line) /\ Len(Strip(s)) = Len(s) /\ Len(s) \in Nat
         /\ \A i \in 1..Len(s) : Strip(s)[i] = Bare(s[i])
<1>1. Strip(s) = [i \in 1..Len(s) |-> Bare(s[i])] /\ Len(s) \in Nat
  BY DEF Strip, Bare
<1>2. ASSUME NEW i \in 1..Len(s) PROVE Bare(s[i]) \in Channel!Line
  <2>1. s[i] \in Line
    OBVIOUS
  <2> QED BY <2>1 DEF Line, Channel!Line, Channel!Kinds, Bare
<1> QED BY <1>1, <1>2

\* Stripping a tail.
LEMMA StripTail ==
  ASSUME NEW s \in Seq(Line), s # <<>>
  PROVE  Strip(s) # <<>> /\ Head(Strip(s)) = Bare(Head(s)) /\ Strip(Tail(s)) = Tail(Strip(s))
<1>1. /\ Tail(s) \in Seq(Line) /\ Len(Tail(s)) = Len(s) - 1 /\ Len(s) \in Nat \ {0}
      /\ Head(s) = s[1] /\ \A i \in 1..(Len(s) - 1) : Tail(s)[i] = s[i + 1]
  OBVIOUS
<1>2. /\ Strip(s) \in Seq(Channel!Line) /\ Len(Strip(s)) = Len(s)
      /\ \A i \in 1..Len(s) : Strip(s)[i] = Bare(s[i])
  BY StripProps
<1>3. /\ Strip(Tail(s)) \in Seq(Channel!Line) /\ Len(Strip(Tail(s))) = Len(s) - 1
      /\ \A i \in 1..(Len(s) - 1) : Strip(Tail(s))[i] = Bare(Tail(s)[i])
  BY <1>1, StripProps
<1>4. Strip(s) # <<>> /\ Head(Strip(s)) = Bare(Head(s))
  BY <1>1, <1>2
<1>5. /\ Tail(Strip(s)) \in Seq(Channel!Line) /\ Len(Tail(Strip(s))) = Len(s) - 1
      /\ \A i \in 1..(Len(s) - 1) : Tail(Strip(s))[i] = Strip(s)[i + 1]
  BY <1>1, <1>2, <1>4
<1>6. \A i \in 1..(Len(s) - 1) : Strip(Tail(s))[i] = Tail(Strip(s))[i]
  BY <1>1, <1>2, <1>3, <1>5
<1> QED BY <1>1, <1>3, <1>4, <1>5, <1>6, SameSeq

\* Stripping a concatenation.
LEMMA StripConcat ==
  ASSUME NEW s \in Seq(Line), NEW t \in Seq(Line)
  PROVE  Strip(s \o t) = Strip(s) \o Strip(t)
<1> DEFINE st == s \o t
           u == Strip(s)
           v == Strip(t)
           a == Strip(st)
           b == u \o v
           B == Channel!Line
<1>1. /\ st \in Seq(Line) /\ Len(st) = Len(s) + Len(t) /\ Len(s) \in Nat /\ Len(t) \in Nat
      /\ \A j \in 1..Len(st) : st[j] = IF j <= Len(s) THEN s[j] ELSE t[j - Len(s)]
  BY ConcatProps
<1> HIDE DEF st
<1>2. /\ u \in Seq(B) /\ Len(u) = Len(s) /\ \A i \in 1..Len(s) : u[i] = Bare(s[i])
      /\ v \in Seq(B) /\ Len(v) = Len(t) /\ \A i \in 1..Len(t) : v[i] = Bare(t[i])
      /\ a \in Seq(B) /\ Len(a) = Len(st) /\ \A i \in 1..Len(st) : a[i] = Bare(st[i])
  BY <1>1, StripProps
<1> HIDE DEF u, v, a, B
<1>3. /\ b \in Seq(B) /\ Len(b) = Len(u) + Len(v)
      /\ \A j \in 1..Len(b) : b[j] = IF j <= Len(u) THEN u[j] ELSE v[j - Len(u)]
  <2>1. u \in Seq(B) /\ v \in Seq(B)
    BY <1>2
  <2> QED BY <2>1, ConcatProps
<1> HIDE DEF b
<1>4. ASSUME NEW j \in 1..Len(st) PROVE a[j] = b[j]
  <2>0. j \in 1..Len(b) /\ a[j] = Bare(st[j])
    BY <1>1, <1>2, <1>3
  <2>1. CASE j <= Len(s)
    <3>1. b[j] = u[j] /\ st[j] = s[j] /\ j \in 1..Len(s)
      BY <1>1, <1>2, <1>3, <2>0, <2>1
    <3> QED BY <1>2, <2>0, <3>1
  <2>2. CASE ~(j <= Len(s))
    <3>1. b[j] = v[j - Len(s)] /\ st[j] = t[j - Len(s)] /\ j - Len(s) \in 1..Len(t)
      BY <1>1, <1>2, <1>3, <2>0, <2>2
    <3> QED BY <1>2, <2>0, <3>1
  <2> QED BY <2>1, <2>2
<1>5. Len(a) = Len(b)
  BY <1>1, <1>2, <1>3
<1>6. a = b
  BY <1>2, <1>3, <1>4, <1>5, SameSeq
<1> QED BY <1>6 DEF a, b, u, v, st

\* Stripping a sequence with one more line.
LEMMA StripAppend ==
  ASSUME NEW s \in Seq(Line), NEW l \in Line
  PROVE  Strip(Append(s, l)) = Append(Strip(s), Bare(l))
<1>1. /\ Append(s, l) \in Seq(Line) /\ Len(Append(s, l)) = Len(s) + 1 /\ Len(s) \in Nat
      /\ \A j \in 1..(Len(s) + 1) : Append(s, l)[j] = IF j <= Len(s) THEN s[j] ELSE l
  OBVIOUS
<1>2. /\ Strip(s) \in Seq(Channel!Line) /\ Len(Strip(s)) = Len(s)
      /\ \A i \in 1..Len(s) : Strip(s)[i] = Bare(s[i])
  BY StripProps
<1>3. Bare(l) \in Channel!Line
  BY DEF Line, Channel!Line, Channel!Kinds, Bare
<1>4. /\ Strip(Append(s, l)) \in Seq(Channel!Line) /\ Len(Strip(Append(s, l))) = Len(s) + 1
      /\ \A j \in 1..(Len(s) + 1) : Strip(Append(s, l))[j] = Bare(Append(s, l)[j])
  BY <1>1, StripProps
<1> DEFINE a == Strip(Append(s, l))
           b == Append(Strip(s), Bare(l))
           x == Bare(l)
<1>5. /\ b \in Seq(Channel!Line) /\ Len(b) = Len(s) + 1
      /\ \A j \in 1..(Len(s) + 1) : b[j] = IF j <= Len(s) THEN Strip(s)[j] ELSE x
  <2> HIDE DEF x
  <2>1. b = Append(Strip(s), x) /\ x \in Channel!Line
    BY <1>3 DEF x
  <2> HIDE DEF b
  <2> QED BY <1>1, <1>2, <2>1
<1>6. ASSUME NEW j \in 1..(Len(s) + 1) PROVE a[j] = b[j]
  <2>1. CASE j <= Len(s)
    BY <1>1, <1>2, <1>4, <1>5, <2>1
  <2>2. CASE ~(j <= Len(s))
    BY <1>1, <1>4, <1>5, <2>2
  <2> QED BY <2>1, <2>2
<1> HIDE DEF a, b
<1>7. a \in Seq(Channel!Line) /\ Len(a) = Len(s) + 1
  BY <1>4 DEF a
<1>8. a = b
  BY <1>5, <1>6, <1>7, SameSeq
<1> QED BY <1>8 DEF a, b

\* The ids of commands are in the places of the commands.
LEMMA IdsOfProps ==
  ASSUME NEW s \in Seq(Command)
  PROVE  /\ CommandIds(s) \in Seq(Nat) /\ Len(CommandIds(s)) = Len(s) /\ Len(s) \in Nat
         /\ \A i \in 1..Len(s) : CommandIds(s)[i] = s[i].id
<1>1. CommandIds(s) = [i \in 1..Len(s) |-> s[i].id] /\ Len(s) \in Nat
  BY DEF CommandIds
<1>2. ASSUME NEW i \in 1..Len(s) PROVE s[i].id \in Nat
  <2>1. s[i] \in Command
    OBVIOUS
  <2> QED BY <2>1, CommandFields
<1> QED BY <1>1, <1>2

\* The ids of a tail.
LEMMA IdsOfTail ==
  ASSUME NEW s \in Seq(Command), s # <<>>
  PROVE  /\ CommandIds(s) # <<>> /\ Head(CommandIds(s)) = Head(s).id
         /\ CommandIds(Tail(s)) = Tail(CommandIds(s))
<1>1. /\ Tail(s) \in Seq(Command) /\ Len(Tail(s)) = Len(s) - 1 /\ Len(s) \in Nat \ {0}
      /\ Head(s) = s[1] /\ \A i \in 1..(Len(s) - 1) : Tail(s)[i] = s[i + 1]
  OBVIOUS
<1>2. /\ CommandIds(s) \in Seq(Nat) /\ Len(CommandIds(s)) = Len(s)
      /\ \A i \in 1..Len(s) : CommandIds(s)[i] = s[i].id
  BY IdsOfProps
<1>3. /\ CommandIds(Tail(s)) \in Seq(Nat) /\ Len(CommandIds(Tail(s))) = Len(s) - 1
      /\ \A i \in 1..(Len(s) - 1) : CommandIds(Tail(s))[i] = Tail(s)[i].id
  BY <1>1, IdsOfProps
<1>4. CommandIds(s) # <<>> /\ Head(CommandIds(s)) = Head(s).id
  BY <1>1, <1>2
<1>5. /\ Tail(CommandIds(s)) \in Seq(Nat) /\ Len(Tail(CommandIds(s))) = Len(s) - 1
      /\ \A i \in 1..(Len(s) - 1) : Tail(CommandIds(s))[i] = CommandIds(s)[i + 1]
  BY <1>1, <1>2, <1>4
<1>6. \A i \in 1..(Len(s) - 1) : CommandIds(Tail(s))[i] = Tail(CommandIds(s))[i]
  BY <1>1, <1>2, <1>3, <1>5
<1> QED BY <1>1, <1>3, <1>4, <1>5, <1>6, SameSeq

\* Commands of the program are written to the queue q as the channel's next ids.
LEMMA IdsOfConcat ==
  ASSUME NEW q \in Seq(Command), NEW cs \in Seq(Command), NEW m \in Nat
  PROVE  CommandIds(q \o [i \in DOMAIN cs |-> [cs[i] EXCEPT !.id = m + i]])
           = CommandIds(q) \o Channel!Ids(m, Len(cs))
<1> DEFINE new == [i \in DOMAIN cs |-> [cs[i] EXCEPT !.id = m + i]]
           ids == Channel!Ids(m, Len(cs))
<1>1. ASSUME NEW i \in 1..Len(cs) PROVE new[i] \in Command /\ new[i].id = m + i
  <2>1. cs[i] \in Command /\ m + i \in Nat
    OBVIOUS
  <2>2. new[i] = [cs[i] EXCEPT !.id = m + i]
    OBVIOUS
  <2> HIDE DEF new
  <2> QED BY <2>1, <2>2 DEF Command
<1>2. new \in Seq(Command) /\ Len(new) = Len(cs) /\ Len(cs) \in Nat
  <2>1. new = [i \in 1..Len(cs) |-> new[i]] /\ Len(cs) \in Nat
    OBVIOUS
  <2> HIDE DEF new
  <2> QED BY <1>1, <2>1
<1>3. ids \in Seq(Nat) /\ Len(ids) = Len(cs) /\ \A i \in 1..Len(cs) : ids[i] = m + i
  BY <1>2 DEF Channel!Ids
<1> DEFINE qn == q \o new
           u == CommandIds(q)
           a == CommandIds(qn)
           b == u \o ids
<1> HIDE DEF new, ids
<1>4. /\ qn \in Seq(Command) /\ Len(qn) = Len(q) + Len(new) /\ Len(q) \in Nat
      /\ \A j \in 1..Len(qn) : qn[j] = IF j <= Len(q) THEN q[j] ELSE new[j - Len(q)]
  BY <1>2, ConcatProps
<1> HIDE DEF qn
<1>5. /\ u \in Seq(Nat) /\ Len(u) = Len(q) /\ \A i \in 1..Len(q) : u[i] = q[i].id
      /\ a \in Seq(Nat) /\ Len(a) = Len(qn) /\ \A i \in 1..Len(qn) : a[i] = qn[i].id
  BY <1>4, IdsOfProps
<1> HIDE DEF u, a
<1>6. /\ b \in Seq(Nat) /\ Len(b) = Len(u) + Len(ids)
      /\ \A j \in 1..Len(b) : b[j] = IF j <= Len(u) THEN u[j] ELSE ids[j - Len(u)]
  <2>1. u \in Seq(Nat) /\ ids \in Seq(Nat)
    BY <1>3, <1>5
  <2> QED BY <2>1, ConcatProps
<1> HIDE DEF b
<1>7. Len(a) = Len(b)
  BY <1>2, <1>3, <1>4, <1>5, <1>6
<1>8. ASSUME NEW j \in 1..Len(qn) PROVE a[j] = b[j]
  <2>0. j \in 1..Len(b) /\ a[j] = qn[j].id
    BY <1>5, <1>7
  <2>1. CASE j <= Len(q)
    <3>1. b[j] = u[j] /\ qn[j] = q[j] /\ j \in 1..Len(q)
      BY <1>4, <1>5, <1>6, <2>0, <2>1
    <3> QED BY <1>5, <2>0, <3>1
  <2>2. CASE ~(j <= Len(q))
    <3>1. b[j] = ids[j - Len(q)] /\ qn[j] = new[j - Len(q)] /\ j - Len(q) \in 1..Len(cs)
      BY <1>2, <1>4, <1>5, <1>6, <2>0, <2>2
    <3>2. new[j - Len(q)].id = m + (j - Len(q)) /\ ids[j - Len(q)] = m + (j - Len(q))
      BY <1>1, <1>3, <3>1
    <3> QED BY <2>0, <3>1, <3>2
  <2> QED BY <2>1, <2>2
<1>9. a = b
  BY <1>5, <1>6, <1>7, <1>8, SameSeq
<1> QED BY <1>9 DEF a, b, u, qn, new, ids

\* The program's last callback as the channel sees it.
Called == [cmd |-> callback.cmd, lines |-> Strip(callback.lines), size |-> callback.size]

\* What is left alone is left alone in the channel.
LEMMA SameMapped ==
  /\ cmdq' = cmdq => CommandIds(cmdq)' = CommandIds(cmdq)
  /\ toSrv' = toSrv => CommandIds(toSrv)' = CommandIds(toSrv)
  /\ cur' = cur => (cur.id)' = cur.id
  /\ resp' = resp => Strip(resp)' = Strip(resp)
  /\ stream' = stream => Strip(stream)' = Strip(stream)
  /\ callback' = callback => Called' = Called
BY DEF CommandIds, Strip, Called

\* The gateway starts as the channel does.
LEMMA InitMaps == Init => Channel!Init
<1> SUFFICES ASSUME Init PROVE Channel!Init
  OBVIOUS
<1>1. CommandIds(<<>>) = <<>> /\ Strip(<<>>) = <<>>
  BY DEF CommandIds, Strip
<1>2. stream = << [t |-> "begin", n |-> 0, k |-> 0, d |-> NoPayload],
                  [t |-> "end", n |-> 0, k |-> 0, d |-> NoPayload] >>
  BY DEF Init
<1>3. Strip(stream) = Channel!AttachBlock
  BY <1>2 DEF Strip, Channel!AttachBlock
<1> QED BY <1>1, <1>3 DEF Init, Channel!Init, NoCmd, Channel!NoCallback

\* Commands sent by a handler are commands the channel sends.
LEMMA SendMaps ==
  ASSUME GatewayInv, NEW cs \in Seq(Command), SendCommands(cs)
  PROVE  \E b \in 0..MaxSent : Channel!SendCommands(b)
<1> DEFINE new == [i \in DOMAIN cs |-> [cs[i] EXCEPT !.id = sent + i]]
           b == Len(cs)
<1>1. cmdq \in Seq(Command) /\ toSrv \in Seq(Command) /\ sent \in Nat
  BY DEF GatewayInv, TypeOK
<1>2. sent + b <= MaxSent /\ sent' = sent + b /\ cmdq' = cmdq \o new /\ toSrv' = toSrv \o new
  BY DEF SendCommands
<1>3. /\ CommandIds(cmdq \o new) = CommandIds(cmdq) \o Channel!Ids(sent, b)
      /\ CommandIds(toSrv \o new) = CommandIds(toSrv) \o Channel!Ids(sent, b)
  BY <1>1, IdsOfConcat
<1>4. b \in 0..MaxSent
  BY <1>1, <1>2, GatewayAssumption
<1> HIDE DEF new, b
<1>5. CommandIds(cmdq)' = CommandIds(cmdq') /\ CommandIds(toSrv)' = CommandIds(toSrv')
  BY DEF CommandIds
<1>6. Channel!SendCommands(b)
  BY <1>2, <1>3, <1>5 DEF Channel!SendCommands
<1> QED BY <1>4, <1>6

\* One command is a burst of one.
LEMMA SendOneMaps ==
  ASSUME GatewayInv, NEW c \in Command, SendCommands(<<c>>)
  PROVE  Channel!SendCommands(1)
<1> DEFINE cs == <<c>>
           new == [i \in DOMAIN cs |-> [cs[i] EXCEPT !.id = sent + i]]
<1>1. cmdq \in Seq(Command) /\ toSrv \in Seq(Command) /\ sent \in Nat
  BY DEF GatewayInv, TypeOK
<1>2. cs \in Seq(Command) /\ Len(cs) = 1
  OBVIOUS
<1>3. sent + Len(cs) <= MaxSent /\ sent' = sent + Len(cs) /\ cmdq' = cmdq \o new /\ toSrv' = toSrv \o new
  BY DEF SendCommands
<1> HIDE DEF cs
<1>4. /\ CommandIds(cmdq \o new) = CommandIds(cmdq) \o Channel!Ids(sent, Len(cs))
      /\ CommandIds(toSrv \o new) = CommandIds(toSrv) \o Channel!Ids(sent, Len(cs))
  BY <1>1, <1>2, IdsOfConcat
<1> HIDE DEF new
<1>5. CommandIds(cmdq)' = CommandIds(cmdq') /\ CommandIds(toSrv)' = CommandIds(toSrv')
  BY DEF CommandIds
<1> QED BY <1>2, <1>3, <1>4, <1>5 DEF Channel!SendCommands

\* No command is a burst of none.
LEMMA SendNoneMaps ==
  ASSUME GatewayInv, sent <= MaxSent, UNCHANGED <<sent, cmdq, toSrv>>
  PROVE  \E b \in 0..MaxSent : Channel!SendCommands(b)
<1>1. cmdq \in Seq(Command) /\ toSrv \in Seq(Command) /\ sent \in Nat
  BY DEF GatewayInv, TypeOK
<1>2. CommandIds(cmdq) \in Seq(Nat) /\ CommandIds(toSrv) \in Seq(Nat)
  BY <1>1, IdsOfProps
<1>3. Channel!Ids(sent, 0) = <<>>
  BY DEF Channel!Ids
<1>4. \A s \in Seq(Nat) : s \o <<>> = s
  OBVIOUS
<1>5. Channel!SendCommands(0)
  BY <1>1, <1>2, <1>3, <1>4, SameMapped DEF Channel!SendCommands
<1>6. 0 \in 0..MaxSent
  BY GatewayAssumption
<1> QED BY <1>5, <1>6

\* Taking a line off the stream is the channel's.
LEMMA TakeMaps ==
  ASSUME GatewayInv, TakeLine
  PROVE  /\ Channel!NextLine(Head(stream).t) /\ Head(Strip(stream)) = Bare(Head(stream))
         /\ Head(Strip(stream)).k = Head(stream).k
<1>1. stream \in Seq(Line) /\ stream # <<>> /\ stream' = Tail(stream) /\ notes' = notes
  BY DEF GatewayInv, TypeOK, TakeLine
<1>2. Strip(stream)' = Strip(stream')
  BY DEF Strip
<1>3. /\ Strip(stream) # <<>> /\ Head(Strip(stream)) = Bare(Head(stream))
      /\ Strip(Tail(stream)) = Tail(Strip(stream))
  BY <1>1, StripTail
<1>4. Bare(Head(stream)).t = Head(stream).t /\ Bare(Head(stream)).k = Head(stream).k
  BY DEF Bare
<1> QED BY <1>1, <1>2, <1>3, <1>4 DEF Channel!NextLine

\* The server's answer is the channel's.
LEMMA SrvAnswerMaps == GatewayInv /\ SrvAnswer => Channel!SrvAnswer
<1> SUFFICES ASSUME GatewayInv, SrvAnswer PROVE Channel!SrvAnswer
  OBVIOUS
<1> DEFINE c == Head(toSrv)
           m == Len(AnswerTo(c))
           blk == BlockOf(c)
<1>1. /\ TypeOK /\ toSrv \in Seq(Command) /\ toSrv # <<>> /\ stream \in Seq(Line)
      /\ toSrv' = Tail(toSrv) /\ stream' = stream \o blk
      /\ UNCHANGED <<sent, cmdq, cur, resp, callback, notes>>
  BY DEF GatewayInv, TypeOK, SrvAnswer, gwVars
<1>2. c \in Command
  BY <1>1
<1>3. /\ CommandIds(toSrv) # <<>> /\ Head(CommandIds(toSrv)) = c.id
      /\ CommandIds(Tail(toSrv)) = Tail(CommandIds(toSrv))
  BY <1>1, IdsOfTail
<1> HIDE DEF c
<1>4. m \in 0..(MaxId + 2) /\ m \in Nat
  <2>1. Len(AnswerTo(c)) \in 0..(MaxId + 2)
    BY <1>1, <1>2, AnswerTyped
  <2> QED BY <2>1, GatewayAssumption
<1>5. blk \in Seq(Line)
  BY <1>1, <1>2, BlockTyped
<1>6. Strip(blk) = Channel!Block(c.id, m, "end")
  <2> DEFINE a == AnswerTo(c)
             B(i) == [t |-> IF i = 1 THEN "begin" ELSE IF i = m + 2 THEN "end" ELSE "data",
                      n |-> c.id,
                      k |-> IF i = m + 2 THEN m ELSE i - 1,
                      d |-> IF i \in 2..(m + 1) THEN a[i - 1] ELSE NoPayload]
             K(i) == [t |-> IF i = 1 THEN "begin" ELSE IF i = m + 2 THEN "end" ELSE "data",
                      n |-> c.id,
                      k |-> IF i = m + 2 THEN m ELSE i - 1]
  <2>1. blk = [i \in 1..(m + 2) |-> B(i)]
    BY DEF BlockOf
  <2>2. Channel!Block(c.id, m, "end") = [i \in 1..(m + 2) |-> K(i)]
    BY DEF Channel!Block
  <2> HIDE DEF m, a
  <2>3. \A i \in 1..(m + 2) : [t |-> B(i).t, n |-> B(i).n, k |-> B(i).k] = K(i)
    OBVIOUS
  <2> HIDE DEF blk, B, K
  <2>4. Strip(blk) = [i \in 1..(m + 2) |-> [t |-> B(i).t, n |-> B(i).n, k |-> B(i).k]]
    BY <2>1 DEF Strip
  <2> QED BY <2>2, <2>3, <2>4
<1> HIDE DEF m, blk
<1>7. Strip(stream \o blk) = Strip(stream) \o Strip(blk)
  BY <1>1, <1>5, StripConcat
<1>8. Strip(stream)' = Strip(stream') /\ CommandIds(toSrv)' = CommandIds(toSrv')
  BY DEF Strip, CommandIds
<1>9. /\ Strip(stream)' = Strip(stream) \o Channel!Block(Head(CommandIds(toSrv)), m, "end")
      /\ CommandIds(toSrv)' = Tail(CommandIds(toSrv))
  BY <1>1, <1>3, <1>6, <1>7, <1>8
<1>10. UNCHANGED <<sent, CommandIds(cmdq), cur.id, Strip(resp), Called, notes>>
  BY <1>1, SameMapped
<1>11. Channel!Answer(m, "end")
  BY <1>3, <1>9, <1>10 DEF Channel!Answer, Called
<1> QED BY <1>4, <1>11 DEF Channel!SrvAnswer

\* A notification is the channel's.
LEMMA NotifyMaps ==
  ASSUME GatewayInv, NEW d \in Payloads, Notify(d)
  PROVE  Channel!SrvNotify
<1> DEFINE l == [t |-> "note", n |-> sent - Len(toSrv), k |-> 0, d |-> d]
<1>1. /\ stream \in Seq(Line) /\ toSrv \in Seq(Command) /\ sent \in Nat /\ Len(toSrv) <= sent
      /\ notes < MaxNotes /\ notes' = notes + 1 /\ stream' = Append(stream, l)
      /\ UNCHANGED <<sent, cmdq, cur, resp, callback, toSrv>>
  BY DEF GatewayInv, TypeOK, Notify, gwVars
<1>2. l \in Line
  <2>1. sent - Len(toSrv) \in Nat
    BY <1>1
  <2> QED BY <2>1 DEF Line
<1>3. Len(CommandIds(toSrv)) = Len(toSrv)
  BY <1>1, IdsOfProps
<1>4. Bare(l) = [t |-> "note", n |-> Channel!Answered, k |-> 0]
  BY <1>3 DEF Bare, Channel!Answered
<1> HIDE DEF l
<1>5. Strip(Append(stream, l)) = Append(Strip(stream), Bare(l))
  BY <1>1, <1>2, StripAppend
<1>6. Strip(stream)' = Strip(stream')
  BY DEF Strip
<1>7. UNCHANGED <<sent, CommandIds(cmdq), cur.id, Strip(resp), Called, CommandIds(toSrv)>>
  BY <1>1, SameMapped
<1> QED BY <1>1, <1>4, <1>5, <1>6, <1>7 DEF Channel!SrvNotify, Called

\* The server's steps are the channel's, or leave it alone.
LEMMA ServerMaps == GatewayInv /\ Server => Channel!SrvAnswer \/ Channel!SrvNotify
<1>1. ASSUME GatewayInv, Server, ~SrvAnswer PROVE Channel!SrvNotify
  <2>1. PICK d \in Payloads : Notify(d)
    BY <1>1, ServerWrites
  <2> QED BY <1>1, <2>1, NotifyMaps
<1> QED BY <1>1, SrvAnswerMaps

\* %end: the receiver is called back, and may have sent commands.
LEMMA EndMaps ==
  GatewayInv /\ sent <= MaxSent /\ (ParseEndGateway \/ ParseEndPane) => Channel!ParseEnd
<1> SUFFICES ASSUME GatewayInv, sent <= MaxSent, ParseEndGateway \/ ParseEndPane
             PROVE  Channel!ParseEnd
  OBVIOUS
<1>1. /\ TakeLine /\ Head(stream).t = "end" /\ cur.id # 0
      /\ callback' = [cmd |-> cur.id, lines |-> resp, size |-> Head(stream).k]
      /\ cur' = NoCmd /\ resp' = <<>>
  BY DEF ParseEndGateway, ParseEndPane, TakeInMode
<1>2. Channel!NextLine("end") /\ Head(Strip(stream)).k = Head(stream).k
  BY <1>1, TakeMaps
<1>3. Called' = [cmd |-> cur.id, lines |-> Strip(resp), size |-> Head(Strip(stream)).k]
  <2>1. Called' = [cmd |-> callback'.cmd, lines |-> Strip(callback'.lines), size |-> callback'.size]
    BY DEF Called, Strip
  <2>2. callback'.cmd = cur.id /\ callback'.lines = resp /\ callback'.size = Head(stream).k
    BY <1>1
  <2> QED BY <1>2, <2>1, <2>2
<1>4. (cur.id)' = 0
  BY <1>1 DEF NoCmd
<1>5. Strip(resp)' = <<>>
  BY <1>1 DEF Strip
<1>6. \E b \in 0..MaxSent : Channel!SendCommands(b)
  <2>1. CASE ParseEndGateway
    <3>1. PICK a \in GoodWork : SendCommands(a.cmds)
      BY <2>1, WorkDone
    <3>2. a.cmds \in Seq(Command)
      BY DEF GoodWork, Work
    <3> QED BY <3>1, <3>2, SendMaps
  <2>2. CASE ParseEndPane
    BY <2>2, SendNoneMaps DEF ParseEndPane
  <2> QED BY <2>1, <2>2
<1> QED BY <1>1, <1>2, <1>3, <1>4, <1>5, <1>6 DEF Channel!ParseEnd, Called

\* An %end without %begin is the channel's.
LEMMA StrayEndMaps == GatewayInv /\ ParseStrayEnd => Channel!ParseStrayEnd
<1> SUFFICES ASSUME GatewayInv, ParseStrayEnd PROVE Channel!ParseStrayEnd
  OBVIOUS
<1>1. Channel!NextLine("end")
  BY TakeMaps DEF ParseStrayEnd, TakeInMode
<1>2. UNCHANGED <<cmdq, cur, resp, callback, sent, toSrv>> /\ cur.id = 0
  BY DEF ParseStrayEnd
<1>3. UNCHANGED <<sent, CommandIds(cmdq), cur.id, Strip(resp), Called, CommandIds(toSrv)>>
  BY <1>2, SameMapped
<1> QED BY <1>1, <1>2, <1>3 DEF Channel!ParseStrayEnd, Called

\* Collecting a line of an answer is the channel's.
LEMMA ResponseLineMaps == GatewayInv /\ ParseResponseLine => Channel!ParseResponseLine
<1> SUFFICES ASSUME GatewayInv, ParseResponseLine PROVE Channel!ParseResponseLine
  OBVIOUS
<1>1. TakeLine /\ Head(stream).t # "end" /\ cur.id # 0 /\ resp' = Append(resp, Head(stream))
  BY DEF ParseResponseLine, TakeInMode
<1>2. Channel!NextLine(Head(stream).t) /\ Head(Strip(stream)) = Bare(Head(stream))
  BY <1>1, TakeMaps
<1>3. Head(stream) \in Line /\ resp \in Seq(Line)
  BY <1>1, TakeEffect DEF GatewayInv, TypeOK
<1>4. Head(stream).t \in Channel!Kinds \ {"end"}
  BY <1>1, <1>3, LineFields DEF Channel!Kinds
<1>5. Strip(resp)' = Append(Strip(resp), Head(Strip(stream)))
  <2>1. Strip(resp)' = Strip(resp')
    BY DEF Strip
  <2>2. Strip(Append(resp, Head(stream))) = Append(Strip(resp), Bare(Head(stream)))
    BY <1>3, StripAppend
  <2> QED BY <1>1, <1>2, <2>1, <2>2
<1>6. UNCHANGED <<sent, CommandIds(cmdq), cur.id, Called, CommandIds(toSrv)>>
  BY SameMapped DEF ParseResponseLine
<1> QED BY <1>1, <1>2, <1>4, <1>5, <1>6 DEF Channel!ParseResponseLine, Called

\* A %begin is the channel's.
LEMMA BeginMaps == GatewayInv /\ ParseBegin => Channel!ParseBegin
<1> SUFFICES ASSUME GatewayInv, ParseBegin PROVE Channel!ParseBegin
  OBVIOUS
<1>1. Channel!NextLine("begin") /\ cur.id = 0
  BY TakeMaps DEF ParseBegin, TakeInMode
<1>2. cmdq \in Seq(Command)
  BY DEF GatewayInv, TypeOK
<1>3. UNCHANGED <<sent, Called, CommandIds(toSrv)>>
  BY SameMapped DEF ParseBegin
<1>4. CASE cmdq = <<>>
  <2>1. UNCHANGED <<CommandIds(cmdq), cur.id, Strip(resp)>>
    BY <1>4, SameMapped DEF ParseBegin
  <2>2. CommandIds(cmdq) = <<>>
    BY <1>4 DEF CommandIds
  <2> QED BY <1>1, <1>3, <2>1, <2>2 DEF Channel!ParseBegin, Called
<1>5. CASE cmdq # <<>>
  <2>1. cur' = Head(cmdq) /\ cmdq' = Tail(cmdq) /\ resp' = <<>>
    BY <1>5 DEF ParseBegin
  <2>2. /\ CommandIds(cmdq) # <<>> /\ Head(CommandIds(cmdq)) = Head(cmdq).id
        /\ CommandIds(Tail(cmdq)) = Tail(CommandIds(cmdq))
    BY <1>2, <1>5, IdsOfTail
  <2>3. CommandIds(cmdq)' = CommandIds(cmdq') /\ (cur.id)' = cur'.id
    BY DEF CommandIds
  <2>4. Strip(resp)' = <<>>
    BY <2>1 DEF Strip
  <2> QED BY <1>1, <1>3, <2>1, <2>2, <2>3, <2>4 DEF Channel!ParseBegin, Called
<1> QED BY <1>4, <1>5

\* A notification, whatever its handler does.
LEMMA NoteMaps ==
  GatewayInv /\ sent <= MaxSent
    /\ (\/ SessionChanged \/ Output \/ WindowRenamed \/ WindowAdd \/ WindowClose
        \/ LayoutChange \/ Exit)
  => Channel!ParseNotification
<1> SUFFICES ASSUME GatewayInv, sent <= MaxSent,
                    \/ SessionChanged \/ Output \/ WindowRenamed \/ WindowAdd \/ WindowClose
                    \/ LayoutChange \/ Exit
             PROVE  Channel!ParseNotification
  OBVIOUS
<1>1. /\ TakeLine /\ Head(stream).t = "note" /\ cur.id = 0
      /\ UNCHANGED <<cur, resp, callback>>
  BY DEF SessionChanged, Output, WindowRenamed, WindowAdd, WindowClose, LayoutChange, Exit,
         Note, TakeInMode
<1>2. Channel!NextLine("note")
  BY <1>1, TakeMaps
<1>3. UNCHANGED <<cur.id, Strip(resp), Called>>
  BY <1>1, SameMapped
<1>4. \A c \in Callbacks, i \in Id : Cmd(Gateway, c, i) \in Command
  BY DEF Cmd, Command, Gateway
<1>5. {"CB_NULL", "CB_LIST_WINDOWS", "CB_OPEN_LISTED_WINDOWS"} \subseteq Callbacks /\ 0 \in Id
  BY GatewayAssumption DEF Callbacks, Id
<1>6. \E b \in 0..MaxSent : Channel!SendCommands(b)
  <2>1. CASE UNCHANGED <<sent, cmdq, toSrv>>
    BY <2>1, SendNoneMaps
  <2>2. CASE SessionChanged
    <3>1. Cmd(Gateway, "CB_NULL", 0) \in Command /\ Cmd(Gateway, "CB_LIST_WINDOWS", 0) \in Command
      BY <1>4, <1>5
    <3>2. OpenWindowsInitial \in Seq(Command)
      BY <3>1 DEF OpenWindowsInitial
    <3> QED BY <2>2, <3>2, SendMaps DEF SessionChanged
  <2>3. CASE WindowAdd /\ mapPanes[Head(stream).d.id] = 0
    <3> DEFINE w == Head(stream).d.id
               c == Cmd(Gateway, "CB_OPEN_LISTED_WINDOWS", w)
    <3>1. w \in Id
      BY <1>1, TakeEffect, LineFields
    <3>2. c \in Command /\ SendCommands(<<c>>)
      BY <1>4, <1>5, <2>3, <3>1 DEF WindowAdd
    <3> HIDE DEF c
    <3>3. <<c>> \in Seq(Command)
      BY <3>2
    <3> QED BY <3>2, <3>3, SendMaps
  <2> QED BY <2>1, <2>2, <2>3
        DEF Output, WindowRenamed, WindowAdd, WindowClose, LayoutChange, Exit
<1> QED BY <1>1, <1>2, <1>3, <1>6 DEF Channel!ParseNotification, Called

\* The user sends a command, which the channel allows once there was a callback,
\* or does something that is not the channel's business.
LEMMA UserMaps == GatewayInv /\ User => Channel!UserSends \/ UNCHANGED Channel!vars
<1> SUFFICES ASSUME GatewayInv, User PROVE Channel!UserSends \/ UNCHANGED Channel!vars
  OBVIOUS
<1>1. CASE UserSends /\ gw = "live" /\ gwWnd # "closed"
  <2>1. /\ SendCommands(<< Cmd(Gateway, "CB_NULL", 0) >>)
        /\ UNCHANGED <<cur, resp, callback, stream, notes>>
    BY <1>1 DEF UserSends
  <2>2. Cmd(Gateway, "CB_NULL", 0) \in Command
    BY GatewayAssumption DEF Cmd, Command, Gateway, Callbacks, Id
  <2>3. Channel!SendCommands(1)
    BY <2>1, <2>2, SendOneMaps
  <2>4. Called # Channel!NoCallback
    <3>1. PICK i \in DOMAIN objs : objs[i].win = "open"
      BY <1>1 DEF UserSends
    <3>2. objs # <<>>
      OBVIOUS
    <3>3. callback.cmd # 0
      BY <3>2 DEF GatewayInv, ReceiversExist
    <3>4. Called.cmd = callback.cmd /\ Channel!NoCallback.cmd = 0
      BY DEF Called, Channel!NoCallback
    <3> QED BY <3>3, <3>4
  <2>5. UNCHANGED <<cur.id, Strip(resp), Called, Strip(stream), notes>>
    BY <2>1, SameMapped
  <2> QED BY <2>3, <2>4, <2>5 DEF Channel!UserSends, Called
<1>2. CASE ~(UserSends /\ gw = "live" /\ gwWnd # "closed")
  <2>1. UNCHANGED <<sent, cmdq, cur, resp, callback, toSrv, stream, notes>>
    BY <1>2 DEF User, UserSends, UserClosesPane, CloseGatewayWindow, RestartGatewayWindow,
                ReceiveAfterRestart, EnterAgain, gwVars
  <2>2. UNCHANGED <<sent, CommandIds(cmdq), cur.id, Strip(resp), Called, CommandIds(toSrv),
                    Strip(stream), notes>>
    BY <2>1, SameMapped
  <2> QED BY <2>2 DEF Channel!vars, Called
<1> QED BY <1>1, <1>2

\* sendCommand is bounded in the model.
LEMMA SentStep == sent <= MaxSent /\ [Next]_vars => sent' <= MaxSent
<1> SUFFICES ASSUME sent <= MaxSent, [Next]_vars PROVE sent' <= MaxSent
  OBVIOUS
<1>1. ASSUME NEW cs, SendCommands(cs) PROVE sent' <= MaxSent
  BY <1>1 DEF SendCommands
<1>2. CASE Server
  <2>1. sent' = sent
    BY <1>2 DEF Server, SrvAnswer, SrvSession, SrvNewWindow, SrvSplitWindow, SrvCloseWindow,
                SrvRenameWindow, SrvOutput, SrvExit, Notify
  <2> QED BY <2>1
<1>3. CASE ParseEndGateway
  BY <1>1, <1>3 DEF ParseEndGateway
<1>4. CASE SessionChanged
  BY <1>1, <1>4 DEF SessionChanged
<1>5. CASE WindowAdd
  BY <1>1, <1>5 DEF WindowAdd
<1>6. CASE UserSends
  BY <1>1, <1>6 DEF UserSends
<1>7. CASE \/ ParseEndPane \/ ParseStrayEnd \/ ParseResponseLine \/ ParseBegin
           \/ Output \/ WindowRenamed \/ WindowClose \/ LayoutChange \/ Exit
           \/ UserClosesPane \/ CloseGatewayWindow \/ RestartGatewayWindow
           \/ ReceiveAfterRestart \/ EnterAgain \/ UNCHANGED vars
  <2>1. sent' = sent
    BY <1>7 DEF ParseEndPane, ParseStrayEnd, ParseResponseLine, ParseBegin, Output,
                WindowRenamed, WindowClose, LayoutChange, Exit, UserClosesPane,
                CloseGatewayWindow, RestartGatewayWindow, ReceiveAfterRestart, EnterAgain, vars
  <2> QED BY <2>1
<1> QED BY <1>2, <1>3, <1>4, <1>5, <1>6, <1>7 DEF Next, ParseLine, User

\* Every step maps to a step of the channel or to none.
LEMMA StepMaps ==
  GatewayInv /\ sent <= MaxSent /\ [Next]_vars => [Channel!Next]_(Channel!vars)
<1> SUFFICES ASSUME GatewayInv, sent <= MaxSent, [Next]_vars
             PROVE  Channel!Next \/ UNCHANGED Channel!vars
  OBVIOUS
<1>1. CASE Server
  BY <1>1, ServerMaps DEF Channel!Next
<1>2. CASE ParseLine
  <2>1. Channel!Parse
    BY <1>2, EndMaps, StrayEndMaps, ResponseLineMaps, BeginMaps, NoteMaps
       DEF ParseLine, Channel!Parse
  <2> QED BY <2>1 DEF Channel!Next
<1>3. CASE User
  BY <1>3, UserMaps DEF Channel!Next
<1>4. CASE UNCHANGED vars
  <2>1. UNCHANGED <<sent, cmdq, cur, resp, callback, toSrv, stream, notes>>
    BY <1>4 DEF vars, gwVars
  <2>2. UNCHANGED <<sent, CommandIds(cmdq), cur.id, Strip(resp), Called, CommandIds(toSrv),
                    Strip(stream), notes>>
    BY <2>1, SameMapped
  <2> QED BY <2>2 DEF Channel!vars, Called
<1> QED BY <1>1, <1>2, <1>3, <1>4 DEF Next

\* The gateway, its panes, its users and the server together are a command channel:
\* every handler, for every answer and notification, takes a step that TmuxChannel
\* allows or leaves the channel alone.
THEOREM GatewayImplements == Spec => ImplementsChannel
<1> DEFINE Bounded == sent <= MaxSent
<1>1. Init => Bounded
  BY GatewayAssumption DEF Init
<1>2. Bounded /\ [Next]_vars => Bounded'
  BY SentStep
<1>3. GatewayInv /\ Bounded /\ [Next]_vars => [Channel!Next]_(Channel!vars)
  BY StepMaps
<1> HIDE DEF Bounded
<1> QED BY <1>1, <1>2, <1>3, InitMaps, GatewaySafe, PTL DEF Spec, ImplementsChannel

-----------------------------------------------------------------------------
(* What is proved of the channel holds of the gateway.                     *)

ChannelProofs == INSTANCE TmuxChannelProofs WITH
  MaxBurst <- MaxSent, MaxLines <- MaxId + 2,
  cmdq <- CommandIds(cmdq), toSrv <- CommandIds(toSrv), cur <- cur.id,
  resp <- Strip(resp), stream <- Strip(stream),
  callback <- [cmd |-> callback.cmd, lines |-> Strip(callback.lines), size |-> callback.size]

\* The bounds of the gateway are bounds of the channel.
LEMMA ChannelAssumed == ChannelProofs!ChannelAssumption
BY GatewayAssumption DEF ChannelProofs!ChannelAssumption

\* The channel the gateway refines is the one the channel's proofs are about.
LEMMA SameChannel ==
  (Channel!Init => ChannelProofs!Init) /\ (Channel!Next => ChannelProofs!Next)
  /\ (UNCHANGED Channel!vars => UNCHANGED ChannelProofs!vars)
<1>1. Channel!Init => ChannelProofs!Init
  BY DEF Channel!Init, ChannelProofs!Init, Channel!NoCallback, ChannelProofs!NoCallback,
         Channel!AttachBlock, ChannelProofs!AttachBlock
<1>2. Channel!Next => ChannelProofs!Next
  BY DEF Channel!Next, Channel!SrvAnswer, Channel!Answer, Channel!Block, Channel!SrvNotify,
         Channel!Parse, Channel!ParseEnd, Channel!ParseStrayEnd, Channel!ParseResponseLine,
         Channel!ParseBegin, Channel!ParseNotification, Channel!NextLine, Channel!SendCommands,
         Channel!Ids, Channel!Kinds, Channel!UserSends, Channel!NoCallback, Channel!Answered,
         ChannelProofs!Next, ChannelProofs!SrvAnswer, ChannelProofs!Answer, ChannelProofs!Block,
         ChannelProofs!SrvNotify, ChannelProofs!Parse, ChannelProofs!ParseEnd,
         ChannelProofs!ParseStrayEnd, ChannelProofs!ParseResponseLine, ChannelProofs!ParseBegin,
         ChannelProofs!ParseNotification, ChannelProofs!NextLine, ChannelProofs!SendCommands,
         ChannelProofs!Ids, ChannelProofs!Kinds, ChannelProofs!UserSends,
         ChannelProofs!NoCallback, ChannelProofs!Answered
<1>3. UNCHANGED Channel!vars => UNCHANGED ChannelProofs!vars
  BY DEF Channel!vars, ChannelProofs!vars
<1> QED BY <1>1, <1>2, <1>3

\* The invariant of the channel, in the terms of the gateway.
LEMMA ChannelFacts ==
  ASSUME GatewayInv, ChannelProofs!ChannelInv
  PROVE  /\ \A i \in 1..Len(cmdq) : cmdq[i].id <= sent
         /\ \A i \in 1..Len(toSrv) : toSrv[i].id <= sent
         /\ cur.id <= sent
         /\ \A i \in 1..Len(stream) : stream[i].n <= sent
         /\ cur.id = 0 => resp = <<>>
         /\ \A i \in 1..Len(resp) : resp[i].t = "data" /\ resp[i].n = cur.id /\ resp[i].k = i
         /\ stream # <<>> /\ cur.id # 0 => Head(stream).t # "note"
<1>0. /\ cmdq \in Seq(Command) /\ toSrv \in Seq(Command) /\ cur \in Command /\ sent \in Nat
      /\ resp \in Seq(Line) /\ stream \in Seq(Line)
  BY DEF GatewayInv, TypeOK
<1> DEFINE ci == CommandIds(cmdq)
           ti == CommandIds(toSrv)
           sr == Strip(resp)
           ss == Strip(stream)
<1>1. /\ Len(ci) = Len(cmdq) /\ DOMAIN ci = 1..Len(cmdq) /\ Len(cmdq) \in Nat
      /\ \A i \in 1..Len(cmdq) : ci[i] = cmdq[i].id
  BY <1>0, IdsOfProps DEF CommandIds
<1>2. /\ Len(ti) = Len(toSrv) /\ DOMAIN ti = 1..Len(toSrv) /\ Len(toSrv) \in Nat
      /\ \A i \in 1..Len(toSrv) : ti[i] = toSrv[i].id
  BY <1>0, IdsOfProps DEF CommandIds
<1>3. /\ Len(sr) = Len(resp) /\ DOMAIN sr = 1..Len(resp) /\ Len(resp) \in Nat
      /\ \A i \in 1..Len(resp) : sr[i].t = resp[i].t /\ sr[i].n = resp[i].n /\ sr[i].k = resp[i].k
  BY <1>0, StripProps DEF Strip
<1>4. /\ Len(ss) = Len(stream) /\ DOMAIN ss = 1..Len(stream) /\ Len(stream) \in Nat
      /\ \A i \in 1..Len(stream) : ss[i].t = stream[i].t /\ ss[i].n = stream[i].n
  BY <1>0, StripProps DEF Strip
<1>5. /\ Len(ci) <= sent /\ \A i \in DOMAIN ci : ci[i] = sent - Len(ci) + i
      /\ Len(ti) <= sent /\ \A i \in DOMAIN ti : ti[i] = sent - Len(ti) + i
  BY DEF ChannelProofs!ChannelInv, ChannelProofs!QueueNumbered, ChannelProofs!WireNumbered,
         ChannelProofs!Begun, ChannelProofs!Answered
<1>6. /\ cur.id # 0 => cur.id = sent - Len(ci)
      /\ cur.id = 0 => sr = <<>>
      /\ \A i \in DOMAIN sr : sr[i] = [t |-> "data", n |-> cur.id, k |-> i]
  BY DEF ChannelProofs!ChannelInv, ChannelProofs!Collecting, ChannelProofs!Begun
<1>7. \A i \in DOMAIN ss : ss[i].n <= sent - Len(ti)
  BY DEF ChannelProofs!ChannelInv, ChannelProofs!StreamEnds, ChannelProofs!Answered
<1>8. ss # <<>> /\ cur.id # 0 => ss[1].t # "note"
  <2> SUFFICES ASSUME ss # <<>>, cur.id # 0 PROVE ss[1].t # "note"
    OBVIOUS
  <2>1. 1 \in DOMAIN ss
    BY <1>4
  <2>2. ChannelProofs!Unasked(1) \/ ChannelProofs!LineFollows(1)
    BY <2>1 DEF ChannelProofs!ChannelInv, ChannelProofs!StreamFollows
  <2> HIDE DEF ss
  <2> QED BY <2>2 DEF ChannelProofs!Unasked, ChannelProofs!LineFollows, ChannelProofs!OpenBefore, ss
<1> HIDE DEF ci, ti, sr, ss
<1>9. \A i \in 1..Len(cmdq) : cmdq[i].id <= sent
  <2> SUFFICES ASSUME NEW i \in 1..Len(cmdq) PROVE cmdq[i].id <= sent
    OBVIOUS
  <2>1. cmdq[i].id = sent - Len(ci) + i /\ Len(ci) = Len(cmdq)
    BY <1>1, <1>5
  <2> QED BY <1>0, <1>1, <2>1
<1>10. \A i \in 1..Len(toSrv) : toSrv[i].id <= sent
  BY <1>0, <1>2, <1>5
<1>11. cur.id <= sent
  BY <1>0, <1>1, <1>5, <1>6
<1>12. \A i \in 1..Len(stream) : stream[i].n <= sent
  <2> SUFFICES ASSUME NEW i \in 1..Len(stream) PROVE stream[i].n <= sent
    OBVIOUS
  <2>1. stream[i] \in Line
    BY <1>0
  <2>2. stream[i].n \in Nat /\ stream[i].n <= sent - Len(ti)
    BY <1>4, <1>7, <2>1, LineFields
  <2> QED BY <1>0, <1>2, <2>2
<1>13. cur.id = 0 => resp = <<>>
  <2>1. sr = <<>> => Len(sr) = 0
    OBVIOUS
  <2>2. Len(resp) = 0 => resp = <<>>
    BY <1>0
  <2> QED BY <1>3, <1>6, <2>1, <2>2
<1>14. \A i \in 1..Len(resp) : resp[i].t = "data" /\ resp[i].n = cur.id /\ resp[i].k = i
  BY <1>3, <1>6
<1>15. stream # <<>> /\ cur.id # 0 => Head(stream).t # "note"
  <2>1. stream # <<>> => 1 \in 1..Len(stream) /\ Head(stream) = stream[1]
    BY <1>0
  <2>2. stream # <<>> => ss # <<>>
    <3>1. ss = <<>> => Len(ss) = 0
      OBVIOUS
    <3> QED BY <1>4, <2>1, <3>1
  <2> QED BY <1>4, <1>8, <2>1, <2>2
<1> QED BY <1>9, <1>10, <1>11, <1>12, <1>13, <1>14, <1>15

\* Every step keeps the channel's invariant, being a step of the channel.
LEMMA ChannelKept ==
  ASSUME GatewayInv, sent <= MaxSent, [Next]_vars, ChannelProofs!ChannelInv
  PROVE  ChannelProofs!ChannelInv'
<1>1. [ChannelProofs!Next]_(ChannelProofs!vars)
  BY StepMaps, SameChannel
<1> QED BY <1>1, ChannelAssumed, ChannelProofs!ChannelStep

\* The channel's invariant holds at the start.
LEMMA ChannelStarts == Init => ChannelProofs!ChannelInv
BY InitMaps, SameChannel, ChannelAssumed, ChannelProofs!ChannelInit
-----------------------------------------------------------------------------
(* What the panes show.  The ghost f counts, for each pane, the output     *)
(* written before each line of the stream: f[0] counts what the gateway    *)
(* has read, f[Len(stream)] what the server has written.                   *)

\* The requests for a pane's history that wait for an answer: c is being answered,
\* those in q are queued.
AskedOf(c, q) == {d \in {c} \cup {q[i] : i \in 1..Len(q)} : d.cb = "CB_DUMP_HISTORY"}

\* A pane whose history is asked for shows nothing and is not ready, nothing that waits
\* before it is for the same pane, and on the wire w it is what it is in the queue.
Query(c, q, w, os) ==
  /\ \A d \in AskedOf(c, q) :
       /\ d.recv \in 1..Len(os) /\ os[d.recv].pane = d.arg
       /\ ~os[d.recv].ready /\ os[d.recv].shown = <<>>
  /\ \A k \in 1..Len(q) : q[k].cb = "CB_DUMP_HISTORY" =>
       q[k].recv # c.recv /\ \A j \in 1..(k - 1) : q[j].recv # q[k].recv
  /\ \A i \in 1..Len(w) : \A d \in AskedOf(c, q) :
       w[i].id = d.id => w[i].cb = "CB_DUMP_HISTORY" /\ w[i].arg = d.arg

IsOutput(l) == l.t = "note" /\ l.d.e = "output"

\* Line l takes the counts from g to h.
Counted(l, g, h) ==
  IF IsOutput(l) THEN h = [g EXCEPT ![l.d.id] = @ + 1] /\ l.d.pos = h[l.d.id] ELSE h = g

\* A line that answers a request for a history is the only one, and goes as far as h.
Match(D, l, h) == \A d \in D : l.t = "data" /\ l.n = d.id => l.k = 1 /\ l.d.pos = h[d.arg]

Flow(f, s, D) == \A i \in 1..Len(s) : Counted(s[i], f[i - 1], f[i]) /\ Match(D, s[i], f[i])

\* An object, m if it is in the table, of a pane with n pieces of output read.
Shows(o, m, n) ==
  /\ Len(o.shown) > 1 => o.shown[1] < o.shown[2] /\ o.ready
  /\ \A j \in 2..(Len(o.shown) - 1) : o.shown[j + 1] = o.shown[j] + 1
  /\ m /\ o.shown # <<>> => o.shown[Len(o.shown)] <= n
  /\ m /\ Len(o.shown) > 1 => o.shown[Len(o.shown)] = n

AllShown(os, mp, g) == \A i \in 1..Len(os) : Shows(os[i], mp[os[i].pane] = i, g[os[i].pane])

Counts == [Id -> Nat]
IsFlow(f, s, o) == f \in [0..Len(s) -> Counts] /\ f[Len(s)] = o

\* The counts f explain the stream, the answer being collected and what is shown.
Panes(f, g) ==
  /\ IsFlow(f, stream, outs) /\ Flow(f, stream, AskedOf(cur, cmdq)) /\ f[0] = g
  /\ \A i \in 1..Len(resp) : Match(AskedOf(cur, cmdq), resp[i], g)
  /\ AllShown(objs, mapPanes, g)

\* The inductive invariant behind OutputInOrder.
PanesInv ==
  /\ Query(cur, cmdq, toSrv, objs)
  /\ stop # "assert-clean-slate"
  /\ \E f : Panes(f, f[0])

\* Requests.
LEMMA AskedShrinks ==
  ASSUME NEW c \in Command, NEW q \in Seq(Command)
  PROVE  /\ AskedOf(c, q) \subseteq Command
         /\ AskedOf(NoCmd, q) \subseteq AskedOf(c, q)
         /\ q # <<>> => AskedOf(Head(q), Tail(q)) \subseteq AskedOf(c, q)
<1>1. AskedOf(c, q) \subseteq Command
  BY DEF AskedOf
<1>2. AskedOf(NoCmd, q) \subseteq AskedOf(c, q)
  BY DEF AskedOf, NoCmd
<1>3. ASSUME q # <<>> PROVE AskedOf(Head(q), Tail(q)) \subseteq AskedOf(c, q)
  <2>1. /\ Head(q) = q[1] /\ 1 \in 1..Len(q)
        /\ \A i \in 1..Len(Tail(q)) : i + 1 \in 1..Len(q) /\ Tail(q)[i] = q[i + 1]
    BY <1>3
  <2> QED BY <2>1 DEF AskedOf
<1> QED BY <1>1, <1>2, <1>3

\* ParseBegin takes the head of the queue as the command being answered.
LEMMA QueryBegins ==
  ASSUME NEW c \in Command, NEW q \in Seq(Command), NEW w, NEW os, q # <<>>, Query(c, q, w, os)
  PROVE  Query(Head(q), Tail(q), w, os)
<1>1. AskedOf(Head(q), Tail(q)) \subseteq AskedOf(c, q)
  BY AskedShrinks
<1>2. /\ Head(q) = q[1] /\ Len(Tail(q)) \in Nat /\ Len(q) = Len(Tail(q)) + 1
      /\ \A i \in 1..Len(Tail(q)) : i + 1 \in 2..Len(q) /\ Tail(q)[i] = q[i + 1]
  OBVIOUS
<1> DEFINE r == Tail(q)
           h == Head(q)
<1>3. /\ h = q[1] /\ Len(r) \in Nat /\ Len(q) = Len(r) + 1
      /\ \A i \in 1..Len(r) : i + 1 \in 2..Len(q) /\ r[i] = q[i + 1]
  BY <1>2
<1>4. AskedOf(h, r) \subseteq AskedOf(c, q)
  BY <1>1
<1> HIDE DEF r, h
<1>5. ASSUME NEW k \in 1..Len(r), r[k].cb = "CB_DUMP_HISTORY"
      PROVE  r[k].recv # h.recv /\ \A j \in 1..(k - 1) : r[j].recv # r[k].recv
  <2>1. k + 1 \in 1..Len(q) /\ q[k + 1].cb = "CB_DUMP_HISTORY" /\ r[k] = q[k + 1]
    BY <1>3, <1>5
  <2>2. \A j \in 1..k : q[j].recv # q[k + 1].recv
    BY <2>1 DEF Query
  <2>3. \A j \in 1..(k - 1) : j \in 1..Len(r) /\ j + 1 \in 1..k /\ r[j] = q[j + 1]
    BY <1>3
  <2>4. 1 \in 1..k
    OBVIOUS
  <2> QED BY <1>3, <2>1, <2>2, <2>3, <2>4
<1>6. Query(h, r, w, os)
  BY <1>4, <1>5 DEF Query
<1> QED BY <1>6 DEF h, r

\* ParseEnd is done with the command being answered.
LEMMA QueryEnds ==
  ASSUME NEW c \in Command, NEW q \in Seq(Command), NEW w, NEW os, Query(c, q, w, os)
  PROVE  /\ Query(NoCmd, q, w, os)
         /\ \A d \in AskedOf(NoCmd, q) : d.recv # c.recv
<1>1. AskedOf(NoCmd, q) \subseteq AskedOf(c, q) /\ AskedOf(c, q) \subseteq Command
  BY AskedShrinks
<1>2. \A d \in AskedOf(c, q) : d.recv # 0
  BY DEF Query
<1>3. \A k \in 1..Len(q) : q[k].cb = "CB_DUMP_HISTORY" => q[k] \in AskedOf(c, q)
  BY DEF AskedOf
<1>4. \A k \in 1..Len(q) : q[k].cb = "CB_DUMP_HISTORY" =>
        q[k].recv # NoCmd.recv /\ \A j \in 1..(k - 1) : q[j].recv # q[k].recv
  BY <1>2, <1>3, NoCmdTyped DEF Query
<1>5. Query(NoCmd, q, w, os)
  BY <1>1, <1>4 DEF Query
<1>6. ASSUME NEW d \in AskedOf(NoCmd, q) PROVE d.recv # c.recv
  <2>1. PICK k \in 1..Len(q) : d = q[k] /\ d.cb = "CB_DUMP_HISTORY"
    BY DEF AskedOf, NoCmd
  <2> QED BY <2>1 DEF Query
<1> QED BY <1>5, <1>6

\* The objects change, but not those whose history is asked for.
LEMMA QueryKeeps ==
  ASSUME NEW c, NEW q, NEW w, NEW os, NEW ot, Query(c, q, w, os),
         \A d \in AskedOf(c, q) :
           /\ d.recv \in 1..Len(ot) /\ ot[d.recv].pane = os[d.recv].pane
           /\ ot[d.recv].ready = os[d.recv].ready /\ ot[d.recv].shown = os[d.recv].shown
  PROVE  Query(c, q, w, ot)
BY DEF Query

\* The server answers the first command on the wire.
LEMMA QueryAnswered ==
  ASSUME NEW c, NEW q, NEW w \in Seq(Command), NEW os, w # <<>>, Query(c, q, w, os)
  PROVE  Query(c, q, Tail(w), os)
<1>1. \A i \in 1..Len(Tail(w)) : i + 1 \in 1..Len(w) /\ Tail(w)[i] = w[i + 1]
  OBVIOUS
<1> DEFINE v == Tail(w)
<1>2. \A i \in 1..Len(v) : i + 1 \in 1..Len(w) /\ v[i] = w[i + 1]
  BY <1>1
<1> HIDE DEF v
<1>3. ASSUME NEW i \in 1..Len(v), NEW d \in AskedOf(c, q), v[i].id = d.id
      PROVE  v[i].cb = "CB_DUMP_HISTORY" /\ v[i].arg = d.arg
  <2>1. i + 1 \in 1..Len(w) /\ w[i + 1].id = d.id
    BY <1>2, <1>3
  <2>2. w[i + 1].cb = "CB_DUMP_HISTORY" /\ w[i + 1].arg = d.arg
    BY <2>1 DEF Query
  <2> QED BY <1>2, <2>2
<1>4. Query(c, q, v, os)
  BY <1>3 DEF Query
<1> QED BY <1>4 DEF v

\* What the commands sent ask for: new is cs with its ids.
LEMMA QuerySends ==
  ASSUME NEW c \in Command, NEW q \in Seq(Command), NEW w \in Seq(Command), NEW os,
         NEW n \in Nat, NEW new \in Seq(Command), Query(c, q, w, os),
         \A d \in AskedOf(c, q) : d.id <= n,
         \A i \in 1..Len(w) : w[i].id <= n,
         \A i \in 1..Len(new) : new[i].id = n + i,
         \A i \in 1..Len(new) : new[i].cb = "CB_DUMP_HISTORY" =>
           /\ new[i].recv \in 1..Len(os) /\ os[new[i].recv].pane = new[i].arg
           /\ ~os[new[i].recv].ready /\ os[new[i].recv].shown = <<>>
           /\ new[i].recv # c.recv
           /\ \A j \in 1..Len(q) : q[j].recv # new[i].recv
           /\ \A j \in 1..(i - 1) : new[j].recv # new[i].recv
  PROVE  /\ Query(c, q \o new, w \o new, os)
         /\ \A d \in AskedOf(c, q \o new) : d \in AskedOf(c, q) \/ d.id > n
<1> DEFINE qn == q \o new
           wn == w \o new
<1>1. /\ Len(qn) = Len(q) + Len(new) /\ Len(q) \in Nat /\ Len(new) \in Nat
      /\ \A j \in 1..Len(qn) : qn[j] = IF j <= Len(q) THEN q[j] ELSE new[j - Len(q)]
  BY ConcatProps
<1>2. /\ Len(wn) = Len(w) + Len(new) /\ Len(w) \in Nat
      /\ \A j \in 1..Len(wn) : wn[j] = IF j <= Len(w) THEN w[j] ELSE new[j - Len(w)]
  BY ConcatProps
<1> HIDE DEF qn, wn
<1>3. ASSUME NEW j \in 1..Len(qn)
      PROVE  \/ j \in 1..Len(q) /\ qn[j] = q[j]
             \/ j - Len(q) \in 1..Len(new) /\ qn[j] = new[j - Len(q)] /\ j > Len(q)
  BY <1>1
<1>4. ASSUME NEW j \in 1..Len(wn)
      PROVE  \/ j \in 1..Len(w) /\ wn[j] = w[j]
             \/ j - Len(w) \in 1..Len(new) /\ wn[j] = new[j - Len(w)]
  BY <1>2
<1>5. ASSUME NEW d \in AskedOf(c, qn)
      PROVE  d \in AskedOf(c, q) \/ \E i \in 1..Len(new) : d = new[i] /\ d.cb = "CB_DUMP_HISTORY"
  <2>1. CASE d = c
    BY <2>1 DEF AskedOf
  <2>2. CASE d # c
    <3>1. PICK j \in 1..Len(qn) : d = qn[j] /\ d.cb = "CB_DUMP_HISTORY"
      BY <2>2 DEF AskedOf
    <3>2. CASE j \in 1..Len(q) /\ qn[j] = q[j]
      BY <3>1, <3>2 DEF AskedOf
    <3> QED BY <1>3, <3>1, <3>2
  <2> QED BY <2>1, <2>2
<1>6. \A d \in AskedOf(c, qn) : d \in AskedOf(c, q) \/ d.id > n
  <2>1. \A i \in 1..Len(new) : n + i > n
    OBVIOUS
  <2> QED BY <1>5, <2>1
<1>7. ASSUME NEW d \in AskedOf(c, qn)
      PROVE  /\ d.recv \in 1..Len(os) /\ os[d.recv].pane = d.arg
             /\ ~os[d.recv].ready /\ os[d.recv].shown = <<>>
  <2>1. CASE d \in AskedOf(c, q)
    BY <2>1 DEF Query
  <2>2. CASE \E i \in 1..Len(new) : d = new[i] /\ d.cb = "CB_DUMP_HISTORY"
    BY <2>2
  <2> QED BY <1>5, <2>1, <2>2
<1>8. ASSUME NEW k \in 1..Len(qn), qn[k].cb = "CB_DUMP_HISTORY"
      PROVE  qn[k].recv # c.recv /\ \A j \in 1..(k - 1) : qn[j].recv # qn[k].recv
  <2>0. \A j \in 1..(k - 1) : j \in 1..Len(qn)
    BY <1>1
  <2>1. CASE k \in 1..Len(q) /\ qn[k] = q[k]
    <3>1. q[k].recv # c.recv /\ \A j \in 1..(k - 1) : q[j].recv # q[k].recv
      BY <1>8, <2>1 DEF Query
    <3>2. \A j \in 1..(k - 1) : qn[j] = q[j]
      BY <1>1, <2>1
    <3> QED BY <2>1, <3>1, <3>2
  <2>2. CASE k - Len(q) \in 1..Len(new) /\ qn[k] = new[k - Len(q)] /\ k > Len(q)
    <3> DEFINE i == k - Len(q)
    <3>1. i \in 1..Len(new) /\ new[i].cb = "CB_DUMP_HISTORY" /\ qn[k] = new[i]
      BY <1>8, <2>2
    <3>2. /\ new[i].recv # c.recv
          /\ \A j \in 1..Len(q) : q[j].recv # new[i].recv
          /\ \A j \in 1..(i - 1) : new[j].recv # new[i].recv
      BY <3>1
    <3>3. ASSUME NEW j \in 1..(k - 1) PROVE qn[j].recv # new[i].recv
      <4>1. CASE j \in 1..Len(q) /\ qn[j] = q[j]
        BY <3>2, <4>1
      <4>2. CASE j - Len(q) \in 1..Len(new) /\ qn[j] = new[j - Len(q)]
        <5>1. j - Len(q) \in 1..(i - 1)
          BY <1>1, <2>2, <4>2
        <5> HIDE DEF i
        <5> QED BY <3>2, <4>2, <5>1
      <4> QED BY <1>3, <2>0, <4>1, <4>2
    <3> QED BY <3>1, <3>2, <3>3
  <2> QED BY <1>3, <2>1, <2>2
<1>9. ASSUME NEW i \in 1..Len(wn), NEW d \in AskedOf(c, qn), wn[i].id = d.id
      PROVE  wn[i].cb = "CB_DUMP_HISTORY" /\ wn[i].arg = d.arg
  <2>1. CASE i \in 1..Len(w) /\ wn[i] = w[i]
    <3>1. w[i] \in Command
      BY <2>1
    <3>2. w[i].id <= n /\ w[i].id \in Nat
      BY <2>1, <3>1, CommandFields
    <3>3. d \in AskedOf(c, q)
      BY <1>6, <1>9, <2>1, <3>2
    <3> QED BY <1>9, <2>1, <3>3 DEF Query
  <2>2. CASE i - Len(w) \in 1..Len(new) /\ wn[i] = new[i - Len(w)]
    <3> DEFINE k == i - Len(w)
    <3>1. k \in 1..Len(new) /\ wn[i] = new[k] /\ new[k].id = n + k
      BY <2>2
    <3> HIDE DEF k
    <3>2. CASE d \in AskedOf(c, q)
      <4>1. d \in Command
        BY <3>2, AskedShrinks
      <4>2. d.id \in Nat /\ d.id <= n
        BY <3>2, <4>1, CommandFields
      <4> QED BY <1>9, <3>1, <4>2
    <3>3. CASE \E m \in 1..Len(new) : d = new[m] /\ d.cb = "CB_DUMP_HISTORY"
      <4>1. PICK m \in 1..Len(new) : d = new[m] /\ d.cb = "CB_DUMP_HISTORY"
        BY <3>3
      <4>2. m = k
        BY <1>9, <3>1, <4>1
      <4> QED BY <3>1, <4>1, <4>2
    <3> QED BY <1>5, <3>2, <3>3
  <2> QED BY <1>4, <2>1, <2>2
<1>10. Query(c, qn, wn, os)
  BY <1>7, <1>8, <1>9 DEF Query
<1> QED BY <1>6, <1>10 DEF qn, wn

\* The stream.
LEMMA MatchNew ==
  ASSUME NEW D, NEW E, NEW l \in Line, NEW h, Match(D, l, h),
         \A d \in E : d \in D \/ (d.id \in Nat /\ d.id > l.n)
  PROVE  Match(E, l, h)
<1>1. \A d \in E : l.n = d.id => d \in D
  BY LineFields
<1> QED BY <1>1 DEF Match

\* A flow with new requests, whose ids no line of the stream has yet.
LEMMA FlowNew ==
  ASSUME NEW f, NEW s \in Seq(Line), NEW D, NEW E, NEW n \in Nat, Flow(f, s, D),
         \A i \in 1..Len(s) : s[i].n <= n,
         \A d \in E : d \in D \/ (d.id \in Nat /\ d.id > n)
  PROVE  Flow(f, s, E)
<1> SUFFICES ASSUME NEW i \in 1..Len(s) PROVE Counted(s[i], f[i - 1], f[i]) /\ Match(E, s[i], f[i])
  BY DEF Flow
<1>1. Counted(s[i], f[i - 1], f[i]) /\ Match(D, s[i], f[i])
  BY DEF Flow
<1>2. s[i] \in Line
  OBVIOUS
<1>3. s[i].n \in Nat /\ s[i].n <= n
  BY <1>2, LineFields
<1>4. \A d \in E : d \in D \/ (d.id \in Nat /\ d.id > s[i].n)
  BY <1>3
<1> DEFINE l == s[i]
           h == f[i]
<1>5. l \in Line /\ Match(D, l, h) /\ \A d \in E : d \in D \/ (d.id \in Nat /\ d.id > l.n)
  BY <1>1, <1>2, <1>4
<1> HIDE DEF l, h
<1>6. Match(E, l, h)
  BY <1>5, MatchNew
<1> QED BY <1>1, <1>6 DEF l, h

\* The first line is taken.
LEMMA FlowTakes ==
  ASSUME NEW f, NEW s \in Seq(Line), NEW o, NEW D, s # <<>>, IsFlow(f, s, o), Flow(f, s, D)
  PROVE  \E g : /\ IsFlow(g, Tail(s), o) /\ Flow(g, Tail(s), D) /\ g[0] \in Counts
                /\ Counted(Head(s), f[0], g[0]) /\ Match(D, Head(s), g[0])
<1> DEFINE m == Len(s) - 1
           g == [i \in 0..m |-> f[i + 1]]
           r == Tail(s)
<1>1. /\ m \in Nat /\ Len(s) = m + 1 /\ Len(r) = m /\ Head(s) = s[1]
      /\ \A i \in 1..m : r[i] = s[i + 1]
  OBVIOUS
<1> HIDE DEF r, m
<1>2. \A i \in 0..m : i + 1 \in 0..Len(s) /\ g[i] = f[i + 1]
  BY <1>1
<1>3. g \in [0..m -> Counts]
  BY <1>2 DEF IsFlow
<1>4. g[0] = f[1] /\ g[m] = f[Len(s)]
  BY <1>1, <1>2
<1> HIDE DEF g
<1>5. ASSUME NEW i \in 1..m PROVE Counted(r[i], g[i - 1], g[i]) /\ Match(D, r[i], g[i])
  <2>1. i + 1 \in 1..Len(s) /\ (i + 1) - 1 = i
    BY <1>1
  <2>2. Counted(s[i + 1], f[i], f[i + 1]) /\ Match(D, s[i + 1], f[i + 1])
    BY <2>1 DEF Flow
  <2>3. g[i - 1] = f[i] /\ g[i] = f[i + 1] /\ r[i] = s[i + 1]
    <3>1. i - 1 \in 0..m /\ i \in 0..m /\ (i - 1) + 1 = i
      BY <1>1
    <3> QED BY <1>1, <1>2, <3>1
  <2> QED BY <2>2, <2>3
<1>6. Counted(s[1], f[0], f[1]) /\ Match(D, s[1], f[1])
  <2>1. 1 \in 1..Len(s) /\ 1 - 1 = 0
    BY <1>1
  <2> QED BY <2>1 DEF Flow
<1>7. IsFlow(g, r, o) /\ Flow(g, r, D) /\ g[0] \in Counts
  BY <1>1, <1>3, <1>4, <1>5 DEF IsFlow, Flow
<1>8. Counted(Head(s), f[0], g[0]) /\ Match(D, Head(s), g[0])
  BY <1>1, <1>4, <1>6
<1> QED BY <1>7, <1>8 DEF r

\* Lines are added that count up to h at once.
LEMMA FlowGrows ==
  ASSUME NEW f, NEW s \in Seq(Line), NEW b \in Seq(Line), NEW o, NEW h \in Counts, NEW D,
         IsFlow(f, s, o), Flow(f, s, D), b # <<>>, h # o => Len(b) = 1,
         \A i \in 1..Len(b) : Counted(b[i], o, h) /\ Match(D, b[i], h)
  PROVE  \E g : IsFlow(g, s \o b, h) /\ Flow(g, s \o b, D) /\ g[0] = f[0]
<1> DEFINE m == Len(s)
           k == Len(b)
           sb == s \o b
           g == [i \in 0..(m + k) |-> IF i <= m THEN f[i] ELSE h]
<1>1. /\ Len(sb) = m + k /\ m \in Nat /\ k \in Nat
      /\ \A j \in 1..Len(sb) : sb[j] = IF j <= m THEN s[j] ELSE b[j - m]
  BY ConcatProps
<1>2. k > 0
  OBVIOUS
<1>3. f \in [0..m -> Counts] /\ f[m] = o
  BY DEF IsFlow
<1> HIDE DEF m, k, sb
<1>4. /\ \A i \in 0..(m + k) : g[i] \in Counts
      /\ \A i \in 0..m : g[i] = f[i]
      /\ \A i \in 0..(m + k) : i > m => g[i] = h
  BY <1>1, <1>3
<1>5. g \in [0..(m + k) -> Counts]
  BY <1>4
<1> HIDE DEF g
<1>6. ASSUME NEW i \in 1..(m + k) PROVE Counted(sb[i], g[i - 1], g[i]) /\ Match(D, sb[i], g[i])
  <2>1. CASE i <= m
    <3>1. i \in 1..m /\ i - 1 \in 0..m /\ i \in 0..m
      BY <1>1, <2>1
    <3>2. sb[i] = s[i] /\ g[i - 1] = f[i - 1] /\ g[i] = f[i]
      BY <1>1, <1>4, <2>1, <3>1
    <3>3. Counted(s[i], f[i - 1], f[i]) /\ Match(D, s[i], f[i])
      BY <3>1 DEF Flow, m
    <3> QED BY <3>2, <3>3
  <2>2. CASE i > m
    <3>1. i - m \in 1..k /\ i \in 0..(m + k) /\ i - 1 \in 0..(m + k)
      BY <1>1, <2>2
    <3>2. sb[i] = b[i - m] /\ g[i] = h
      BY <1>1, <1>4, <2>2, <3>1
    <3>3. Counted(b[i - m], o, h) /\ Match(D, b[i - m], h)
      BY <3>1 DEF k
    <3>4. g[i - 1] = o
      <4>1. CASE i - 1 = m
        BY <1>1, <1>3, <1>4, <4>1
      <4>2. CASE i - 1 # m
        <5>1. i - 1 > m /\ k # 1
          BY <1>1, <2>2, <3>1, <4>2
        <5>2. h = o
          BY <5>1 DEF k
        <5> QED BY <1>4, <3>1, <5>1, <5>2
      <4> QED BY <4>1, <4>2
    <3> QED BY <3>2, <3>3, <3>4
  <2> QED BY <1>1, <2>1, <2>2
<1>7. IsFlow(g, sb, h)
  <2>1. g[m + k] = h
    BY <1>1, <1>2, <1>4
  <2> QED BY <1>1, <1>5, <2>1 DEF IsFlow
<1>8. Flow(g, sb, D) /\ g[0] = f[0]
  BY <1>1, <1>4, <1>6 DEF Flow
<1> QED BY <1>7, <1>8 DEF sb

\* Objects that show what they showed, in a table that may have lost some.
SameShown(os, mp) ==
  /\ Len(os) = Len(objs)
  /\ \A i \in 1..Len(objs) : /\ os[i].pane = objs[i].pane /\ os[i].ready = objs[i].ready
                             /\ os[i].shown = objs[i].shown
  /\ \A p \in Id : mp[p] \in {mapPanes[p], 0}

\* Objects that show the same, in the table or not any more, keep the order.
LEMMA ShownKept ==
  ASSUME GatewayInv, NEW g, AllShown(objs, mapPanes, g), NEW os, NEW mp, SameShown(os, mp)
  PROVE  AllShown(os, mp, g)
<1>0. objs \in Seq(Object) /\ Len(objs) \in Nat
  BY DEF GatewayInv, TypeOK
<1> SUFFICES ASSUME NEW i \in 1..Len(os)
             PROVE  Shows(os[i], mp[os[i].pane] = i, g[os[i].pane])
  BY DEF AllShown
<1>1. i \in 1..Len(objs) /\ objs[i] \in Object
  BY <1>0 DEF SameShown
<1>2. Shows(objs[i], mapPanes[objs[i].pane] = i, g[objs[i].pane])
  BY <1>1 DEF AllShown
<1>3. objs[i].pane \in Id
  BY <1>1, ObjectFields
<1>4. mp[objs[i].pane] = i => mapPanes[objs[i].pane] = i
  BY <1>1, <1>3 DEF SameShown
<1>5. os[i].pane = objs[i].pane /\ os[i].ready = objs[i].ready /\ os[i].shown = objs[i].shown
  BY <1>1 DEF SameShown
<1> QED BY <1>2, <1>4, <1>5 DEF Shows

\* Requests are kept when objects show the same.
LEMMA QuerySame ==
  ASSUME NEW c, NEW q, NEW w, NEW os, NEW mp, Query(c, q, w, objs), SameShown(os, mp)
  PROVE  Query(c, q, w, os)
<1>1. \A d \in AskedOf(c, q) : d.recv \in 1..Len(objs)
  BY DEF Query
<1>2. \A d \in AskedOf(c, q) :
         /\ d.recv \in 1..Len(os) /\ os[d.recv].pane = objs[d.recv].pane
         /\ os[d.recv].ready = objs[d.recv].ready /\ os[d.recv].shown = objs[d.recv].shown
  BY <1>1 DEF SameShown
<1> QED BY <1>2, QueryKeeps

\* The line that answers a request for a history, and the others.
LEMMA AnswerMatches ==
  ASSUME TypeOK, NEW c \in Command, NEW D,
         \A d \in D : c.id = d.id => c.cb = "CB_DUMP_HISTORY" /\ c.arg = d.arg
  PROVE  /\ BlockOf(c) # <<>>
         /\ \A i \in 1..Len(BlockOf(c)) : ~IsOutput(BlockOf(c)[i]) /\ Match(D, BlockOf(c)[i], outs)
<1> DEFINE a == AnswerTo(c)
           m == Len(a)
           B(i) == [t |-> IF i = 1 THEN "begin" ELSE IF i = m + 2 THEN "end" ELSE "data",
                    n |-> c.id,
                    k |-> IF i = m + 2 THEN m ELSE i - 1,
                    d |-> IF i \in 2..(m + 1) THEN a[i - 1] ELSE NoPayload]
<1>1. a \in Seq(Payloads) /\ m \in Nat
  BY AnswerTyped
<1>2. c.cb = "CB_DUMP_HISTORY" => a = <<Payload("history", c.arg, outs[c.arg], <<>>)>> \/ a = <<>>
  BY DEF AnswerTo
<1>3. BlockOf(c) = [i \in 1..(m + 2) |-> B(i)]
  BY DEF BlockOf
<1>4. c.cb = "CB_DUMP_HISTORY" => m = 0 \/ (m = 1 /\ a[1].pos = outs[c.arg])
  BY <1>2 DEF Payload
<1> HIDE DEF a, m
<1>5. /\ Len(BlockOf(c)) = m + 2 /\ BlockOf(c) # <<>>
      /\ \A i \in 1..(m + 2) : BlockOf(c)[i] = B(i)
  <2>1. [i \in 1..(m + 2) |-> B(i)] \in Seq({B(i) : i \in 1..(m + 2)})
    <3> HIDE DEF B
    <3>1. m + 2 \in Nat
      BY <1>1
    <3> QED BY <3>1
  <2> HIDE DEF B
  <2>2. Len(BlockOf(c)) = m + 2
    BY <1>1, <1>3
  <2>3. BlockOf(c) # <<>>
    BY <1>1, <2>2
  <2> QED BY <1>3, <2>2, <2>3
<1>6. ASSUME NEW i \in 1..(m + 2) PROVE ~IsOutput(B(i)) /\ Match(D, B(i), outs)
  <2>1. B(i).t # "note"
    OBVIOUS
  <2>2. ASSUME NEW d \in D, B(i).t = "data", B(i).n = d.id PROVE B(i).k = 1 /\ B(i).d.pos = outs[d.arg]
    <3>1. i # 1 /\ i # m + 2
      BY <2>2
    <3>2. c.cb = "CB_DUMP_HISTORY" /\ c.arg = d.arg
      BY <2>2
    <3>3. i = 2 /\ m = 1
      BY <1>1, <1>4, <3>1, <3>2
    <3>4. B(2).k = 1 /\ B(2).d = a[1]
      BY <3>3
    <3> QED BY <1>4, <3>2, <3>3, <3>4
  <2> HIDE DEF B
  <2> QED BY <2>1, <2>2 DEF IsOutput, Match
<1> HIDE DEF B
<1> QED BY <1>5, <1>6

\* An answer of the server keeps the counts: a history goes as far as the output written.
LEMMA AnswerKeepsPanes == GatewayInv /\ PanesInv /\ SrvAnswer => PanesInv'
<1> SUFFICES ASSUME GatewayInv, PanesInv, SrvAnswer PROVE PanesInv'
  OBVIOUS
<1>0. /\ TypeOK /\ toSrv \in Seq(Command) /\ stream \in Seq(Line) /\ outs \in Counts
  BY DEF GatewayInv, TypeOK, Counts
<1> DEFINE c == Head(toSrv)
           D == AskedOf(cur, cmdq)
           b == BlockOf(c)
<1>1. /\ toSrv # <<>> /\ toSrv' = Tail(toSrv) /\ stream' = stream \o b
      /\ UNCHANGED <<gwVars, histVars, sent, notes, srvVars>>
  BY DEF SrvAnswer
<1>2. c = toSrv[1] /\ 1 \in 1..Len(toSrv) /\ c \in Command
  BY <1>0, <1>1
<1>3. Query(cur, cmdq, toSrv, objs)
  BY DEF PanesInv
<1>4. \A d \in D : c.id = d.id => c.cb = "CB_DUMP_HISTORY" /\ c.arg = d.arg
  BY <1>2, <1>3 DEF Query
<1>5. Query(cur, cmdq, Tail(toSrv), objs)
  BY <1>0, <1>1, <1>3, QueryAnswered
<1>6. PICK f : Panes(f, f[0])
  BY DEF PanesInv
<1> HIDE DEF c, D
<1>7. b # <<>> /\ \A i \in 1..Len(b) : ~IsOutput(b[i]) /\ Match(D, b[i], outs)
  BY <1>0, <1>2, <1>4, AnswerMatches
<1>8. b \in Seq(Line)
  BY <1>0, <1>2, BlockTyped
<1> HIDE DEF b
<1>9. \A i \in 1..Len(b) : Counted(b[i], outs, outs) /\ Match(D, b[i], outs)
  BY <1>7 DEF Counted
<1>10. IsFlow(f, stream, outs) /\ Flow(f, stream, D)
  BY <1>6 DEF Panes, D
<1>11. PICK g : IsFlow(g, stream \o b, outs) /\ Flow(g, stream \o b, D) /\ g[0] = f[0]
  BY <1>0, <1>7, <1>8, <1>9, <1>10, FlowGrows
<1>12. Panes(g, g[0])'
  <2>1. /\ \A i \in 1..Len(resp) : Match(D, resp[i], g[0])
        /\ AllShown(objs, mapPanes, g[0])
    BY <1>6, <1>11 DEF Panes, D
  <2>2. IsFlow(g, stream', outs) /\ Flow(g, stream', D)
    BY <1>1, <1>11
  <2> QED BY <1>1, <2>1, <2>2 DEF Panes, gwVars, srvVars, D
<1>13. Query(cur', cmdq', toSrv', objs') /\ stop' # "assert-clean-slate"
  BY <1>1, <1>5 DEF gwVars, histVars, PanesInv
<1> QED BY <1>12, <1>13 DEF PanesInv

\* A notification: h counts it, if it is output.
LEMMA NotifyKeepsPanes ==
  ASSUME GatewayInv, PanesInv, NEW d \in Payloads, Notify(d), outs' \in Counts,
         Counted([t |-> "note", n |-> sent - Len(toSrv), k |-> 0, d |-> d], outs, outs')
  PROVE  PanesInv'
<1> DEFINE l == [t |-> "note", n |-> sent - Len(toSrv), k |-> 0, d |-> d]
           D == AskedOf(cur, cmdq)
           b == <<l>>
           h == outs'
<1>0. TypeOK /\ stream \in Seq(Line)
  BY DEF GatewayInv, TypeOK
<1>1. stream' = Append(stream, l) /\ UNCHANGED <<gwVars, histVars, sent, toSrv>>
  BY DEF Notify
<1>2. l \in Line /\ l.t = "note"
  <2>1. sent - Len(toSrv) \in Nat
    BY <1>0 DEF TypeOK
  <2> QED BY <2>1 DEF Line
<1>3. Counted(l, outs, h) /\ h \in Counts
  OBVIOUS
<1> HIDE DEF l, h
<1>4. b \in Seq(Line) /\ b # <<>> /\ Len(b) = 1 /\ \A i \in 1..Len(b) : b[i] = l
  BY <1>2
<1>5. stream' = stream \o b
  <2> DEFINE x == Append(stream, l)
             y == stream \o b
  <2>1. /\ x \in Seq(Line) /\ Len(x) = Len(stream) + 1 /\ Len(stream) \in Nat
        /\ \A j \in 1..Len(x) : x[j] = IF j <= Len(stream) THEN stream[j] ELSE l
    BY <1>0, <1>2
  <2> HIDE DEF b
  <2>2. /\ y \in Seq(Line) /\ Len(y) = Len(stream) + 1
        /\ \A j \in 1..Len(y) : y[j] = IF j <= Len(stream) THEN stream[j] ELSE b[j - Len(stream)]
    BY <1>0, <1>4, ConcatProps
  <2> HIDE DEF x, y
  <2>3. \A j \in 1..Len(x) : j > Len(stream) => j - Len(stream) \in 1..Len(b)
    BY <1>4, <2>1
  <2>4. \A j \in 1..Len(x) : x[j] = y[j]
    BY <1>4, <2>1, <2>2, <2>3
  <2>5. x = y
    BY <2>1, <2>2, <2>4, SameSeq
  <2> QED BY <1>1, <2>5 DEF x, y
<1> HIDE DEF b
<1>6. \A i \in 1..Len(b) : Counted(b[i], outs, h) /\ Match(D, b[i], h)
  BY <1>2, <1>3, <1>4 DEF Match
<1>7. PICK f : Panes(f, f[0])
  BY DEF PanesInv
<1>8. IsFlow(f, stream, outs) /\ Flow(f, stream, D)
  BY <1>7 DEF Panes
<1> HIDE DEF D
<1>9. PICK g : IsFlow(g, stream \o b, h) /\ Flow(g, stream \o b, D) /\ g[0] = f[0]
  BY <1>0, <1>3, <1>4, <1>6, <1>8, FlowGrows
<1>10. Panes(g, g[0])'
  <2>1. /\ \A i \in 1..Len(resp) : Match(D, resp[i], g[0])
        /\ AllShown(objs, mapPanes, g[0])
    BY <1>7, <1>9 DEF Panes, D
  <2>2. IsFlow(g, stream', outs') /\ Flow(g, stream', D)
    BY <1>5, <1>9 DEF h
  <2> QED BY <1>1, <2>1, <2>2 DEF Panes, gwVars, D
<1>11. Query(cur', cmdq', toSrv', objs') /\ stop' # "assert-clean-slate"
  BY <1>1 DEF gwVars, histVars, PanesInv
<1> QED BY <1>10, <1>11 DEF PanesInv

\* The server's steps keep the counts.
LEMMA ServerKeepsPanes == GatewayInv /\ PanesInv /\ Server => PanesInv'
<1> SUFFICES ASSUME GatewayInv, PanesInv, Server, ~SrvAnswer PROVE PanesInv'
  BY AnswerKeepsPanes
<1>1. PICK d \in Payloads : Notify(d) /\ Writes(d) /\ outs' \in [Id -> Nat]
  BY ServerWrites
<1>2. Counted([t |-> "note", n |-> sent - Len(toSrv), k |-> 0, d |-> d], outs, outs')
  BY <1>1 DEF Writes, Counted, IsOutput
<1>3. outs' \in Counts
  BY <1>1 DEF Counts
<1> QED BY <1>1, <1>2, <1>3, NotifyKeepsPanes

\* Commands are sent that ask for no history, or for that of objects that are new.
LEMMA SendKeepsQuery ==
  ASSUME GatewayInv, ChannelProofs!ChannelInv, NEW c \in Command, NEW os \in Seq(Object),
         Query(c, cmdq, toSrv, os), c.id <= sent,
         NEW cs \in Seq(Command), SendCommands(cs),
         \A i \in 1..Len(cs) : cs[i].cb = "CB_DUMP_HISTORY" =>
           /\ cs[i].recv \in 1..Len(os) /\ os[cs[i].recv].pane = cs[i].arg
           /\ ~os[cs[i].recv].ready /\ os[cs[i].recv].shown = <<>>
           /\ cs[i].recv # c.recv
           /\ \A j \in 1..Len(cmdq) : cmdq[j].recv # cs[i].recv
           /\ \A j \in 1..(i - 1) : cs[j].recv # cs[i].recv
  PROVE  /\ Query(c, cmdq', toSrv', os)
         /\ \A d \in AskedOf(c, cmdq') : d \in AskedOf(c, cmdq) \/ (d.id \in Nat /\ d.id > sent)
<1> DEFINE new == [i \in DOMAIN cs |-> [cs[i] EXCEPT !.id = sent + i]]
<1>0. cmdq \in Seq(Command) /\ toSrv \in Seq(Command) /\ sent \in Nat
  BY DEF GatewayInv, TypeOK
<1>1. cmdq' = cmdq \o new /\ toSrv' = toSrv \o new
  BY DEF SendCommands
<1>2. ASSUME NEW i \in 1..Len(cs)
      PROVE  /\ new[i] \in Command /\ new[i].recv = cs[i].recv /\ new[i].id = sent + i
             /\ new[i].cb = cs[i].cb /\ new[i].arg = cs[i].arg
  <2>1. cs[i] \in Command /\ sent + i \in Nat
    BY <1>0
  <2>2. new[i] = [cs[i] EXCEPT !.id = sent + i]
    <3>1. i \in DOMAIN cs
      OBVIOUS
    <3> QED BY <3>1, Zenon
  <2> HIDE DEF new
  <2> QED BY <2>1, <2>2 DEF Command
<1>3. new \in Seq(Command) /\ Len(new) = Len(cs) /\ Len(cs) \in Nat
  <2>1. new = [i \in 1..Len(cs) |-> new[i]] /\ Len(cs) \in Nat
    OBVIOUS
  <2> HIDE DEF new
  <2> QED BY <1>2, <2>1
<1> HIDE DEF new
<1>4. \A d \in AskedOf(c, cmdq) : d.id <= sent
  BY ChannelFacts DEF AskedOf
<1>5. \A i \in 1..Len(toSrv) : toSrv[i].id <= sent
  BY ChannelFacts
<1>6. \A i \in 1..Len(new) : new[i].id = sent + i
  BY <1>2, <1>3
<1>7. ASSUME NEW i \in 1..Len(new), new[i].cb = "CB_DUMP_HISTORY"
      PROVE  /\ new[i].recv \in 1..Len(os) /\ os[new[i].recv].pane = new[i].arg
             /\ ~os[new[i].recv].ready /\ os[new[i].recv].shown = <<>>
             /\ new[i].recv # c.recv
             /\ \A j \in 1..Len(cmdq) : cmdq[j].recv # new[i].recv
             /\ \A j \in 1..(i - 1) : new[j].recv # new[i].recv
  <2>1. i \in 1..Len(cs) /\ cs[i].cb = "CB_DUMP_HISTORY"
    BY <1>2, <1>3, <1>7
  <2>2. new[i].recv = cs[i].recv /\ new[i].arg = cs[i].arg
    BY <1>2, <2>1
  <2>3. \A j \in 1..(i - 1) : j \in 1..Len(cs) /\ new[j].recv = cs[j].recv
    BY <1>2, <1>3, <2>1
  <2> QED BY <2>1, <2>2, <2>3
<1>8. /\ Query(c, cmdq \o new, toSrv \o new, os)
      /\ \A d \in AskedOf(c, cmdq \o new) : d \in AskedOf(c, cmdq) \/ d.id > sent
  BY <1>0, <1>3, <1>4, <1>5, <1>6, <1>7, QuerySends
<1>9. cmdq \o new \in Seq(Command)
  BY <1>0, <1>3, ConcatProps
<1>10. AskedOf(c, cmdq \o new) \subseteq Command
  <2> DEFINE qn == cmdq \o new
  <2>1. qn \in Seq(Command)
    BY <1>9
  <2> HIDE DEF qn
  <2>2. AskedOf(c, qn) \subseteq Command
    BY <2>1, AskedShrinks
  <2> QED BY <2>2 DEF qn
<1>11. \A d \in AskedOf(c, cmdq \o new) : d.id \in Nat
  BY <1>10, CommandFields
<1> QED BY <1>1, <1>8, <1>11

\* Commands are sent that ask for no history.
LEMMA SendKeepsPanes ==
  ASSUME GatewayInv, ChannelProofs!ChannelInv, PanesInv, NEW cs \in Seq(Command), SendCommands(cs),
         \A i \in 1..Len(cs) : cs[i].cb # "CB_DUMP_HISTORY"
  PROVE  /\ Query(cur, cmdq', toSrv', objs)
         /\ \A d \in AskedOf(cur, cmdq') : d \in AskedOf(cur, cmdq) \/ (d.id \in Nat /\ d.id > sent)
<1>1. cur \in Command /\ objs \in Seq(Object) /\ Query(cur, cmdq, toSrv, objs)
  BY DEF GatewayInv, TypeOK, PanesInv
<1>2. cur.id <= sent
  BY ChannelFacts
<1> QED BY <1>1, <1>2, SendKeepsQuery

\* What is to be shown of the next state.
LEMMA PanesDone ==
  ASSUME NEW g, IsFlow(g, stream', outs'), Flow(g, stream', AskedOf(cur', cmdq')),
         \A i \in 1..Len(resp') : Match(AskedOf(cur', cmdq'), resp'[i], g[0]),
         AllShown(objs', mapPanes', g[0]), Query(cur', cmdq', toSrv', objs'),
         stop' # "assert-clean-slate"
  PROVE  PanesInv'
<1>1. Panes(g, g[0])'
  BY DEF Panes
<1> QED BY <1>1 DEF PanesInv

\* Taking a line moves the counts on.
LEMMA TakePanes ==
  ASSUME GatewayInv, ChannelProofs!ChannelInv, PanesInv, TakeLine, NEW E,
         \A d \in E : d \in AskedOf(cur, cmdq) \/ (d.id \in Nat /\ d.id > sent)
  PROVE  \E f, g : /\ Panes(f, f[0]) /\ f[0] \in Counts /\ g[0] \in Counts
                   /\ IsFlow(g, stream', outs') /\ Flow(g, stream', E)
                   /\ Counted(Head(stream), f[0], g[0])
                   /\ Match(AskedOf(cur, cmdq), Head(stream), g[0])
<1> DEFINE D == AskedOf(cur, cmdq)
           r == Tail(stream)
<1>0. /\ stream \in Seq(Line) /\ stream # <<>> /\ stream' = r /\ outs' = outs /\ sent \in Nat
  BY DEF GatewayInv, TypeOK, TakeLine, srvVars
<1>1. PICK f : Panes(f, f[0])
  BY DEF PanesInv
<1>2. IsFlow(f, stream, outs) /\ Flow(f, stream, D)
  BY <1>1 DEF Panes
<1>3. f[0] \in Counts
  <2>1. 0 \in 0..Len(stream)
    BY <1>0
  <2> QED BY <1>2, <2>1 DEF IsFlow
<1>4. /\ r \in Seq(Line)
      /\ \A i \in 1..Len(r) : i + 1 \in 1..Len(stream) /\ r[i] = stream[i + 1]
  BY <1>0
<1>5. \A i \in 1..Len(r) : r[i].n <= sent
  <2>1. \A i \in 1..Len(stream) : stream[i].n <= sent
    BY ChannelFacts
  <2> QED BY <1>4, <2>1
<1>6. \A d \in E : d \in D \/ (d.id \in Nat /\ d.id > sent)
  OBVIOUS
<1> HIDE DEF D
<1>7. PICK g : /\ IsFlow(g, Tail(stream), outs) /\ Flow(g, Tail(stream), D) /\ g[0] \in Counts
               /\ Counted(Head(stream), f[0], g[0]) /\ Match(D, Head(stream), g[0])
  BY <1>0, <1>2, FlowTakes
<1>8. IsFlow(g, r, outs) /\ Flow(g, r, D)
  BY <1>7
<1> HIDE DEF r
<1>9. Flow(g, r, E)
  BY <1>0, <1>4, <1>5, <1>6, <1>8, FlowNew
<1> QED BY <1>0, <1>1, <1>3, <1>7, <1>8, <1>9 DEF D

\* A line that is no output, and that changes nothing that is shown.
LEMMA QuietTake ==
  ASSUME GatewayInv, ChannelProofs!ChannelInv, PanesInv, TakeLine, ~IsOutput(Head(stream)),
         \A d \in AskedOf(cur', cmdq') : d \in AskedOf(cur, cmdq) \/ (d.id \in Nat /\ d.id > sent),
         \/ resp' = <<>>
         \/ /\ AskedOf(cur', cmdq') \subseteq AskedOf(cur, cmdq)
            /\ resp' \in {resp, Append(resp, Head(stream))},
         SameShown(objs', mapPanes'), stop' # "assert-clean-slate",
         Query(cur', cmdq', toSrv', objs)
  PROVE  PanesInv'
<1> DEFINE D == AskedOf(cur, cmdq)
           E == AskedOf(cur', cmdq')
<1>0. resp \in Seq(Line) /\ Head(stream) \in Line
  BY TakeEffect DEF GatewayInv, TypeOK
<1>1. PICK f, g : /\ Panes(f, f[0]) /\ f[0] \in Counts /\ g[0] \in Counts
                  /\ IsFlow(g, stream', outs') /\ Flow(g, stream', E)
                  /\ Counted(Head(stream), f[0], g[0])
                  /\ Match(D, Head(stream), g[0])
  BY TakePanes
<1>2. g[0] = f[0]
  BY <1>1 DEF Counted
<1>3. AllShown(objs, mapPanes, g[0]) /\ \A i \in 1..Len(resp) : Match(D, resp[i], g[0])
  BY <1>1, <1>2 DEF Panes
<1>4. AllShown(objs', mapPanes', g[0])
  <2> DEFINE os == objs'
             mp == mapPanes'
  <2>1. SameShown(os, mp)
    OBVIOUS
  <2> HIDE DEF os, mp
  <2>2. AllShown(os, mp, g[0])
    BY <1>3, <2>1, ShownKept
  <2> QED BY <2>2 DEF os, mp
<1>5. \A i \in 1..Len(resp') : Match(E, resp'[i], g[0])
  <2>1. CASE resp' = <<>>
    BY <2>1
  <2>2. CASE E \subseteq D /\ resp' \in {resp, Append(resp, Head(stream))}
    <3> DEFINE l == Head(stream)
    <3>1. l \in Line /\ Match(D, l, g[0])
      BY <1>0, <1>1
    <3> HIDE DEF l
    <3>2. \A i \in 1..Len(resp') : (i \in 1..Len(resp) /\ resp'[i] = resp[i]) \/ resp'[i] = l
      <4>1. CASE resp' = resp
        BY <4>1
      <4>2. CASE resp' = Append(resp, l)
        BY <1>0, <3>1, <4>2
      <4> QED BY <2>2, <4>1, <4>2 DEF l
    <3>3. \A i \in 1..Len(resp') : Match(D, resp'[i], g[0])
      BY <1>3, <3>1, <3>2
    <3> QED BY <2>2, <3>3 DEF Match
  <2> QED BY <2>1, <2>2
<1>6. Query(cur', cmdq', toSrv', objs')
  <2> DEFINE c == cur'
             q == cmdq'
             w == toSrv'
             os == objs'
             mp == mapPanes'
  <2>1. Query(c, q, w, objs) /\ SameShown(os, mp)
    OBVIOUS
  <2> HIDE DEF c, q, w, os, mp
  <2>2. Query(c, q, w, os)
    BY <2>1, QuerySame
  <2> QED BY <2>2 DEF c, q, w, os
<1> QED BY <1>1, <1>4, <1>5, <1>6, PanesDone

\* Nothing changed is nothing shown.
LEMMA SameIsSame == UNCHANGED <<objs, mapPanes>> => SameShown(objs', mapPanes')
BY DEF SameShown

\* Deleting a pane changes nothing shown.
LEMMA DeleteShows ==
  ASSUME GatewayInv, NEW left, DeleteGateway(left)
  PROVE  SameShown(objs', mapPanes')
<1>1. /\ Len(objs') = Len(objs) /\ mapPanes' = [p \in Id |-> 0]
      /\ \A i \in 1..Len(objs) :
           objs'[i] = IF i \in Mapped(mapPanes) /\ objs[i].win = "open"
                      THEN [objs[i] EXCEPT !.win = "closed"] ELSE objs[i]
  BY DeleteEffect
<1>2. ASSUME NEW i \in 1..Len(objs)
      PROVE  /\ objs'[i].pane = objs[i].pane /\ objs'[i].ready = objs[i].ready
             /\ objs'[i].shown = objs[i].shown
  <2>1. objs[i] \in Object
    BY DEF GatewayInv, TypeOK
  <2> DEFINE o == [objs[i] EXCEPT !.win = "closed"]
  <2>2. o.pane = objs[i].pane /\ o.ready = objs[i].ready /\ o.shown = objs[i].shown
    BY <2>1 DEF Object
  <2>3. objs'[i] = o \/ objs'[i] = objs[i]
    BY <1>1
  <2> HIDE DEF o
  <2> QED BY <2>2, <2>3
<1>3. \A p \in Id : mapPanes'[p] \in {mapPanes[p], 0}
  BY <1>1
<1> QED BY <1>1, <1>2, <1>3 DEF SameShown

\* Lines of answers that end none keep the counts.
LEMMA CommandLinesKeepPanes ==
  GatewayInv /\ ChannelProofs!ChannelInv /\ PanesInv
    /\ (ParseStrayEnd \/ ParseResponseLine \/ ParseBegin) => PanesInv'
<1> SUFFICES ASSUME GatewayInv, ChannelProofs!ChannelInv, PanesInv,
                    ParseStrayEnd \/ ParseResponseLine \/ ParseBegin
             PROVE  PanesInv'
  OBVIOUS
<1>0. /\ cur \in Command /\ cmdq \in Seq(Command)
      /\ Query(cur, cmdq, toSrv, objs) /\ stop # "assert-clean-slate"
  BY DEF GatewayInv, TypeOK, PanesInv
<1>1. /\ TakeLine /\ UNCHANGED <<objs, mapPanes, toSrv, histVars>>
  BY DEF ParseStrayEnd, ParseResponseLine, ParseBegin, TakeInMode
<1>2. SameShown(objs', mapPanes') /\ stop' # "assert-clean-slate"
  BY <1>0, <1>1, SameIsSame DEF histVars
<1>3. ~IsOutput(Head(stream))
  <2>1. stream # <<>>
    BY <1>1 DEF TakeLine
  <2>2. cur.id # 0 => Head(stream).t # "note"
    BY <2>1, ChannelFacts
  <2> QED BY <2>2 DEF ParseStrayEnd, ParseResponseLine, ParseBegin, IsOutput
<1>4. CASE UNCHANGED <<cur, cmdq>> /\ resp' \in {resp, Append(resp, Head(stream))}
  <2>1. AskedOf(cur', cmdq') = AskedOf(cur, cmdq) /\ Query(cur', cmdq', toSrv', objs)
    BY <1>0, <1>1, <1>4
  <2> QED BY <1>1, <1>2, <1>3, <1>4, <2>1, QuietTake
<1>5. CASE cmdq # <<>> /\ cur' = Head(cmdq) /\ cmdq' = Tail(cmdq) /\ resp' = <<>>
  <2>1. AskedOf(cur', cmdq') \subseteq AskedOf(cur, cmdq)
    BY <1>0, <1>5, AskedShrinks
  <2>2. Query(Head(cmdq), Tail(cmdq), toSrv, objs)
    BY <1>0, <1>5, QueryBegins
  <2>3. Query(cur', cmdq', toSrv', objs)
    BY <1>1, <1>5, <2>2
  <2> QED BY <1>1, <1>2, <1>3, <1>5, <2>1, <2>3, QuietTake
<1> QED BY <1>4, <1>5 DEF ParseStrayEnd, ParseResponseLine, ParseBegin

\* Notifications that neither send nor show keep the counts.
LEMMA QuietNotesKeepPanes ==
  GatewayInv /\ ChannelProofs!ChannelInv /\ PanesInv
    /\ (WindowRenamed \/ WindowClose \/ LayoutChange \/ Exit) => PanesInv'
<1> SUFFICES ASSUME GatewayInv, ChannelProofs!ChannelInv, PanesInv,
                    WindowRenamed \/ WindowClose \/ LayoutChange \/ Exit
             PROVE  PanesInv'
  OBVIOUS
<1>0. /\ TypeOK /\ objs \in Seq(Object) /\ DOMAIN objs = 1..Len(objs) /\ Len(objs) \in Nat
      /\ Query(cur, cmdq, toSrv, objs) /\ stop # "assert-clean-slate"
  BY DEF GatewayInv, TypeOK, PanesInv
<1>1. TakeLine /\ UNCHANGED <<cmdq, toSrv, cur, resp, stop>>
  BY DEF WindowRenamed, WindowClose, LayoutChange, Exit, TakeInMode, Note, histVars
<1>2. ~IsOutput(Head(stream))
  BY DEF WindowRenamed, WindowClose, LayoutChange, Exit, Note, IsOutput
<1>3. SameShown(objs', mapPanes')
  <2>1. CASE WindowRenamed \/ LayoutChange \/ (Exit /\ UNCHANGED <<objs, mapPanes>>)
    <3>1. UNCHANGED <<objs, mapPanes>>
      BY <2>1 DEF WindowRenamed, LayoutChange
    <3> QED BY <3>1, SameIsSame
  <2>2. CASE WindowClose
    <3> DEFINE w == Head(stream).d.id
               i == mapPanes[w]
               o == [objs[i] EXCEPT !.tab = objs[i].split, !.dropped = TRUE]
    <3>1. /\ mapPanes' = [mapPanes EXCEPT ![w] = 0]
          /\ objs' = IF i = 0 THEN objs
                     ELSE [objs EXCEPT ![i].tab = objs[i].split, ![i].dropped = TRUE]
      BY <2>2 DEF WindowClose
    <3>2. w \in Id
      BY <1>1, TakeEffect, LineFields
    <3>3. \A p \in Id : mapPanes'[p] \in {mapPanes[p], 0}
      BY <1>0, <3>1, <3>2 DEF TypeOK
    <3>4. CASE i = 0
      BY <3>1, <3>3, <3>4 DEF SameShown
    <3>5. CASE i # 0
      <4>1. i \in 1..Len(objs) /\ objs[i] \in Object
        BY <1>0, <3>2, <3>5 DEF TypeOK
      <4>2. objs' = [objs EXCEPT ![i] = o]
        BY <1>0, <3>1, <3>5, <4>1
      <4>3. o.pane = objs[i].pane /\ o.ready = objs[i].ready /\ o.shown = objs[i].shown /\ o \in Object
        BY <4>1 DEF Object
      <4> HIDE DEF o, i
      <4>4. /\ Len(objs') = Len(objs) /\ objs'[i] = o
            /\ \A j \in 1..Len(objs) : j # i => objs'[j] = objs[j]
        BY <1>0, <4>1, <4>2, <4>3
      <4> QED BY <3>3, <4>3, <4>4 DEF SameShown
    <3> QED BY <3>4, <3>5
  <2>3. CASE Exit /\ DeleteGateway("deleted")
    BY <2>3, DeleteShows
  <2> QED BY <2>1, <2>2, <2>3 DEF Exit
<1>4. AskedOf(cur', cmdq') = AskedOf(cur, cmdq) /\ Query(cur', cmdq', toSrv', objs)
  BY <1>0, <1>1
<1> QED BY <1>0, <1>1, <1>2, <1>3, <1>4, QuietTake

\* Notifications on which the gateway sends commands keep the counts.
LEMMA SendingNotesKeepPanes ==
  GatewayInv /\ ChannelProofs!ChannelInv /\ PanesInv /\ (SessionChanged \/ WindowAdd) => PanesInv'
<1> SUFFICES ASSUME GatewayInv, ChannelProofs!ChannelInv, PanesInv, SessionChanged \/ WindowAdd
             PROVE  PanesInv'
  OBVIOUS
<1>0. Query(cur, cmdq, toSrv, objs) /\ stop # "assert-clean-slate"
  BY DEF PanesInv
<1>1. TakeLine /\ cur.id = 0 /\ UNCHANGED <<cur, resp, stop, objs, mapPanes>>
  BY DEF SessionChanged, WindowAdd, TakeInMode, Note, histVars
<1>2. ~IsOutput(Head(stream))
  BY DEF SessionChanged, WindowAdd, Note, IsOutput
<1>3. resp' = <<>>
  BY <1>1, ChannelFacts
<1>4. SameShown(objs', mapPanes')
  BY <1>1, SameIsSame
<1>5. /\ Query(cur, cmdq', toSrv', objs)
      /\ \A d \in AskedOf(cur, cmdq') : d \in AskedOf(cur, cmdq) \/ (d.id \in Nat /\ d.id > sent)
  <2>1. CASE SessionChanged
    <3> DEFINE cs == OpenWindowsInitial
    <3>1. cs \in Seq(Command) /\ \A i \in 1..Len(cs) : cs[i].cb # "CB_DUMP_HISTORY"
      <4> DEFINE x == Cmd(Gateway, "CB_NULL", 0)
                 y == Cmd(Gateway, "CB_LIST_WINDOWS", 0)
      <4>1. /\ x \in Command /\ y \in Command
            /\ x.cb # "CB_DUMP_HISTORY" /\ y.cb # "CB_DUMP_HISTORY"
        BY GatewayAssumption DEF Cmd, Command, Gateway, Callbacks, Id
      <4>2. cs = <<x, x, y>>
        BY DEF OpenWindowsInitial
      <4> HIDE DEF x, y, cs
      <4> QED BY <4>1, <4>2
    <3>2. SendCommands(cs)
      BY <2>1 DEF SessionChanged
    <3> HIDE DEF cs
    <3> QED BY <3>1, <3>2, SendKeepsPanes
  <2>2. CASE WindowAdd
    <3> DEFINE w == Head(stream).d.id
    <3>1. CASE mapPanes[w] = 0
      <4> DEFINE x == Cmd(Gateway, "CB_OPEN_LISTED_WINDOWS", w)
                 cs == <<x>>
      <4>1. w \in Id
        BY <1>1, TakeEffect, LineFields
      <4>2. x \in Command /\ x.cb # "CB_DUMP_HISTORY"
        BY <4>1 DEF Cmd, Command, Gateway, Callbacks
      <4>3. SendCommands(cs)
        BY <2>2, <3>1 DEF WindowAdd
      <4> HIDE DEF x
      <4>4. cs \in Seq(Command) /\ \A i \in 1..Len(cs) : cs[i].cb # "CB_DUMP_HISTORY"
        BY <4>2
      <4> HIDE DEF cs
      <4> QED BY <4>3, <4>4, SendKeepsPanes
    <3>2. CASE mapPanes[w] # 0
      <4>1. UNCHANGED <<cmdq, toSrv>>
        BY <2>2, <3>2 DEF WindowAdd
      <4> QED BY <1>0, <4>1
    <3> QED BY <3>1, <3>2
  <2> QED BY <2>1, <2>2
<1> DEFINE E == AskedOf(cur', cmdq')
<1>6. Query(cur', cmdq', toSrv', objs)
  BY <1>1, <1>5
<1>7. \A d \in AskedOf(cur', cmdq') : d \in AskedOf(cur, cmdq) \/ (d.id \in Nat /\ d.id > sent)
  BY <1>1, <1>5
<1> QED BY <1>0, <1>1, <1>2, <1>3, <1>4, <1>6, <1>7, QuietTake

\* The answer that creates panes.
LEMMA GatewayAnswerKeepsPanes ==
  GatewayInv /\ ChannelProofs!ChannelInv /\ PanesInv /\ ParseEndGateway => PanesInv'
<1> SUFFICES ASSUME GatewayInv, ChannelProofs!ChannelInv, PanesInv, ParseEndGateway PROVE PanesInv'
  OBVIOUS
<1>0. /\ TypeOK /\ ReceiversExist /\ objs \in Seq(Object) /\ Len(objs) \in Nat
      /\ cur \in Command /\ cmdq \in Seq(Command)
      /\ Query(cur, cmdq, toSrv, objs) /\ stop # "assert-clean-slate"
  BY DEF GatewayInv, TypeOK, PanesInv
<1>1. /\ TakeLine /\ Head(stream).t = "end" /\ cur' = NoCmd /\ resp' = <<>> /\ stop' = stop
  BY DEF ParseEndGateway, TakeInMode
<1>2. PICK a \in GoodWork : objs' = a.objs /\ mapPanes' = a.map /\ SendCommands(a.cmds)
  BY WorkDone
<1>3. a \in Work /\ WorkOK(a) /\ Fresh(a)
  BY DEF GoodWork
<1> DEFINE os == a.objs
           mp == a.map
           cs == a.cmds
<1>4. /\ os \in Seq(Object) /\ mp \in [Id -> Nat] /\ cs \in Seq(Command) /\ Len(os) \in Nat
  BY <1>3 DEF Work
<1>5. /\ Len(objs) <= Len(os) /\ \A i \in 1..Len(objs) : os[i] = objs[i]
      /\ \A i \in 1..Len(cs) : cs[i].recv <= Len(os)
  BY <1>3 DEF WorkOK
<1>6. /\ \A p \in Id : mp[p] = mapPanes[p] \/ mp[p] > Len(objs)
      /\ \A i \in 1..Len(os) : i > Len(objs) => ~os[i].ready /\ os[i].shown = <<>>
      /\ \A i \in 1..Len(cs) :
           /\ cs[i].recv > Len(objs)
           /\ cs[i].cb = "CB_DUMP_HISTORY" =>
                /\ os[cs[i].recv].pane = cs[i].arg
                /\ \A j \in 1..(i - 1) : cs[j].recv # cs[i].recv
  BY <1>3 DEF Fresh
<1>7. objs' = os /\ mapPanes' = mp /\ SendCommands(cs)
  BY <1>2
<1> HIDE DEF os, mp, cs
<1>8. Query(NoCmd, cmdq, toSrv, os)
  <2>1. Query(NoCmd, cmdq, toSrv, objs)
    BY <1>0, QueryEnds
  <2>2. \A d \in AskedOf(NoCmd, cmdq) : d.recv \in 1..Len(objs)
    BY <2>1 DEF Query
  <2>3. \A d \in AskedOf(NoCmd, cmdq) : d.recv \in 1..Len(os) /\ os[d.recv] = objs[d.recv]
    BY <1>0, <1>4, <1>5, <2>2
  <2> QED BY <2>1, <2>3, QueryKeeps
<1>9. ASSUME NEW i \in 1..Len(cs), cs[i].cb = "CB_DUMP_HISTORY"
      PROVE  /\ cs[i].recv \in 1..Len(os) /\ os[cs[i].recv].pane = cs[i].arg
             /\ ~os[cs[i].recv].ready /\ os[cs[i].recv].shown = <<>>
             /\ cs[i].recv # NoCmd.recv
             /\ \A j \in 1..Len(cmdq) : cmdq[j].recv # cs[i].recv
             /\ \A j \in 1..(i - 1) : cs[j].recv # cs[i].recv
  <2>1. cs[i] \in Command
    BY <1>4
  <2>2. cs[i].recv \in Nat /\ cs[i].recv <= Len(os) /\ cs[i].recv > Len(objs)
    BY <1>5, <1>6, <2>1, CommandFields
  <2>3. cs[i].recv \in 1..Len(os) /\ cs[i].recv # NoCmd.recv
    BY <1>0, <1>4, <2>2, NoCmdTyped
  <2>4. ASSUME NEW j \in 1..Len(cmdq) PROVE cmdq[j].recv # cs[i].recv
    <3>1. cmdq[j] \in Command /\ j \in DOMAIN cmdq
      BY <1>0
    <3>2. cmdq[j].recv \in Nat /\ cmdq[j].recv <= Len(objs)
      BY <1>0, <3>1, CommandFields DEF ReceiversExist
    <3> QED BY <1>0, <2>2, <3>2
  <2>5. /\ os[cs[i].recv].pane = cs[i].arg
        /\ \A j \in 1..(i - 1) : cs[j].recv # cs[i].recv
    BY <1>6, <1>9
  <2>6. ~os[cs[i].recv].ready /\ os[cs[i].recv].shown = <<>>
    BY <1>6, <2>2, <2>3
  <2> QED BY <2>3, <2>4, <2>5, <2>6
<1>10. /\ Query(NoCmd, cmdq', toSrv', os)
       /\ \A d \in AskedOf(NoCmd, cmdq') :
            d \in AskedOf(NoCmd, cmdq) \/ (d.id \in Nat /\ d.id > sent)
  <2>1. NoCmd.id <= sent /\ NoCmd \in Command
    BY <1>0, NoCmdTyped DEF TypeOK
  <2> QED BY <1>4, <1>7, <1>8, <1>9, <2>1, SendKeepsQuery
<1>11. \A d \in AskedOf(cur', cmdq') : d \in AskedOf(cur, cmdq) \/ (d.id \in Nat /\ d.id > sent)
  <2>1. AskedOf(NoCmd, cmdq) \subseteq AskedOf(cur, cmdq)
    BY <1>0, AskedShrinks
  <2> QED BY <1>1, <1>10, <2>1
<1>12. PICK f, g : /\ Panes(f, f[0]) /\ f[0] \in Counts /\ g[0] \in Counts
                   /\ IsFlow(g, stream', outs') /\ Flow(g, stream', AskedOf(cur', cmdq'))
                   /\ Counted(Head(stream), f[0], g[0])
                   /\ Match(AskedOf(cur, cmdq), Head(stream), g[0])
  <2> DEFINE E == AskedOf(cur', cmdq')
  <2>1. \A d \in E : d \in AskedOf(cur, cmdq) \/ (d.id \in Nat /\ d.id > sent)
    BY <1>11
  <2> HIDE DEF E
  <2>2. \E f, g : /\ Panes(f, f[0]) /\ f[0] \in Counts /\ g[0] \in Counts
                  /\ IsFlow(g, stream', outs') /\ Flow(g, stream', E)
                  /\ Counted(Head(stream), f[0], g[0])
                  /\ Match(AskedOf(cur, cmdq), Head(stream), g[0])
    BY <1>1, <2>1, TakePanes
  <2> QED BY <2>2 DEF E
<1>13. g[0] = f[0]
  BY <1>1, <1>12 DEF Counted, IsOutput
<1>14. AllShown(os, mp, g[0])
  <2> SUFFICES ASSUME NEW i \in 1..Len(os) PROVE Shows(os[i], mp[os[i].pane] = i, g[0][os[i].pane])
    BY DEF AllShown
  <2>1. CASE i <= Len(objs)
    <3>1. i \in 1..Len(objs) /\ os[i] = objs[i] /\ objs[i] \in Object
      BY <1>0, <1>5, <2>1
    <3>2. objs[i].pane \in Id
      BY <3>1, ObjectFields
    <3>3. mp[objs[i].pane] = i => mapPanes[objs[i].pane] = i
      BY <1>0, <1>6, <2>1, <3>2
    <3>4. Shows(objs[i], mapPanes[objs[i].pane] = i, g[0][objs[i].pane])
      BY <1>12, <1>13, <3>1 DEF Panes, AllShown
    <3> QED BY <3>1, <3>3, <3>4 DEF Shows
  <2>2. CASE i > Len(objs)
    <3>1. os[i].shown = <<>> /\ Len(<<>>) = 0
      BY <1>6, <2>2
    <3> QED BY <3>1 DEF Shows
  <2> QED BY <1>0, <2>1, <2>2
<1>15. \A i \in 1..Len(resp') : Match(AskedOf(cur', cmdq'), resp'[i], g[0])
  BY <1>1
<1>16. AllShown(objs', mapPanes', g[0]) /\ Query(cur', cmdq', toSrv', objs')
  BY <1>1, <1>7, <1>10, <1>14
<1> QED BY <1>0, <1>1, <1>12, <1>15, <1>16, PanesDone

\* The answer to a pane's request: its history, its other screen or its state.
LEMMA PaneAnswerKeepsPanes ==
  GatewayInv /\ ChannelProofs!ChannelInv /\ PanesInv /\ ParseEndPane => PanesInv'
<1> SUFFICES ASSUME GatewayInv, ChannelProofs!ChannelInv, PanesInv, ParseEndPane PROVE PanesInv'
  OBVIOUS
<1>0. /\ TypeOK /\ ReceiversExist /\ objs \in Seq(Object) /\ Len(objs) \in Nat
      /\ DOMAIN objs = 1..Len(objs) /\ cur \in Command /\ cmdq \in Seq(Command)
      /\ resp \in Seq(Line) /\ Len(resp) \in Nat
      /\ Query(cur, cmdq, toSrv, objs) /\ stop # "assert-clean-slate"
  BY DEF GatewayInv, TypeOK, PanesInv
<1> DEFINE i == cur.recv
           o == objs[i]
           poss == [j \in DOMAIN resp |-> resp[j].d.pos]
           new == CASE cur.cb = "CB_DUMP_HISTORY" -> [o EXCEPT !.shown = @ \o poss]
                    [] cur.cb = "CB_DUMP_TERM_STATE" /\ resp # <<>> -> [o EXCEPT !.ready = TRUE]
                    [] OTHER -> o
<1>1. /\ TakeLine /\ Head(stream).t = "end" /\ cur' = NoCmd /\ resp' = <<>> /\ i # 0
      /\ stop' = IF cur.cb = "CB_DUMP_HISTORY" /\ o.shown # <<>> THEN "assert-clean-slate" ELSE stop
      /\ objs' = [objs EXCEPT ![i] = new]
      /\ UNCHANGED <<mapPanes, cmdq, toSrv>>
  BY DEF ParseEndPane, TakeInMode, Gateway
<1>2. i \in 1..Len(objs) /\ o \in Object
  <2>1. cur.recv \in Nat /\ cur.recv <= Len(objs)
    BY <1>0, CommandFields DEF ReceiversExist
  <2> QED BY <1>0, <1>1, <2>1
<1>3. AskedOf(NoCmd, cmdq) \subseteq AskedOf(cur, cmdq)
  BY <1>0, AskedShrinks
<1>4. Query(NoCmd, cmdq, toSrv, objs) /\ \A d \in AskedOf(NoCmd, cmdq) : d.recv # i
  BY <1>0, QueryEnds
<1>5. cur.cb = "CB_DUMP_HISTORY" => cur \in AskedOf(cur, cmdq)
  BY DEF AskedOf
<1>6. cur.cb = "CB_DUMP_HISTORY" => o.shown = <<>> /\ o.pane = cur.arg
  BY <1>0, <1>5 DEF Query
<1>7. PICK f, g : /\ Panes(f, f[0]) /\ f[0] \in Counts /\ g[0] \in Counts
                  /\ IsFlow(g, stream', outs') /\ Flow(g, stream', AskedOf(NoCmd, cmdq))
                  /\ Counted(Head(stream), f[0], g[0])
                  /\ Match(AskedOf(cur, cmdq), Head(stream), g[0])
  <2> DEFINE E == AskedOf(NoCmd, cmdq)
  <2>1. \A d \in E : d \in AskedOf(cur, cmdq) \/ (d.id \in Nat /\ d.id > sent)
    BY <1>3
  <2> HIDE DEF E
  <2>2. \E f, g : /\ Panes(f, f[0]) /\ f[0] \in Counts /\ g[0] \in Counts
                  /\ IsFlow(g, stream', outs') /\ Flow(g, stream', E)
                  /\ Counted(Head(stream), f[0], g[0])
                  /\ Match(AskedOf(cur, cmdq), Head(stream), g[0])
    BY <1>1, <2>1, TakePanes
  <2> QED BY <2>2 DEF E
<1>8. g[0] = f[0]
  BY <1>1, <1>7 DEF Counted, IsOutput
<1> DEFINE h == g[0]
<1>9. /\ \A j \in 1..Len(resp) : Match(AskedOf(cur, cmdq), resp[j], h)
      /\ AllShown(objs, mapPanes, h) /\ h \in Counts
  BY <1>7, <1>8 DEF Panes
<1>10. Shows(o, mapPanes[o.pane] = i, h[o.pane])
  BY <1>2, <1>9 DEF AllShown
<1> HIDE DEF h
<1>11. /\ new \in Object /\ new.pane = o.pane
       /\ Shows(new, mapPanes[o.pane] = i, h[o.pane])
  <2>1. CASE cur.cb = "CB_DUMP_HISTORY"
    <3> DEFINE s == o.shown \o poss
    <3>1. new = [o EXCEPT !.shown = s]
      BY <2>1
    <3>2. \A j \in 1..Len(resp) : j = 1 /\ resp[j].d.pos = h[o.pane]
      <4> SUFFICES ASSUME NEW j \in 1..Len(resp) PROVE j = 1 /\ resp[j].d.pos = h[o.pane]
        OBVIOUS
      <4>1. resp[j].t = "data" /\ resp[j].n = cur.id /\ resp[j].k = j
        BY ChannelFacts
      <4>2. resp[j].k = 1 /\ resp[j].d.pos = h[cur.arg]
        BY <1>5, <1>9, <2>1, <4>1 DEF Match
      <4> QED BY <1>6, <2>1, <4>1, <4>2
    <3>3. h[o.pane] \in Nat
      BY <1>2, <1>9, ObjectFields DEF Counts
    <3>4. poss \in Seq(Nat) /\ Len(poss) = Len(resp) /\ \A j \in 1..Len(resp) : poss[j] = h[o.pane]
      <4>1. poss = [j \in 1..Len(resp) |-> resp[j].d.pos]
        BY <1>0
      <4>2. \A j \in 1..Len(resp) : resp[j].d.pos \in Nat
        BY <3>2, <3>3
      <4>3. poss \in Seq(Nat) /\ Len(poss) = Len(resp)
        <5> HIDE DEF poss
        <5> QED BY <1>0, <4>1, <4>2
      <4>4. \A j \in 1..Len(resp) : poss[j] = resp[j].d.pos
        BY <4>1
      <4> HIDE DEF poss
      <4> QED BY <3>2, <4>3, <4>4
    <3>5. Len(resp) <= 1
      <4>1. Len(resp) > 1 => 2 \in 1..Len(resp)
        BY <1>0
      <4> QED BY <1>0, <3>2, <4>1
    <3> HIDE DEF poss
    <3>6. s = poss
      <4>1. o.shown = <<>>
        BY <1>6, <2>1
      <4> QED BY <3>4, <4>1
    <3> HIDE DEF s
    <3>7. new \in Object /\ new.pane = o.pane /\ new.shown = s
      <4>1. s \in Seq(Nat)
        BY <3>4, <3>6
      <4> HIDE DEF new, o
      <4> QED BY <1>2, <3>1, <4>1 DEF Object
    <3> HIDE DEF new
    <3>8. Len(s) \in Nat /\ Len(s) <= 1
      BY <1>0, <3>4, <3>5, <3>6
    <3>9. s # <<>> => s[Len(s)] = h[o.pane]
      <4> SUFFICES ASSUME s # <<>> PROVE s[Len(s)] = h[o.pane]
        OBVIOUS
      <4>1. Len(s) \in 1..Len(resp)
        BY <3>4, <3>6, <3>8
      <4> QED BY <3>4, <3>6, <4>1
    <3>10. \A j \in 2..(Len(s) - 1) : FALSE
      BY <3>8
    <3>11. ~(Len(s) > 1)
      BY <3>8
    <3>12. s # <<>> => s[Len(s)] <= h[o.pane]
      BY <3>3, <3>9
    <3> HIDE DEF o
    <3> QED BY <3>7, <3>10, <3>11, <3>12 DEF Shows
  <2>2. CASE cur.cb = "CB_DUMP_TERM_STATE" /\ resp # <<>>
    <3>1. new = [o EXCEPT !.ready = TRUE]
      BY <2>2
    <3> HIDE DEF new, o
    <3>2. new \in Object /\ new.pane = o.pane /\ new.shown = o.shown /\ new.ready
      BY <1>2, <3>1 DEF Object
    <3> QED BY <1>10, <3>2 DEF Shows
  <2>3. CASE cur.cb # "CB_DUMP_HISTORY" /\ ~(cur.cb = "CB_DUMP_TERM_STATE" /\ resp # <<>>)
    <3>1. new = o
      BY <2>3
    <3> HIDE DEF new, o
    <3> QED BY <1>2, <1>10, <3>1
  <2> QED BY <2>1, <2>2, <2>3
<1> HIDE DEF new
<1>12. /\ Len(objs') = Len(objs) /\ objs'[i] = new
       /\ \A j \in 1..Len(objs) : j # i => objs'[j] = objs[j]
  BY <1>0, <1>1, <1>2, <1>11
<1>13. AllShown(objs', mapPanes', h)
  <2> DEFINE os == objs'
  <2>1. /\ Len(os) = Len(objs) /\ os[i] = new
        /\ \A j \in 1..Len(objs) : j # i => os[j] = objs[j]
    BY <1>12
  <2> HIDE DEF os
  <2>2. AllShown(os, mapPanes, h)
    <3> SUFFICES ASSUME NEW j \in 1..Len(objs)
                 PROVE  Shows(os[j], mapPanes[os[j].pane] = j, h[os[j].pane])
      BY <2>1 DEF AllShown
    <3>1. CASE j = i
      BY <1>11, <2>1, <3>1
    <3>2. CASE j # i
      BY <1>9, <2>1, <3>2 DEF AllShown
    <3> QED BY <3>1, <3>2
  <2> QED BY <1>1, <2>2 DEF os
<1>14. Query(NoCmd, cmdq, toSrv, objs')
  <2> DEFINE os == objs'
  <2>1. \A d \in AskedOf(NoCmd, cmdq) : d.recv \in 1..Len(objs)
    BY <1>4 DEF Query
  <2>2. \A d \in AskedOf(NoCmd, cmdq) : d.recv \in 1..Len(os) /\ os[d.recv] = objs[d.recv]
    BY <1>4, <1>12, <2>1
  <2> HIDE DEF os
  <2>3. Query(NoCmd, cmdq, toSrv, os)
    BY <1>4, <2>2, QueryKeeps
  <2> QED BY <2>3 DEF os
<1>15. stop' # "assert-clean-slate"
  BY <1>0, <1>1, <1>6
<1>16. AskedOf(cur', cmdq') = AskedOf(NoCmd, cmdq) /\ Query(cur', cmdq', toSrv', objs')
  BY <1>1, <1>14
<1>17. Flow(g, stream', AskedOf(cur', cmdq'))
  BY <1>7, <1>16
<1>18. \A j \in 1..Len(resp') : Match(AskedOf(cur', cmdq'), resp'[j], g[0])
  BY <1>1
<1> QED BY <1>7, <1>13, <1>15, <1>16, <1>17, <1>18, PanesDone DEF h

\* A piece of output goes to the end of what a pane shows that has shown all before it.
LEMMA ShowsMore ==
  ASSUME NEW o \in Object, NEW n \in Nat, Shows(o, TRUE, n), o.ready
  PROVE  Shows([o EXCEPT !.shown = Append(@, n + 1)], TRUE, n + 1)
<1> DEFINE s == o.shown
           t == Append(s, n + 1)
           x == [o EXCEPT !.shown = Append(@, n + 1)]
<1>1. s \in Seq(Nat)
  BY ObjectFields
<1>2. /\ t \in Seq(Nat) /\ Len(t) = Len(s) + 1 /\ Len(s) \in Nat /\ t[Len(s) + 1] = n + 1
      /\ \A j \in 1..Len(s) : t[j] = s[j] /\ s[j] \in Nat
  BY <1>1
<1>3. x.shown = t /\ x.ready = o.ready
  BY DEF Object
<1>4. /\ Len(s) > 1 => s[1] < s[2]
      /\ \A j \in 2..(Len(s) - 1) : s[j + 1] = s[j] + 1
      /\ s # <<>> => s[Len(s)] <= n
      /\ Len(s) > 1 => s[Len(s)] = n
  BY DEF Shows
<1>5. s # <<>> <=> Len(s) > 0
  BY <1>1
<1> HIDE DEF s, t, x
<1>6. ASSUME Len(t) > 1 PROVE t[1] < t[2]
  <2>1. CASE Len(s) = 1
    <3>1. t[1] = s[1] /\ t[2] = n + 1 /\ s[1] <= n /\ s[1] \in Nat
      <4>1. 1 \in 1..Len(s) /\ s[1] <= n
        BY <1>4, <1>5, <2>1
      <4> QED BY <1>2, <2>1, <4>1
    <3> QED BY <3>1
  <2>2. CASE Len(s) > 1
    <3>1. t[1] = s[1] /\ t[2] = s[2]
      BY <1>2, <2>2
    <3> QED BY <1>4, <2>2, <3>1
  <2>3. Len(s) = 1 \/ Len(s) > 1
    <3> DEFINE k == Len(s)
    <3>1. k \in Nat /\ k + 1 > 1
      BY <1>2, <1>6
    <3> HIDE DEF k
    <3>2. k = 1 \/ k > 1
      BY <3>1
    <3> QED BY <3>2 DEF k
  <2> QED BY <2>1, <2>2, <2>3
<1>7. ASSUME NEW j \in 2..(Len(t) - 1) PROVE t[j + 1] = t[j] + 1
  <2>1. CASE j = Len(s)
    <3>1. t[j + 1] = n + 1 /\ t[j] = s[Len(s)] /\ s[Len(s)] = n
      BY <1>2, <1>4, <1>7, <2>1
    <3> QED BY <3>1
  <2>2. CASE j # Len(s)
    <3>1. j \in 2..(Len(s) - 1) /\ j \in 1..Len(s) /\ j + 1 \in 1..Len(s)
      BY <1>2, <1>7, <2>2
    <3> QED BY <1>2, <1>4, <3>1
  <2> QED BY <2>1, <2>2
<1>8. t[Len(t)] = n + 1 /\ n + 1 <= n + 1
  BY <1>2
<1>9. Shows(x, TRUE, n + 1)
  BY <1>3, <1>6, <1>7, <1>8 DEF Shows
<1> QED BY <1>9 DEF x

\* %output shows its piece in a pane that is ready; one that is not yet ready will find it in its history.
LEMMA OutputKeepsPanes ==
  GatewayInv /\ ChannelProofs!ChannelInv /\ PanesInv /\ Output => PanesInv'
<1> SUFFICES ASSUME GatewayInv, ChannelProofs!ChannelInv, PanesInv, Output PROVE PanesInv'
  OBVIOUS
<1>0. /\ TypeOK /\ objs \in Seq(Object) /\ Len(objs) \in Nat /\ DOMAIN objs = 1..Len(objs)
      /\ mapPanes \in [Id -> 0..Len(objs)]
      /\ Query(cur, cmdq, toSrv, objs) /\ stop # "assert-clean-slate"
  BY DEF GatewayInv, TypeOK, PanesInv
<1> DEFINE l == Head(stream)
           p == l.d.id
           i == mapPanes[p]
<1>1. /\ TakeLine /\ l.t = "note" /\ l.d.e = "output" /\ cur.id = 0
      /\ UNCHANGED <<cur, resp, mapPanes, cmdq, toSrv, stop>>
  BY DEF Output, TakeInMode, Note
<1>2. resp' = <<>>
  BY <1>1, ChannelFacts
<1>3. p \in Id
  BY <1>1, TakeEffect, LineFields
<1>4. PICK f, g : /\ Panes(f, f[0]) /\ f[0] \in Counts /\ g[0] \in Counts
                  /\ IsFlow(g, stream', outs') /\ Flow(g, stream', AskedOf(cur, cmdq))
                  /\ Counted(l, f[0], g[0])
  <2> DEFINE E == AskedOf(cur, cmdq)
  <2>1. \A d \in E : d \in AskedOf(cur, cmdq) \/ (d.id \in Nat /\ d.id > sent)
    OBVIOUS
  <2> HIDE DEF E
  <2>2. \E f, g : /\ Panes(f, f[0]) /\ f[0] \in Counts /\ g[0] \in Counts
                  /\ IsFlow(g, stream', outs') /\ Flow(g, stream', E)
                  /\ Counted(Head(stream), f[0], g[0])
                  /\ Match(AskedOf(cur, cmdq), Head(stream), g[0])
    BY <1>1, <2>1, TakePanes
  <2> QED BY <2>2 DEF E
<1> DEFINE u == f[0]
           v == g[0]
<1>5. /\ u \in [Id -> Nat] /\ v = [u EXCEPT ![p] = @ + 1] /\ l.d.pos = v[p]
      /\ AllShown(objs, mapPanes, u)
  BY <1>1, <1>4 DEF Counted, IsOutput, Panes, Counts
<1> HIDE DEF u, v
<1>6. u[p] \in Nat /\ v[p] = u[p] + 1 /\ l.d.pos = u[p] + 1 /\ \A q \in Id : q # p => v[q] = u[q]
  BY <1>3, <1>5
<1>7. ASSUME NEW j \in 1..Len(objs), j # i
      PROVE  Shows(objs[j], mapPanes[objs[j].pane] = j, v[objs[j].pane])
  <2>1. Shows(objs[j], mapPanes[objs[j].pane] = j, u[objs[j].pane])
    BY <1>5 DEF AllShown
  <2>2. objs[j] \in Object
    BY <1>0
  <2>3. objs[j].pane \in Id
    BY <2>2, ObjectFields
  <2>4. mapPanes[objs[j].pane] = j => objs[j].pane # p
    BY <1>7
  <2>5. mapPanes[objs[j].pane] = j => v[objs[j].pane] = u[objs[j].pane]
    BY <1>6, <2>3, <2>4
  <2> QED BY <2>1, <2>5 DEF Shows
<1>8. i # 0 => i \in 1..Len(objs) /\ objs[i].pane = p /\ objs[i] \in Object
  BY <1>0, <1>3 DEF TypeOK
<1>9. i # 0 => Shows(objs[i], TRUE, u[p])
  <2> SUFFICES ASSUME i # 0 PROVE Shows(objs[i], TRUE, u[p])
    OBVIOUS
  <2>1. Shows(objs[i], mapPanes[objs[i].pane] = i, u[objs[i].pane])
    BY <1>5, <1>8 DEF AllShown
  <2>2. (mapPanes[objs[i].pane] = i) = TRUE /\ objs[i].pane = p
    BY <1>8
  <2> HIDE DEF i
  <2> QED BY <2>1, <2>2 DEF Shows
<1>10. AskedOf(cur', cmdq') = AskedOf(cur, cmdq) /\ Flow(g, stream', AskedOf(cur', cmdq'))
  BY <1>1, <1>4
<1>11. \A j \in 1..Len(resp') : Match(AskedOf(cur', cmdq'), resp'[j], g[0])
  BY <1>2
<1>12. CASE i # 0 /\ objs[i].ready
  <2> DEFINE o == [objs[i] EXCEPT !.shown = Append(@, u[p] + 1)]
  <2>1. objs' = [objs EXCEPT ![i] = o]
    <3>1. objs' = [objs EXCEPT ![i].shown = Append(@, l.d.pos)]
      BY <1>12 DEF Output
    <3> QED BY <1>6, <3>1
  <2>2. Shows(o, TRUE, u[p] + 1)
    <3> DEFINE x == objs[i]
               n == u[p]
    <3>1. x \in Object /\ n \in Nat /\ Shows(x, TRUE, n) /\ x.ready
      BY <1>6, <1>8, <1>9, <1>12
    <3> HIDE DEF x, n
    <3>2. Shows([x EXCEPT !.shown = Append(@, n + 1)], TRUE, n + 1)
      BY <3>1, ShowsMore
    <3> QED BY <3>2 DEF x, n
  <2>3. o \in Object /\ o.pane = p
    <3>1. objs[i] \in Object /\ objs[i].pane = p /\ u[p] + 1 \in Nat
      BY <1>6, <1>8, <1>12
    <3>2. Append(objs[i].shown, u[p] + 1) \in Seq(Nat)
      BY <3>1, ObjectFields
    <3> QED BY <3>1, <3>2 DEF Object
  <2> HIDE DEF o
  <2> DEFINE os == objs'
  <2>4. /\ Len(os) = Len(objs) /\ os[i] = o
        /\ \A j \in 1..Len(objs) : j # i => os[j] = objs[j]
    BY <1>0, <1>8, <1>12, <2>1, <2>3
  <2>5. objs' = os
    OBVIOUS
  <2> HIDE DEF os
  <2>6. AllShown(os, mapPanes, v)
    <3> SUFFICES ASSUME NEW j \in 1..Len(objs)
                 PROVE  Shows(os[j], mapPanes[os[j].pane] = j, v[os[j].pane])
      BY <2>4 DEF AllShown
    <3>1. CASE j = i
      <4>1. os[j] = o /\ v[o.pane] = u[p] + 1
        BY <1>6, <2>3, <2>4, <3>1
      <4> QED BY <2>2, <4>1 DEF Shows
    <3>2. CASE j # i
      BY <1>7, <2>4, <3>2
    <3> QED BY <3>1, <3>2
  <2>7. Query(cur, cmdq, toSrv, os)
    <3>1. \A d \in AskedOf(cur, cmdq) : d.recv \in 1..Len(objs) /\ ~objs[d.recv].ready
      BY <1>0 DEF Query
    <3>2. \A d \in AskedOf(cur, cmdq) : d.recv \in 1..Len(os) /\ os[d.recv] = objs[d.recv]
      BY <1>12, <2>4, <3>1
    <3> QED BY <1>0, <3>2, QueryKeeps
  <2>8. AllShown(objs', mapPanes', g[0]) /\ Query(cur', cmdq', toSrv', objs')
    BY <1>1, <2>5, <2>6, <2>7 DEF v
  <2> QED BY <1>0, <1>1, <1>4, <1>10, <1>11, <2>8, PanesDone
<1>13. CASE ~(i # 0 /\ objs[i].ready)
  <2>1. objs' = objs
    BY <1>13 DEF Output
  <2>2. AllShown(objs, mapPanes, v)
    <3> SUFFICES ASSUME NEW j \in 1..Len(objs)
                 PROVE  Shows(objs[j], mapPanes[objs[j].pane] = j, v[objs[j].pane])
      BY DEF AllShown
    <3>1. CASE j = i
      <4>1. i # 0 /\ ~objs[j].ready /\ Shows(objs[j], TRUE, u[p]) /\ objs[j] \in Object /\ objs[j].pane = p
        <5>1. i # 0
          BY <3>1
        <5>2. ~objs[i].ready /\ Shows(objs[i], TRUE, u[p]) /\ objs[i] \in Object /\ objs[i].pane = p
          BY <1>8, <1>9, <1>13, <5>1
        <5> HIDE DEF i
        <5> QED BY <3>1, <5>1, <5>2
      <4>2. objs[j].shown \in Seq(Nat)
        BY <4>1, ObjectFields
      <4>3. ~(Len(objs[j].shown) > 1)
        BY <4>1 DEF Shows
      <4>4. objs[j].shown # <<>> => objs[j].shown[Len(objs[j].shown)] <= v[p]
        <5> DEFINE s == objs[j].shown
        <5>1. s # <<>> => s[Len(s)] <= u[p]
          BY <4>1 DEF Shows
        <5>2. s # <<>> => s[Len(s)] \in Nat
          <6>1. s \in Seq(Nat)
            BY <4>2
          <6> HIDE DEF s
          <6> QED BY <6>1
        <5> HIDE DEF s
        <5>3. s # <<>> => s[Len(s)] <= v[p]
          BY <1>6, <5>1, <5>2
        <5> QED BY <5>3 DEF s
      <4> QED BY <4>1, <4>3, <4>4 DEF Shows
    <3>2. CASE j # i
      BY <1>7, <3>2
    <3> QED BY <3>1, <3>2
  <2>3. AllShown(objs', mapPanes', g[0]) /\ Query(cur', cmdq', toSrv', objs')
    BY <1>0, <1>1, <2>1, <2>2 DEF v
  <2> QED BY <1>0, <1>1, <1>4, <1>10, <1>11, <2>3, PanesDone
<1> QED BY <1>12, <1>13

\* The user's steps: commands, closing and restarting windows, entering control mode again.
LEMMA UserKeepsPanes ==
  GatewayInv /\ ChannelProofs!ChannelInv /\ PanesInv /\ User => PanesInv'
<1> SUFFICES ASSUME GatewayInv, ChannelProofs!ChannelInv, PanesInv, User PROVE PanesInv'
  OBVIOUS
<1>0. /\ TypeOK /\ objs \in Seq(Object) /\ Len(objs) \in Nat /\ DOMAIN objs = 1..Len(objs)
      /\ stream \in Seq(Line) /\ resp \in Seq(Line) /\ sent \in Nat
      /\ Query(cur, cmdq, toSrv, objs) /\ stop # "assert-clean-slate"
  BY DEF GatewayInv, TypeOK, PanesInv
<1>1. PICK f : Panes(f, f[0])
  BY DEF PanesInv
<1> DEFINE D == AskedOf(cur, cmdq)
           h == f[0]
<1>2. /\ IsFlow(f, stream, outs) /\ Flow(f, stream, D)
      /\ \A i \in 1..Len(resp) : Match(D, resp[i], h)
      /\ AllShown(objs, mapPanes, h)
  BY <1>1 DEF Panes
<1>3. stop' # "assert-clean-slate" /\ UNCHANGED <<cur, resp, stream, outs>>
  BY <1>0 DEF User, UserSends, UserClosesPane, CloseGatewayWindow, RestartGatewayWindow,
              ReceiveAfterRestart, EnterAgain, gwVars, histVars, srvVars
<1>4. CASE UserSends /\ gw = "live" /\ gwWnd # "closed"
  <2> DEFINE x == Cmd(Gateway, "CB_NULL", 0)
             cs == <<x>>
  <2>1. x \in Command /\ x.cb # "CB_DUMP_HISTORY"
    BY GatewayAssumption DEF Cmd, Command, Gateway, Callbacks, Id
  <2>2. SendCommands(cs) /\ UNCHANGED <<objs, mapPanes>>
    BY <1>4 DEF UserSends
  <2> HIDE DEF x
  <2>3. cs \in Seq(Command) /\ \A i \in 1..Len(cs) : cs[i].cb # "CB_DUMP_HISTORY"
    BY <2>1
  <2> HIDE DEF cs
  <2> DEFINE E == AskedOf(cur, cmdq')
  <2>4. /\ Query(cur, cmdq', toSrv', objs)
        /\ \A d \in E : d \in D \/ (d.id \in Nat /\ d.id > sent)
    BY <2>2, <2>3, SendKeepsPanes
  <2>5. Query(cur', cmdq', toSrv', objs') /\ AskedOf(cur', cmdq') = E
    BY <1>3, <2>2, <2>4
  <2> HIDE DEF E, D, h
  <2>6. \A i \in 1..Len(stream) : stream[i].n <= sent
    BY ChannelFacts
  <2>7. Flow(f, stream, E)
    BY <1>0, <1>2, <2>4, <2>6, FlowNew
  <2>8. ASSUME NEW i \in 1..Len(resp) PROVE Match(E, resp[i], h)
    <3> DEFINE l == resp[i]
    <3>1. l \in Line /\ Match(D, l, h)
      BY <1>0, <1>2
    <3>2. l.n = cur.id /\ cur.id <= sent
      BY ChannelFacts
    <3>3. l.n \in Nat
      BY <3>1, LineFields
    <3> HIDE DEF l
    <3>4. \A d \in E : d \in D \/ (d.id \in Nat /\ d.id > l.n)
      BY <1>0, <2>4, <3>2, <3>3
    <3>5. Match(E, l, h)
      BY <3>1, <3>4, MatchNew
    <3> QED BY <3>5 DEF l
  <2>9. /\ IsFlow(f, stream', outs') /\ Flow(f, stream', AskedOf(cur', cmdq'))
        /\ \A i \in 1..Len(resp') : Match(AskedOf(cur', cmdq'), resp'[i], f[0])
        /\ AllShown(objs', mapPanes', f[0])
    BY <1>2, <1>3, <2>2, <2>5, <2>7, <2>8 DEF h
  <2> QED BY <1>3, <2>5, <2>9, PanesDone
<1>5. CASE ~(UserSends /\ gw = "live" /\ gwWnd # "closed")
  <2>1. UNCHANGED <<cmdq, toSrv>>
    BY <1>5 DEF User, UserSends, UserClosesPane, CloseGatewayWindow, RestartGatewayWindow,
                ReceiveAfterRestart, EnterAgain, gwVars
  <2>2. SameShown(objs', mapPanes')
    <3>1. CASE UNCHANGED <<objs, mapPanes>>
      BY <3>1, SameIsSame
    <3>2. CASE DeleteGateway("deleted") \/ DeleteGateway("dangling")
      BY <3>2, DeleteShows
    <3>3. CASE UserClosesPane
      <4>1. PICK i \in DOMAIN objs : objs' = [objs EXCEPT ![i].win = "user-closed"]
        BY <3>3 DEF UserClosesPane
      <4> DEFINE o == [objs[i] EXCEPT !.win = "user-closed"]
      <4>2. i \in 1..Len(objs) /\ objs[i] \in Object /\ objs' = [objs EXCEPT ![i] = o]
        BY <1>0, <4>1
      <4>3. o.pane = objs[i].pane /\ o.ready = objs[i].ready /\ o.shown = objs[i].shown /\ o \in Object
        BY <4>2 DEF Object
      <4> HIDE DEF o
      <4>4. /\ Len(objs') = Len(objs) /\ objs'[i] = o
            /\ \A j \in 1..Len(objs) : j # i => objs'[j] = objs[j]
        BY <1>0, <4>2, <4>3
      <4>5. mapPanes' = mapPanes
        BY <3>3 DEF UserClosesPane
      <4> QED BY <4>3, <4>4, <4>5 DEF SameShown
    <3> QED BY <3>1, <3>2, <3>3 DEF User, UserSends, CloseGatewayWindow, RestartGatewayWindow,
                                    ReceiveAfterRestart, EnterAgain, gwVars
  <2> DEFINE os == objs'
             mp == mapPanes'
  <2>3. SameShown(os, mp)
    BY <2>2
  <2> HIDE DEF os, mp, h
  <2>4. AllShown(os, mp, h) /\ Query(cur, cmdq, toSrv, os)
    BY <1>0, <1>2, <2>3, ShownKept, QuerySame
  <2>5. AllShown(objs', mapPanes', f[0]) /\ Query(cur', cmdq', toSrv', objs')
    BY <1>3, <2>1, <2>4 DEF os, mp, h
  <2>6. /\ IsFlow(f, stream', outs') /\ Flow(f, stream', AskedOf(cur', cmdq'))
        /\ \A i \in 1..Len(resp') : Match(AskedOf(cur', cmdq'), resp'[i], f[0])
    BY <1>2, <1>3, <2>1 DEF h
  <2> QED BY <1>3, <2>5, <2>6, PanesDone
<1> QED BY <1>4, <1>5

\* At the start nothing is shown or asked for.
LEMMA PanesInit == Init => PanesInv
<1> SUFFICES ASSUME Init PROVE PanesInv
  OBVIOUS
<1> DEFINE f == [i \in 0..2 |-> outs]
<1>1. /\ cur = NoCmd /\ cmdq = <<>> /\ toSrv = <<>> /\ objs = <<>> /\ resp = <<>> /\ stop = "no"
      /\ outs \in Counts
  BY DEF Init, Counts
<1>2. AskedOf(cur, cmdq) = {}
  BY <1>1 DEF AskedOf, NoCmd
<1>3. Query(cur, cmdq, toSrv, objs)
  BY <1>1, <1>2 DEF Query
<1> DEFINE b == [t |-> "begin", n |-> 0, k |-> 0, d |-> NoPayload]
           e == [t |-> "end", n |-> 0, k |-> 0, d |-> NoPayload]
<1>4. stream = <<b, e>> /\ ~IsOutput(b) /\ ~IsOutput(e)
  BY DEF Init, IsOutput
<1> HIDE DEF b, e
<1>5. Len(stream) = 2 /\ \A i \in 1..2 : ~IsOutput(stream[i])
  BY <1>4
<1>6. f \in [0..2 -> Counts] /\ \A i \in 0..2 : f[i] = outs
  BY <1>1
<1> HIDE DEF f
<1>7. IsFlow(f, stream, outs) /\ Flow(f, stream, AskedOf(cur, cmdq))
  BY <1>2, <1>5, <1>6 DEF IsFlow, Flow, Counted, Match
<1>8. AllShown(objs, mapPanes, f[0]) /\ \A i \in 1..Len(resp) : FALSE
  BY <1>1 DEF AllShown
<1>9. Panes(f, f[0])
  BY <1>7, <1>8 DEF Panes
<1> QED BY <1>1, <1>3, <1>9 DEF PanesInv

\* Every step of the gateway, the server and the user keeps the counts.
LEMMA PanesStep ==
  GatewayInv /\ ChannelProofs!ChannelInv /\ PanesInv /\ [Next]_vars => PanesInv'
<1> SUFFICES ASSUME GatewayInv, ChannelProofs!ChannelInv, PanesInv, [Next]_vars PROVE PanesInv'
  OBVIOUS
<1>1. CASE ParseLine
  BY <1>1, GatewayAnswerKeepsPanes, PaneAnswerKeepsPanes, CommandLinesKeepPanes,
     SendingNotesKeepPanes, OutputKeepsPanes, QuietNotesKeepPanes DEF ParseLine
<1>2. CASE UNCHANGED vars
  BY <1>2 DEF PanesInv, Panes, vars, gwVars, histVars, srvVars
<1> QED BY <1>1, <1>2, ServerKeepsPanes, UserKeepsPanes DEF Next

\* The counts of PanesInv give the order of what is shown.
LEMMA PanesOrdered == GatewayInv /\ PanesInv => OutputInOrder
<1> SUFFICES ASSUME GatewayInv, PanesInv PROVE OutputInOrder
  OBVIOUS
<1>1. TypeOK /\ DOMAIN objs = 1..Len(objs) /\ stop # "assert-clean-slate"
  BY DEF GatewayInv, TypeOK, PanesInv
<1>2. PICK f : AllShown(objs, mapPanes, f[0])
  BY DEF PanesInv, Panes
<1>3. ASSUME NEW i \in DOMAIN objs
      PROVE  /\ Len(objs[i].shown) > 1 => objs[i].shown[1] < objs[i].shown[2]
             /\ \A j \in 2..(Len(objs[i].shown) - 1) : objs[i].shown[j + 1] = objs[i].shown[j] + 1
  BY <1>1, <1>2 DEF AllShown, Shows
<1> QED BY <1>1, <1>3 DEF OutputInOrder

\* A pane shows its history on a clean slate and then every piece of output once, in
\* order and without a gap from the first, however output, answers, new windows, lost
\* windows and the user's own commands are interleaved.
THEOREM PanesShowInOrder == Spec => []OutputInOrder
<1> DEFINE Bounded == sent <= MaxSent
<1>1. Init => Bounded
  BY GatewayAssumption DEF Init
<1>2. Bounded /\ [Next]_vars => Bounded'
  BY SentStep
<1>3. GatewayInv /\ Bounded /\ ChannelProofs!ChannelInv /\ [Next]_vars => ChannelProofs!ChannelInv'
  BY ChannelKept
<1> HIDE DEF Bounded
<1> QED BY <1>1, <1>2, <1>3, ChannelStarts, PanesInit, PanesStep, PanesOrdered, GatewaySafe, PTL
        DEF Spec

=============================================================================
