-------------------------- MODULE SshChannelProofs --------------------------
(***************************************************************************)
(* Proofs about SshChannel: connection2.c and its server agree on windows, *)
(* replies and closing on every channel, whatever the number of channels,  *)
(* the sizes of the windows and the packets on their way.                  *)
(*                                                                         *)
(* The proof looks at a connection s as a record: the channels s.ch, the   *)
(* server's ends s.sv, and the packets s.u to the server and s.d to us.    *)
(* Core(s) is what holds of the queues, of each channel (HereInv,          *)
(* MeetInv) and of each end (ThereInv, PeerInv); a step concerns one       *)
(* channel and one end, and the lemmas are about these two.                *)
(***************************************************************************)
EXTENDS SshChannel, FiniteSetTheorems, SequenceTheorems, WellFoundedInduction, TLAPS

-----------------------------------------------------------------------------
(* Induction and sums.                                                     *)

\* A set with 0 and the successor of each of its numbers has every number.
LEMMA SetInduction ==
  ASSUME NEW S, 0 \in S, \A n \in Nat : n \in S => n + 1 \in S
  PROVE  Nat \subseteq S
<1> DEFINE T == Nat \ S
<1> SUFFICES ASSUME T # {} PROVE FALSE
  OBVIOUS
<1>1. PICK x \in T : \A y \in T : ~(<<y, x>> \in OpToRel(<, Nat))
  <2> HIDE DEF T
  <2>1. T \subseteq Nat
    BY DEF T
  <2> QED BY <2>1, WFMin, NatLessThanWellFounded
<1>2. x # 0 /\ x - 1 \in Nat /\ x - 1 < x
  BY DEF T
<1>3. x - 1 \notin T
  BY <1>1, <1>2 DEF OpToRel
<1>4. x \in S
  BY <1>2, <1>3
<1> QED BY <1>4

\* A nonempty set of numbers has a least one.
LEMMA LeastOf ==
  ASSUME NEW S \in SUBSET Nat, S # {}
  PROVE  Min(S) \in S
<1>1. PICK x \in S : \A y \in S : ~(<<y, x>> \in OpToRel(<, Nat))
  BY WFMin, NatLessThanWellFounded
<1>2. ASSUME NEW y \in S PROVE x <= y
  <2> SUFFICES ASSUME y < x PROVE FALSE
    OBVIOUS
  <2>1. <<y, x>> \in OpToRel(<, Nat)
    BY DEF OpToRel
  <2> QED BY <1>1, <2>1
<1> QED BY <1>1, <1>2 DEF Min

\* The partial sums of s.
IsSum(f, s) == f \in [0..Len(s) -> Nat] /\ f[0] = 0 /\ \A k \in 1..Len(s) : f[k] = f[k - 1] + s[k]

\* There are partial sums.
LEMMA SumExists ==
  ASSUME NEW s \in Seq(Nat)
  PROVE  \E f : IsSum(f, s)
<1> DEFINE Is(f, m) == f \in [0..m -> Nat] /\ f[0] = 0 /\ \A k \in 1..m : f[k] = f[k - 1] + s[k]
           n == Len(s)
           T == {m \in Nat : m <= n => \E f : Is(f, m)}
<1>0. n \in Nat /\ n = Len(s) /\ \A k \in 1..n : s[k] \in Nat
  OBVIOUS
<1> HIDE DEF n
<1>1. 0 \in T
  <2>1. Is([k \in 0..0 |-> 0], 0)
    OBVIOUS
  <2> QED BY <2>1
<1>2. ASSUME NEW m \in Nat, m \in T PROVE m + 1 \in T
  <2> SUFFICES ASSUME m + 1 <= n PROVE \E f : Is(f, m + 1)
    <3> HIDE DEF Is
    <3> QED OBVIOUS
  <2>1. PICK f : Is(f, m)
    <3>1. m <= n
      BY <1>0
    <3> QED BY <1>2, <3>1
  <2> DEFINE g == [k \in 0..(m + 1) |-> IF k = m + 1 THEN f[m] + s[m + 1] ELSE f[k]]
  <2>2. m + 1 \in 1..n /\ s[m + 1] \in Nat /\ f[m] \in Nat
    BY <1>0, <2>1
  <2>3. g \in [0..(m + 1) -> Nat]
    <3>1. \A k \in 0..(m + 1) : k # m + 1 => k \in 0..m
      OBVIOUS
    <3> QED BY <2>1, <2>2, <3>1
  <2>4. g[0] = 0
    BY <2>1
  <2>5. ASSUME NEW k \in 1..(m + 1) PROVE g[k] = g[k - 1] + s[k]
    <3>1. k - 1 \in 0..m /\ g[k - 1] = f[k - 1]
      OBVIOUS
    <3>2. CASE k = m + 1
      <4>1. g[k] = f[m] + s[k] /\ k - 1 = m
        BY <3>2
      <4> QED BY <3>1, <4>1
    <3>3. CASE k # m + 1
      <4>1. k \in 1..m /\ g[k] = f[k]
        BY <3>3
      <4> HIDE DEF g
      <4> QED BY <2>1, <3>1, <4>1
    <3> QED BY <3>2, <3>3
  <2> HIDE DEF g
  <2> QED BY <2>3, <2>4, <2>5
<1>3. Nat \subseteq T
  <2> HIDE DEF T
  <2> QED BY <1>1, <1>2, SetInduction
<1>4. n \in T
  <2> HIDE DEF T
  <2> QED BY <1>0, <1>3
<1> QED BY <1>0, <1>4 DEF IsSum

\* There is one way only to sum up.
LEMMA SumUnique ==
  ASSUME NEW s \in Seq(Nat), NEW f, NEW g, IsSum(f, s), IsSum(g, s)
  PROVE  f[Len(s)] = g[Len(s)]
<1> DEFINE T == {m \in Nat : m <= Len(s) => f[m] = g[m]}
<1>1. 0 \in T
  BY DEF IsSum
<1>2. ASSUME NEW m \in Nat, m \in T PROVE m + 1 \in T
  <2> SUFFICES ASSUME m + 1 <= Len(s) PROVE f[m + 1] = g[m + 1]
    OBVIOUS
  <2>1. m + 1 \in 1..Len(s) /\ (m + 1) - 1 = m /\ f[m] = g[m]
    BY <1>2
  <2> QED BY <2>1 DEF IsSum
<1>3. Nat \subseteq T
  <2> HIDE DEF T
  <2> QED BY <1>1, <1>2, SetInduction
<1>4. Len(s) \in T
  <2> HIDE DEF T
  <2> QED BY <1>3
<1> QED BY <1>4

\* The total is the last partial sum.
LEMMA TotalIs ==
  ASSUME NEW s \in Seq(Nat), NEW f, IsSum(f, s)
  PROVE  Total(s) = f[Len(s)] /\ Total(s) \in Nat
<1> DEFINE Is(h) == h = [k \in 0..Len(s) |-> IF k = 0 THEN 0 ELSE h[k - 1] + s[k]]
           g == CHOOSE h : Is(h)
<1>1. Total(s) = g[Len(s)]
  BY DEF Total
<1>2. Is(f)
  <2>1. \A k \in 0..Len(s) : k # 0 => k \in 1..Len(s)
    OBVIOUS
  <2> QED BY <2>1 DEF IsSum
<1>3. Is(g)
  <2> HIDE DEF Is
  <2> QED BY <1>2
<1>4. IsSum(g, s)
  <2> HIDE DEF g
  <2>1. g[0] = 0 /\ \A k \in 1..Len(s) : g[k] = g[k - 1] + s[k]
    BY <1>3
  <2>2. g = [k \in 0..Len(s) |-> g[k]]
    BY <1>3
  <2>3. \A k \in 0..Len(s) : g[k] \in Nat
    <3> DEFINE T == {m \in Nat : m <= Len(s) => g[m] \in Nat}
    <3>1. 0 \in T
      BY <2>1
    <3>2. ASSUME NEW m \in Nat, m \in T PROVE m + 1 \in T
      <4> SUFFICES ASSUME m + 1 <= Len(s) PROVE g[m + 1] \in Nat
        OBVIOUS
      <4>1. m + 1 \in 1..Len(s) /\ (m + 1) - 1 = m /\ g[m] \in Nat
        BY <3>2
      <4> QED BY <2>1, <4>1
    <3>3. Nat \subseteq T
      <4> HIDE DEF T
      <4> QED BY <3>1, <3>2, SetInduction
    <3> QED BY <3>3
  <2> QED BY <2>1, <2>2, <2>3 DEF IsSum
<1> HIDE DEF g
<1>5. f[Len(s)] = g[Len(s)]
  BY <1>4, SumUnique
<1>6. f[Len(s)] \in Nat
  BY DEF IsSum
<1> QED BY <1>1, <1>5, <1>6

\* The total of numbers is a number, of zeros zero.
LEMMA TotalProps ==
  ASSUME NEW s \in Seq(Nat)
  PROVE  /\ Total(s) \in Nat
         /\ (\A k \in 1..Len(s) : s[k] = 0) => Total(s) = 0
<1>1. Total(s) \in Nat
  BY SumExists, TotalIs
<1>2. ASSUME \A k \in 1..Len(s) : s[k] = 0 PROVE Total(s) = 0
  <2> DEFINE f == [k \in 0..Len(s) |-> 0]
  <2>1. IsSum(f, s) /\ f[Len(s)] = 0
    BY <1>2 DEF IsSum
  <2> HIDE DEF f
  <2> QED BY <2>1, TotalIs
<1> QED BY <1>1, <1>2

\* Appending a number adds it to the total.
LEMMA TotalAppend ==
  ASSUME NEW s \in Seq(Nat), NEW x \in Nat
  PROVE  Total(Append(s, x)) = Total(s) + x
<1> DEFINE t == Append(s, x)
<1>1. /\ t \in Seq(Nat) /\ Len(t) = Len(s) + 1 /\ Len(s) \in Nat /\ t[Len(s) + 1] = x
      /\ \A k \in 1..Len(s) : t[k] = s[k]
  OBVIOUS
<1> HIDE DEF t
<1>2. PICK f : IsSum(f, t)
  BY <1>1, SumExists
<1> DEFINE g == [k \in 0..Len(s) |-> f[k]]
<1>3. IsSum(g, s) /\ g[Len(s)] = f[Len(s)] /\ f[Len(s)] \in Nat
  BY <1>1, <1>2 DEF IsSum
<1>4. f[Len(s) + 1] = f[Len(s)] + x
  <2>1. Len(s) + 1 \in 1..Len(t) /\ (Len(s) + 1) - 1 = Len(s)
    BY <1>1
  <2> QED BY <1>1, <1>2, <2>1 DEF IsSum
<1> HIDE DEF g
<1>5. Total(t) = f[Len(t)] /\ Total(s) = g[Len(s)]
  BY <1>1, <1>2, <1>3, TotalIs
<1>6. Total(t) = Total(s) + x
  BY <1>1, <1>3, <1>4, <1>5
<1> QED BY <1>6 DEF t

\* The total is the head and the total of the tail.
LEMMA TotalTail ==
  ASSUME NEW s \in Seq(Nat), s # <<>>
  PROVE  /\ Total(s) = Head(s) + Total(Tail(s)) /\ Total(Tail(s)) \in Nat
<1> DEFINE t == Tail(s)
           x == Head(s)
<1>1. /\ t \in Seq(Nat) /\ Len(t) = Len(s) - 1 /\ Len(s) \in Nat \ {0} /\ x = s[1] /\ x \in Nat
      /\ \A k \in 1..Len(t) : t[k] = s[k + 1]
  OBVIOUS
<1> HIDE DEF t, x
<1>2. PICK f : IsSum(f, s)
  BY SumExists
<1>3. f[1] = x
  <2>1. 1 \in 1..Len(s) /\ 1 - 1 = 0
    BY <1>1
  <2> QED BY <1>1, <1>2, <2>1 DEF IsSum
<1>4. PICK g : IsSum(g, t)
  BY <1>1, SumExists
<1> DEFINE h == [k \in 0..Len(s) |-> IF k = 0 THEN 0 ELSE x + g[k - 1]]
<1>5. IsSum(h, s)
  <2>1. \A k \in 0..Len(s) : k # 0 => k - 1 \in 0..Len(t)
    BY <1>1
  <2>2. h \in [0..Len(s) -> Nat] /\ h[0] = 0
    BY <1>1, <1>4, <2>1 DEF IsSum
  <2>3. ASSUME NEW k \in 1..Len(s) PROVE h[k] = h[k - 1] + s[k]
    <3>1. CASE k = 1
      <4>1. h[k] = x + g[0] /\ h[k - 1] = 0 /\ g[0] = 0
        BY <1>1, <1>4, <3>1 DEF IsSum
      <4> QED BY <1>1, <3>1, <4>1
    <3>2. CASE k # 1
      <4>1. h[k] = x + g[k - 1] /\ h[k - 1] = x + g[(k - 1) - 1]
        BY <3>2
      <4>2. k - 1 \in 1..Len(t) /\ (k - 1) + 1 = k
        BY <1>1, <3>2
      <4>3. t[k - 1] = s[k] /\ g[k - 1] = g[(k - 1) - 1] + t[k - 1]
        BY <1>1, <1>4, <4>2 DEF IsSum
      <4>4. g[k - 1] \in Nat /\ g[(k - 1) - 1] \in Nat /\ t[k - 1] \in Nat
        <5>1. k - 1 \in 0..Len(t) /\ (k - 1) - 1 \in 0..Len(t)
          BY <1>1, <4>2
        <5>2. \A j \in 0..Len(t) : g[j] \in Nat
          BY <1>4 DEF IsSum
        <5>3. t[k - 1] \in Nat
          BY <1>1, <4>2
        <5> QED BY <5>1, <5>2, <5>3
      <4> HIDE DEF h
      <4> QED BY <1>1, <4>1, <4>3, <4>4
    <3> QED BY <3>1, <3>2
  <2> HIDE DEF h
  <2> QED BY <2>2, <2>3 DEF IsSum
<1>6. h[Len(s)] = x + g[Len(t)]
  BY <1>1
<1> HIDE DEF h
<1>7. Total(s) = h[Len(s)] /\ Total(t) = g[Len(t)] /\ Total(t) \in Nat
  BY <1>1, <1>4, <1>5, TotalIs
<1>8. Total(s) = x + Total(t) /\ Total(t) \in Nat
  BY <1>6, <1>7
<1> QED BY <1>8 DEF t, x

-----------------------------------------------------------------------------
(* Packets under way.                                                      *)

\* The packets.
Requests == {"pty", "cmd", "fallback", "winadj", "window-change", "keepalive"}
PacketTypes == {"OPEN", "CONFIRM", "OPENFAIL", "DATA", "ADJUST", "REQ", "RESP", "EOF", "CLOSE"}
Packets == {m \in [type : PacketTypes, id : Ids,
                   arg : Nat \cup BOOLEAN \cup Requests \cup (Ids \X Nat)] :
              /\ m.type \in {"DATA", "ADJUST", "EOF"} => m.arg \in Nat
              /\ m.type = "RESP" => m.arg \in BOOLEAN}

\* The packets of queue q with what w weighs them.
Weigh(q, w) == [k \in 1..Len(q) |-> w[q[k]]]

\* Units of data and of window under way to end id, the answers and the requests to be
\* answered, and the channels being opened.
Dat(q, id) == InFlight(q, "DATA", id)
Adj(q, id) == InFlight(q, "ADJUST", id)
Rsp(q, id) == Total([k \in 1..Len(q) |-> IF q[k].type = "RESP" /\ q[k].id = id THEN 1 ELSE 0])
Rqs(q, id) ==
  Total([k \in 1..Len(q) |->
           IF q[k].type = "REQ" /\ q[k].id = id /\ q[k].arg # "window-change" THEN 1 ELSE 0])
Opn(q) == Total([k \in 1..Len(q) |-> IF q[k].type = "OPEN" THEN 1 ELSE 0])

\* A packet of type t for end id; such a packet with argument a; any packet for end id
\* (OPEN has the id of its sender).
Has(q, t, id) == \E k \in 1..Len(q) : q[k].type = t /\ q[k].id = id
Carries(q, t, id, a) == \E k \in 1..Len(q) : q[k].type = t /\ q[k].id = id /\ q[k].arg = a
About(q, id) == \E k \in 1..Len(q) : q[k].type # "OPEN" /\ q[k].id = id

\* The first packet to an end is the answer to its OPEN, if it sent one, the last is CLOSE.
Ord(q) == \A k \in 1..Len(q) : \A j \in 1..(k - 1) : q[j].id = q[k].id =>
  /\ ~(q[j].type = "OPEN" /\ q[k].type = "OPEN")
  /\ q[j].type # "OPEN" /\ q[k].type # "OPEN" =>
       q[j].type \notin {"CLOSE", "OPENFAIL"} /\ q[k].type \notin {"CONFIRM", "OPENFAIL"}

\* No data follows EOF.
EofLast(q) == \A k \in 1..Len(q) : \A j \in 1..(k - 1) :
  q[j].id = q[k].id /\ q[j].type = "EOF" => q[k].type \notin {"DATA", "EOF"}

\* The fields of a packet.
LEMMA PacketFields ==
  \A m \in Packets :
    /\ m.type \in PacketTypes /\ m.id \in Ids
    /\ m.type \in {"DATA", "ADJUST", "EOF"} => m.arg \in Nat
    /\ m.type = "RESP" => m.arg \in BOOLEAN
BY DEF Packets

\* A packet that is appended adds its weight.
LEMMA WeighAppend ==
  ASSUME NEW w \in [Packets -> Nat], NEW q \in Seq(Packets), NEW m \in Packets
  PROVE  Total(Weigh(Append(q, m), w)) = Total(Weigh(q, w)) + w[m]
<1> DEFINE s == Weigh(q, w)
           t == Weigh(Append(q, m), w)
<1>1. s \in Seq(Nat) /\ Len(s) = Len(q) /\ Len(q) \in Nat /\ \A k \in 1..Len(q) : s[k] = w[q[k]]
  BY DEF Weigh
<1>2. /\ Len(Append(q, m)) = Len(q) + 1 /\ Append(q, m)[Len(q) + 1] = m
      /\ \A k \in 1..Len(q) : Append(q, m)[k] = q[k]
  OBVIOUS
<1>3. t \in Seq(Nat) /\ Len(t) = Len(q) + 1 /\ t[Len(q) + 1] = w[m] /\ \A k \in 1..Len(q) : t[k] = s[k]
  <2>1. Append(q, m) \in Seq(Packets)
    OBVIOUS
  <2> QED BY <1>1, <1>2, <2>1 DEF Weigh
<1> HIDE DEF s, t
<1>4. t = Append(s, w[m])
  <2>1. w[m] \in Nat
    OBVIOUS
  <2> DEFINE z == Append(s, w[m])
  <2>2. z \in Seq(Nat) /\ Len(z) = Len(s) + 1 /\ z[Len(s) + 1] = w[m] /\ \A k \in 1..Len(s) : z[k] = s[k]
    BY <1>1, <2>1
  <2> HIDE DEF z
  <2>3. Len(z) = Len(t) /\ \A k \in 1..Len(t) : t[k] = z[k]
    <3>1. \A k \in 1..(Len(q) + 1) : k = Len(q) + 1 \/ k \in 1..Len(q)
      BY <1>1
    <3> QED BY <1>1, <1>3, <2>2, <3>1
  <2>4. t = z
    BY <1>3, <2>2, <2>3, SeqEqual
  <2> QED BY <2>4 DEF z
<1>5. w[m] \in Nat
  OBVIOUS
<1>6. Total(t) = Total(s) + w[m]
  BY <1>1, <1>4, <1>5, TotalAppend
<1> QED BY <1>6 DEF s, t

\* Taking the first packet takes its weight away.
LEMMA WeighTail ==
  ASSUME NEW w \in [Packets -> Nat], NEW q \in Seq(Packets), q # <<>>
  PROVE  Total(Weigh(q, w)) = w[Head(q)] + Total(Weigh(Tail(q), w))
<1> DEFINE s == Weigh(q, w)
           t == Weigh(Tail(q), w)
<1>1. s \in Seq(Nat) /\ Len(s) = Len(q) /\ Len(q) \in Nat \ {0} /\ \A k \in 1..Len(q) : s[k] = w[q[k]]
  BY DEF Weigh
<1>2. /\ Len(Tail(q)) = Len(q) - 1 /\ Head(q) = q[1] /\ Tail(q) \in Seq(Packets)
      /\ \A k \in 1..(Len(q) - 1) : Tail(q)[k] = q[k + 1]
  OBVIOUS
<1>3. t \in Seq(Nat) /\ Len(t) = Len(q) - 1 /\ \A k \in 1..(Len(q) - 1) : t[k] = w[q[k + 1]]
  BY <1>1, <1>2 DEF Weigh
<1>4. \A k \in 1..(Len(q) - 1) : t[k] = s[k + 1]
  BY <1>1, <1>3
<1> HIDE DEF s, t
<1>5. t = Tail(s) /\ s # <<>> /\ Head(s) = w[Head(q)]
  <2>1. s # <<>> /\ Head(s) = s[1] /\ s[1] = w[q[1]]
    BY <1>1
  <2> DEFINE z == Tail(s)
  <2>2. z \in Seq(Nat) /\ Len(z) = Len(s) - 1 /\ \A k \in 1..(Len(s) - 1) : z[k] = s[k + 1]
    BY <1>1, <2>1
  <2> HIDE DEF z
  <2>3. Len(t) = Len(z) /\ \A k \in 1..Len(t) : t[k] = z[k]
    BY <1>1, <1>3, <1>4, <2>2
  <2>4. t = z
    BY <1>3, <2>2, <2>3, SeqEqual
  <2> QED BY <1>2, <2>1, <2>4 DEF z
<1>6. Total(s) = Head(s) + Total(Tail(s))
  BY <1>1, <1>5, TotalTail
<1>7. Total(s) = w[Head(q)] + Total(t)
  BY <1>5, <1>6
<1> QED BY <1>7 DEF s, t

\* A weight is a number, and 0 when no packet of the queue has any.
LEMMA WeighProps ==
  ASSUME NEW w \in [Packets -> Nat], NEW q \in Seq(Packets)
  PROVE  /\ Total(Weigh(q, w)) \in Nat
         /\ (\A k \in 1..Len(q) : w[q[k]] = 0) => Total(Weigh(q, w)) = 0
<1> DEFINE s == Weigh(q, w)
<1>1. s \in Seq(Nat) /\ Len(s) = Len(q) /\ \A k \in 1..Len(q) : s[k] = w[q[k]]
  BY DEF Weigh
<1> HIDE DEF s
<1>2. Total(s) \in Nat /\ ((\A k \in 1..Len(s) : s[k] = 0) => Total(s) = 0)
  BY <1>1, TotalProps
<1>3. Total(s) \in Nat /\ ((\A k \in 1..Len(q) : w[q[k]] = 0) => Total(s) = 0)
  BY <1>1, <1>2
<1> QED BY <1>3 DEF s

\* What a packet weighs in each sum.
WDat(id) == [m \in Packets |-> IF m.type = "DATA" /\ m.id = id THEN m.arg ELSE 0]
WAdj(id) == [m \in Packets |-> IF m.type = "ADJUST" /\ m.id = id THEN m.arg ELSE 0]
WRsp(id) == [m \in Packets |-> IF m.type = "RESP" /\ m.id = id THEN 1 ELSE 0]
WRqs(id) == [m \in Packets |-> IF m.type = "REQ" /\ m.id = id /\ m.arg # "window-change" THEN 1 ELSE 0]
WOpn == [m \in Packets |-> IF m.type = "OPEN" THEN 1 ELSE 0]

\* The weights that count bytes, window, replies, requests and OPENs.
LEMMA Weights ==
  ASSUME NEW id
  PROVE  /\ WDat(id) \in [Packets -> Nat] /\ WAdj(id) \in [Packets -> Nat]
         /\ WRsp(id) \in [Packets -> Nat] /\ WRqs(id) \in [Packets -> Nat]
         /\ WOpn \in [Packets -> Nat]
BY PacketFields DEF WDat, WAdj, WRsp, WRqs, WOpn

\* What the invariant says of a queue are its totals under these weights.
LEMMA SumsAreWeighed ==
  ASSUME NEW q \in Seq(Packets), NEW id
  PROVE  /\ Dat(q, id) = Total(Weigh(q, WDat(id))) /\ Adj(q, id) = Total(Weigh(q, WAdj(id)))
         /\ Rsp(q, id) = Total(Weigh(q, WRsp(id))) /\ Rqs(q, id) = Total(Weigh(q, WRqs(id)))
         /\ Opn(q) = Total(Weigh(q, WOpn))
<1>0. \A k \in 1..Len(q) : q[k] \in Packets
  OBVIOUS
<1>1. Weigh(q, WDat(id)) = [k \in 1..Len(q) |-> IF q[k].type = "DATA" /\ q[k].id = id THEN q[k].arg ELSE 0]
  BY <1>0 DEF Weigh, WDat
<1>2. Weigh(q, WAdj(id)) = [k \in 1..Len(q) |-> IF q[k].type = "ADJUST" /\ q[k].id = id THEN q[k].arg ELSE 0]
  BY <1>0 DEF Weigh, WAdj
<1>3. Weigh(q, WRsp(id)) = [k \in 1..Len(q) |-> IF q[k].type = "RESP" /\ q[k].id = id THEN 1 ELSE 0]
  BY <1>0 DEF Weigh, WRsp
<1>4. Weigh(q, WRqs(id)) =
        [k \in 1..Len(q) |->
           IF q[k].type = "REQ" /\ q[k].id = id /\ q[k].arg # "window-change" THEN 1 ELSE 0]
  BY <1>0 DEF Weigh, WRqs
<1>5. Weigh(q, WOpn) = [k \in 1..Len(q) |-> IF q[k].type = "OPEN" THEN 1 ELSE 0]
  BY <1>0 DEF Weigh, WOpn
<1> QED BY <1>1, <1>2, <1>3, <1>4, <1>5 DEF Dat, Adj, Rsp, Rqs, Opn, InFlight

-----------------------------------------------------------------------------
(* A queue and one packet more.                                            *)

\* What is seen of queue v is what is seen of q, and packet m.
Plus(v, q, m) ==
  /\ \A id : /\ Dat(v, id) = Dat(q, id) + (IF m.type = "DATA" /\ m.id = id THEN m.arg ELSE 0)
             /\ Adj(v, id) = Adj(q, id) + (IF m.type = "ADJUST" /\ m.id = id THEN m.arg ELSE 0)
             /\ Rsp(v, id) = Rsp(q, id) + (IF m.type = "RESP" /\ m.id = id THEN 1 ELSE 0)
             /\ Rqs(v, id) = Rqs(q, id) +
                  (IF m.type = "REQ" /\ m.id = id /\ m.arg # "window-change" THEN 1 ELSE 0)
             /\ About(v, id) <=> About(q, id) \/ (m.type # "OPEN" /\ m.id = id)
  /\ \A t, id : Has(v, t, id) <=> Has(q, t, id) \/ (m.type = t /\ m.id = id)
  /\ \A t, id, a : Carries(v, t, id, a) <=> Carries(q, t, id, a) \/ (m.type = t /\ m.id = id /\ m.arg = a)
  /\ Opn(v) = Opn(q) + (IF m.type = "OPEN" THEN 1 ELSE 0)

\* A packet appended to a queue is one more packet in it.
LEMMA AppendPlus ==
  ASSUME NEW q \in Seq(Packets), NEW m \in Packets
  PROVE  Append(q, m) \in Seq(Packets) /\ Plus(Append(q, m), q, m)
<1> DEFINE v == Append(q, m)
<1>1. v \in Seq(Packets)
  OBVIOUS
<1>2. /\ Len(q) \in Nat /\ Len(v) = Len(q) + 1 /\ v[Len(q) + 1] = m
      /\ \A k \in 1..Len(q) : v[k] = q[k]
  OBVIOUS
<1>3. \A w \in [Packets -> Nat] : Total(Weigh(v, w)) = Total(Weigh(q, w)) + w[m]
  BY WeighAppend
<1> HIDE DEF v
<1> DEFINE n == Len(q)
<1>4. n \in Nat /\ Len(v) = n + 1 /\ v[n + 1] = m /\ \A k \in 1..n : v[k] = q[k]
  BY <1>2
<1>5. \A k \in 1..(n + 1) : k = n + 1 \/ k \in 1..n
  BY <1>4
<1>6. n + 1 \in 1..(n + 1) /\ \A k \in 1..n : k \in 1..(n + 1)
  BY <1>4
<1>7. ASSUME NEW id
      PROVE  /\ Dat(v, id) = Dat(q, id) + WDat(id)[m] /\ Adj(v, id) = Adj(q, id) + WAdj(id)[m]
             /\ Rsp(v, id) = Rsp(q, id) + WRsp(id)[m] /\ Rqs(v, id) = Rqs(q, id) + WRqs(id)[m]
             /\ Opn(v) = Opn(q) + WOpn[m]
  <2>1. /\ WDat(id) \in [Packets -> Nat] /\ WAdj(id) \in [Packets -> Nat]
        /\ WRsp(id) \in [Packets -> Nat] /\ WRqs(id) \in [Packets -> Nat]
        /\ WOpn \in [Packets -> Nat]
    BY Weights
  <2>2. /\ Total(Weigh(v, WDat(id))) = Total(Weigh(q, WDat(id))) + WDat(id)[m]
        /\ Total(Weigh(v, WAdj(id))) = Total(Weigh(q, WAdj(id))) + WAdj(id)[m]
        /\ Total(Weigh(v, WRsp(id))) = Total(Weigh(q, WRsp(id))) + WRsp(id)[m]
        /\ Total(Weigh(v, WRqs(id))) = Total(Weigh(q, WRqs(id))) + WRqs(id)[m]
        /\ Total(Weigh(v, WOpn)) = Total(Weigh(q, WOpn)) + WOpn[m]
    BY <1>3, <2>1
  <2>3. /\ Dat(q, id) = Total(Weigh(q, WDat(id))) /\ Adj(q, id) = Total(Weigh(q, WAdj(id)))
        /\ Rsp(q, id) = Total(Weigh(q, WRsp(id))) /\ Rqs(q, id) = Total(Weigh(q, WRqs(id)))
        /\ Opn(q) = Total(Weigh(q, WOpn))
    BY SumsAreWeighed
  <2>4. /\ Dat(v, id) = Total(Weigh(v, WDat(id))) /\ Adj(v, id) = Total(Weigh(v, WAdj(id)))
        /\ Rsp(v, id) = Total(Weigh(v, WRsp(id))) /\ Rqs(v, id) = Total(Weigh(v, WRqs(id)))
        /\ Opn(v) = Total(Weigh(v, WOpn))
    BY <1>1, SumsAreWeighed
  <2> QED BY <2>2, <2>3, <2>4
<1>8. \A t, id : Has(v, t, id) <=> Has(q, t, id) \/ (m.type = t /\ m.id = id)
  BY <1>4, <1>5, <1>6 DEF Has
<1>9. \A t, id, a : Carries(v, t, id, a) <=> Carries(q, t, id, a) \/ (m.type = t /\ m.id = id /\ m.arg = a)
  BY <1>4, <1>5, <1>6 DEF Carries
<1>10. \A id : About(v, id) <=> About(q, id) \/ (m.type # "OPEN" /\ m.id = id)
  BY <1>4, <1>5, <1>6 DEF About
<1>11. Plus(v, q, m)
  BY <1>7, <1>8, <1>9, <1>10 DEF Plus, WDat, WAdj, WRsp, WRqs, WOpn
<1> QED BY <1>1, <1>11 DEF v

\* The queue is its tail and one more packet, the head.
LEMMA TailPlus ==
  ASSUME NEW q \in Seq(Packets), q # <<>>
  PROVE  Head(q) \in Packets /\ Tail(q) \in Seq(Packets) /\ Plus(q, Tail(q), Head(q))
<1> DEFINE v == Tail(q)
           m == Head(q)
<1>1. v \in Seq(Packets) /\ m \in Packets
  OBVIOUS
<1>2. /\ Len(q) \in Nat \ {0} /\ Len(v) = Len(q) - 1 /\ m = q[1]
      /\ \A k \in 1..(Len(q) - 1) : v[k] = q[k + 1]
  OBVIOUS
<1>3. \A w \in [Packets -> Nat] : Total(Weigh(q, w)) = w[m] + Total(Weigh(v, w))
  BY WeighTail
<1>3a. \A w \in [Packets -> Nat] : w[m] \in Nat /\ Total(Weigh(v, w)) \in Nat
  BY <1>1, WeighProps
<1> HIDE DEF v, m
<1> DEFINE n == Len(v)
<1>4. n \in Nat /\ Len(q) = n + 1 /\ q[1] = m /\ \A k \in 1..n : v[k] = q[k + 1]
  BY <1>1, <1>2
<1>5. \A k \in 1..(n + 1) : k = 1 \/ (k - 1 \in 1..n /\ (k - 1) + 1 = k)
  BY <1>4
<1>6. 1 \in 1..(n + 1) /\ \A k \in 1..n : k + 1 \in 1..(n + 1)
  BY <1>4
<1>6a. \A k \in 1..Len(q) : q[k] = m \/ \E j \in 1..n : q[k] = v[j]
  <2> TAKE k \in 1..Len(q)
  <2>1. CASE k = 1
    BY <1>4, <2>1
  <2>2. CASE k - 1 \in 1..n /\ (k - 1) + 1 = k
    <3>1. v[k - 1] = q[(k - 1) + 1]
      BY <1>4, <2>2
    <3> QED BY <2>2, <3>1
  <2> QED BY <1>4, <1>5, <2>1, <2>2
<1>6b. (\E k \in 1..Len(q) : q[k] = m) /\ \A j \in 1..n : \E k \in 1..Len(q) : q[k] = v[j]
  BY <1>4, <1>6
<1>7. ASSUME NEW id
      PROVE  /\ Dat(q, id) = Dat(v, id) + WDat(id)[m] /\ Adj(q, id) = Adj(v, id) + WAdj(id)[m]
             /\ Rsp(q, id) = Rsp(v, id) + WRsp(id)[m] /\ Rqs(q, id) = Rqs(v, id) + WRqs(id)[m]
             /\ Opn(q) = Opn(v) + WOpn[m]
  <2>1. /\ WDat(id) \in [Packets -> Nat] /\ WAdj(id) \in [Packets -> Nat]
        /\ WRsp(id) \in [Packets -> Nat] /\ WRqs(id) \in [Packets -> Nat]
        /\ WOpn \in [Packets -> Nat]
    BY Weights
  <2>2. \A w \in [Packets -> Nat] : Total(Weigh(q, w)) = Total(Weigh(v, w)) + w[m]
    BY <1>3, <1>3a
  <2>3. /\ Total(Weigh(q, WDat(id))) = Total(Weigh(v, WDat(id))) + WDat(id)[m]
        /\ Total(Weigh(q, WAdj(id))) = Total(Weigh(v, WAdj(id))) + WAdj(id)[m]
        /\ Total(Weigh(q, WRsp(id))) = Total(Weigh(v, WRsp(id))) + WRsp(id)[m]
        /\ Total(Weigh(q, WRqs(id))) = Total(Weigh(v, WRqs(id))) + WRqs(id)[m]
        /\ Total(Weigh(q, WOpn)) = Total(Weigh(v, WOpn)) + WOpn[m]
    BY <2>1, <2>2
  <2>4. /\ Dat(q, id) = Total(Weigh(q, WDat(id))) /\ Adj(q, id) = Total(Weigh(q, WAdj(id)))
        /\ Rsp(q, id) = Total(Weigh(q, WRsp(id))) /\ Rqs(q, id) = Total(Weigh(q, WRqs(id)))
        /\ Opn(q) = Total(Weigh(q, WOpn))
    BY SumsAreWeighed
  <2>5. /\ Dat(v, id) = Total(Weigh(v, WDat(id))) /\ Adj(v, id) = Total(Weigh(v, WAdj(id)))
        /\ Rsp(v, id) = Total(Weigh(v, WRsp(id))) /\ Rqs(v, id) = Total(Weigh(v, WRqs(id)))
        /\ Opn(v) = Total(Weigh(v, WOpn))
    BY <1>1, SumsAreWeighed
  <2> QED BY <2>3, <2>4, <2>5
<1>8. \A t, id : Has(q, t, id) <=> Has(v, t, id) \/ (m.type = t /\ m.id = id)
  BY <1>6a, <1>6b DEF Has
<1>9. \A t, id, a : Carries(q, t, id, a) <=> Carries(v, t, id, a) \/ (m.type = t /\ m.id = id /\ m.arg = a)
  <2> TAKE t, id, a
  <2>1. Carries(q, t, id, a) => Carries(v, t, id, a) \/ (m.type = t /\ m.id = id /\ m.arg = a)
    BY <1>6a DEF Carries
  <2>2. Carries(v, t, id, a) \/ (m.type = t /\ m.id = id /\ m.arg = a) => Carries(q, t, id, a)
    BY <1>6b DEF Carries
  <2> QED BY <2>1, <2>2
<1>10. \A id : About(q, id) <=> About(v, id) \/ (m.type # "OPEN" /\ m.id = id)
  BY <1>6a, <1>6b DEF About
<1>11. Plus(q, v, m)
  BY <1>1, <1>7, <1>8, <1>9, <1>10 DEF Plus, WDat, WAdj, WRsp, WRqs, WOpn
<1> QED BY <1>1, <1>11 DEF v, m

\* The sums are natural numbers, and positive only if there is such a packet.
LEMMA Sums ==
  ASSUME NEW q \in Seq(Packets), NEW id
  PROVE  /\ Dat(q, id) \in Nat /\ Adj(q, id) \in Nat /\ Rsp(q, id) \in Nat /\ Rqs(q, id) \in Nat
         /\ Opn(q) \in Nat
         /\ ~Has(q, "DATA", id) => Dat(q, id) = 0
         /\ ~Has(q, "ADJUST", id) => Adj(q, id) = 0
         /\ ~Has(q, "RESP", id) => Rsp(q, id) = 0
         /\ ~Has(q, "REQ", id) => Rqs(q, id) = 0
<1>1. /\ WDat(id) \in [Packets -> Nat] /\ WAdj(id) \in [Packets -> Nat]
      /\ WRsp(id) \in [Packets -> Nat] /\ WRqs(id) \in [Packets -> Nat]
      /\ WOpn \in [Packets -> Nat]
  BY Weights
<1>2. /\ Dat(q, id) = Total(Weigh(q, WDat(id))) /\ Adj(q, id) = Total(Weigh(q, WAdj(id)))
      /\ Rsp(q, id) = Total(Weigh(q, WRsp(id))) /\ Rqs(q, id) = Total(Weigh(q, WRqs(id)))
      /\ Opn(q) = Total(Weigh(q, WOpn))
  BY SumsAreWeighed
<1>3. \A w \in [Packets -> Nat] :
        /\ Total(Weigh(q, w)) \in Nat
        /\ (\A k \in 1..Len(q) : w[q[k]] = 0) => Total(Weigh(q, w)) = 0
  BY WeighProps
<1>4. \A k \in 1..Len(q) : q[k] \in Packets
  OBVIOUS
<1>5. Dat(q, id) \in Nat /\ Adj(q, id) \in Nat /\ Rsp(q, id) \in Nat /\ Rqs(q, id) \in Nat /\ Opn(q) \in Nat
  BY <1>1, <1>2, <1>3
<1>6. /\ ~Has(q, "DATA", id) => \A k \in 1..Len(q) : WDat(id)[q[k]] = 0
      /\ ~Has(q, "ADJUST", id) => \A k \in 1..Len(q) : WAdj(id)[q[k]] = 0
      /\ ~Has(q, "RESP", id) => \A k \in 1..Len(q) : WRsp(id)[q[k]] = 0
      /\ ~Has(q, "REQ", id) => \A k \in 1..Len(q) : WRqs(id)[q[k]] = 0
  BY <1>4 DEF Has, WDat, WAdj, WRsp, WRqs
<1> QED BY <1>1, <1>2, <1>3, <1>5, <1>6

\* How Has, About and Carries are related.
LEMMA Seen ==
  ASSUME NEW q, NEW id
  PROVE  /\ \A t : Has(q, t, id) <=> \E a : Carries(q, t, id, a)
         /\ \A t : Has(q, t, id) /\ t # "OPEN" => About(q, id)
         /\ About(q, id) => \E t : t # "OPEN" /\ Has(q, t, id)
<1>1. \A t : Has(q, t, id) <=> \E a : Carries(q, t, id, a)
  BY DEF Has, Carries
<1>2. \A t : Has(q, t, id) /\ t # "OPEN" => About(q, id)
  BY DEF Has, About
<1>3. About(q, id) => \E t : t # "OPEN" /\ Has(q, t, id)
  BY DEF Has, About
<1> QED BY <1>1, <1>2, <1>3

-----------------------------------------------------------------------------
(* The order of packets.                                                   *)

\* Sending keeps the order of the queue: nothing follows CLOSE or a refusal to the same
\* end, and nothing precedes a confirmation.
LEMMA OrdAppend ==
  ASSUME NEW q \in Seq(Packets), NEW m \in Packets, Ord(q),
         m.type = "OPEN" => ~Has(q, "OPEN", m.id),
         m.type # "OPEN" => ~Has(q, "CLOSE", m.id) /\ ~Has(q, "OPENFAIL", m.id),
         m.type \in {"CONFIRM", "OPENFAIL"} => ~About(q, m.id)
  PROVE  Ord(Append(q, m))
<1> DEFINE v == Append(q, m)
           n == Len(q)
<1>1. n \in Nat /\ Len(v) = n + 1 /\ v[n + 1] = m /\ \A k \in 1..n : v[k] = q[k]
  OBVIOUS
<1>2. \A k \in 1..(n + 1) : k = n + 1 \/ k \in 1..n
  BY <1>1
<1> HIDE DEF v
<1>3. SUFFICES ASSUME NEW k \in 1..(n + 1), NEW j \in 1..(k - 1), v[j].id = v[k].id
               PROVE  /\ ~(v[j].type = "OPEN" /\ v[k].type = "OPEN")
                      /\ v[j].type # "OPEN" /\ v[k].type # "OPEN" =>
                           /\ v[j].type \notin {"CLOSE", "OPENFAIL"}
                           /\ v[k].type \notin {"CONFIRM", "OPENFAIL"}
  <2>1. Ord(v)
    BY <1>1, <1>3 DEF Ord
  <2> QED BY <2>1 DEF v
<1>4. j \in 1..n /\ v[j] = q[j]
  <2>1. j \in 1..n
    BY <1>1
  <2> QED BY <1>1, <2>1
<1>5. CASE k \in 1..n
  <2>1. v[k] = q[k]
    BY <1>1, <1>5
  <2> HIDE DEF n
  <2> QED BY <1>3, <1>4, <1>5, <2>1 DEF Ord, n
<1>6. CASE k = n + 1
  <2>1. v[k] = m
    BY <1>1, <1>6
  <2>2. /\ q[j].type = "OPEN" => Has(q, "OPEN", q[j].id)
        /\ q[j].type = "CLOSE" => Has(q, "CLOSE", q[j].id)
        /\ q[j].type = "OPENFAIL" => Has(q, "OPENFAIL", q[j].id)
        /\ q[j].type # "OPEN" => About(q, q[j].id)
    BY <1>4 DEF Has, About
  <2> QED BY <1>3, <1>4, <2>1, <2>2
<1> QED BY <1>2, <1>5, <1>6

\* Sending keeps EOF behind the data to the same end, when there was no EOF before.
LEMMA EofAppend ==
  ASSUME NEW q \in Seq(Packets), NEW m \in Packets, EofLast(q),
         m.type \in {"DATA", "EOF"} => ~Has(q, "EOF", m.id)
  PROVE  EofLast(Append(q, m))
<1> DEFINE v == Append(q, m)
           n == Len(q)
<1>1. n \in Nat /\ Len(v) = n + 1 /\ v[n + 1] = m /\ \A k \in 1..n : v[k] = q[k]
  OBVIOUS
<1>2. \A k \in 1..(n + 1) : k = n + 1 \/ k \in 1..n
  BY <1>1
<1> HIDE DEF v
<1>3. SUFFICES ASSUME NEW k \in 1..(n + 1), NEW j \in 1..(k - 1), v[j].id = v[k].id, v[j].type = "EOF"
               PROVE  v[k].type \notin {"DATA", "EOF"}
  <2>1. EofLast(v)
    BY <1>1, <1>3 DEF EofLast
  <2> QED BY <2>1 DEF v
<1>4. j \in 1..n /\ v[j] = q[j]
  <2>1. j \in 1..n
    BY <1>1
  <2> QED BY <1>1, <2>1
<1>5. CASE k \in 1..n
  <2>1. v[k] = q[k]
    BY <1>1, <1>5
  <2> HIDE DEF n
  <2> QED BY <1>3, <1>4, <1>5, <2>1 DEF EofLast, n
<1>6. CASE k = n + 1
  <2>1. v[k] = m
    BY <1>1, <1>6
  <2>2. Has(q, "EOF", q[j].id)
    BY <1>3, <1>4 DEF Has
  <2> QED BY <1>3, <1>4, <2>1, <2>2
<1> QED BY <1>2, <1>5, <1>6

\* What the head of a queue excludes from the rest.
LEMMA HeadOrd ==
  ASSUME NEW q \in Seq(Packets), q # <<>>, Ord(q)
  PROVE  /\ Ord(Tail(q))
         /\ Head(q).type = "OPEN" => ~Has(Tail(q), "OPEN", Head(q).id)
         /\ Head(q).type # "OPEN" => /\ ~Has(Tail(q), "CONFIRM", Head(q).id)
                                     /\ ~Has(Tail(q), "OPENFAIL", Head(q).id)
         /\ Head(q).type \in {"CLOSE", "OPENFAIL"} => ~About(Tail(q), Head(q).id)
<1> DEFINE v == Tail(q)
           m == Head(q)
           n == Len(v)
<1>1. n \in Nat /\ Len(q) = n + 1 /\ q[1] = m /\ \A k \in 1..n : v[k] = q[k + 1]
  OBVIOUS
<1> HIDE DEF v, m
<1>2. \A k \in 1..n : k + 1 \in 1..(n + 1) /\ 1 \in 1..((k + 1) - 1)
  BY <1>1
<1>3. \A k \in 1..n : \A j \in 1..(k - 1) : j \in 1..n /\ j + 1 \in 1..((k + 1) - 1)
  BY <1>1
<1> HIDE DEF n
<1>4. Ord(v)
  BY <1>1, <1>2, <1>3 DEF Ord, n
<1>5. ASSUME NEW k \in 1..n, v[k].id = m.id
      PROVE  /\ ~(m.type = "OPEN" /\ v[k].type = "OPEN")
             /\ m.type # "OPEN" /\ v[k].type # "OPEN" =>
                  m.type \notin {"CLOSE", "OPENFAIL"} /\ v[k].type \notin {"CONFIRM", "OPENFAIL"}
  BY <1>1, <1>2, <1>5 DEF Ord
<1>6. /\ m.type = "OPEN" => ~Has(v, "OPEN", m.id)
      /\ m.type # "OPEN" => ~Has(v, "CONFIRM", m.id) /\ ~Has(v, "OPENFAIL", m.id)
      /\ m.type \in {"CLOSE", "OPENFAIL"} => ~About(v, m.id)
  BY <1>5 DEF Has, About, n
<1> QED BY <1>4, <1>6 DEF v, m

\* Taking the first packet keeps EOF last, and no data is left to the end that gets
\* EOF.
LEMMA HeadEof ==
  ASSUME NEW q \in Seq(Packets), q # <<>>, EofLast(q)
  PROVE  /\ EofLast(Tail(q))
         /\ Head(q).type = "EOF" => ~Has(Tail(q), "DATA", Head(q).id) /\ ~Has(Tail(q), "EOF", Head(q).id)
<1> DEFINE v == Tail(q)
           m == Head(q)
           n == Len(v)
<1>1. n \in Nat /\ Len(q) = n + 1 /\ q[1] = m /\ \A k \in 1..n : v[k] = q[k + 1]
  OBVIOUS
<1> HIDE DEF v, m
<1>2. \A k \in 1..n : k + 1 \in 1..(n + 1) /\ 1 \in 1..((k + 1) - 1)
  BY <1>1
<1>3. \A k \in 1..n : \A j \in 1..(k - 1) : j \in 1..n /\ j + 1 \in 1..((k + 1) - 1)
  BY <1>1
<1> HIDE DEF n
<1>4. EofLast(v)
  BY <1>1, <1>2, <1>3 DEF EofLast, n
<1>5. ASSUME NEW k \in 1..n, v[k].id = m.id, m.type = "EOF"
      PROVE  v[k].type \notin {"DATA", "EOF"}
  BY <1>1, <1>2, <1>5 DEF EofLast
<1>6. m.type = "EOF" => ~Has(v, "DATA", m.id) /\ ~Has(v, "EOF", m.id)
  BY <1>5 DEF Has, n
<1> QED BY <1>4, <1>6 DEF v, m

\* An end gets one answer to its OPEN.
LEMMA OneAnswer ==
  ASSUME NEW q \in Seq(Packets), Ord(q), NEW id
  PROVE  \A a : Carries(q, "CONFIRM", id, a) =>
           /\ ~Has(q, "OPENFAIL", id)
           /\ \A b : Carries(q, "CONFIRM", id, b) => a = b
<1> SUFFICES ASSUME NEW a, Carries(q, "CONFIRM", id, a)
             PROVE  /\ ~Has(q, "OPENFAIL", id)
                    /\ \A b : Carries(q, "CONFIRM", id, b) => a = b
  OBVIOUS
<1>1. PICK k \in 1..Len(q) : q[k].type = "CONFIRM" /\ q[k].id = id /\ q[k].arg = a
  BY DEF Carries
<1>2. Len(q) \in Nat
  OBVIOUS
<1> DEFINE n == Len(q)
<1>3. \A j \in 1..n : j = k \/ j \in 1..(k - 1) \/ k \in 1..(j - 1)
  BY <1>2
<1> HIDE DEF n
<1>4. ASSUME NEW j \in 1..n, q[j].type \in {"CONFIRM", "OPENFAIL"}, q[j].id = id
      PROVE  j = k
  BY <1>1, <1>3, <1>4 DEF Ord, n
<1>5. ~Has(q, "OPENFAIL", id)
  BY <1>1, <1>4 DEF Has, n
<1>6. \A b : Carries(q, "CONFIRM", id, b) => a = b
  BY <1>1, <1>4 DEF Carries, n
<1> QED BY <1>5, <1>6

-----------------------------------------------------------------------------
(* One channel while a handler runs.                                       *)

\* The states of a channel, of an end and of a handler at work.
Awaited == [what : Requests, n : Nat]
Winadjs == [what : {"winadj"}, n : Nat]
Chans == [kind : {"none", "main", "fwd", "zombie"}, remoteid : Ids, halfopen : BOOLEAN,
          closes : SUBSET Closes, pending_eof : BOOLEAN, outbuffer : Nat, written : Nat,
          remwindow : Nat, locwindow : Nat, locmaxwin : Nat, remlocwin : Int,
          throttle_state : {"UNTHROTTLED", "UNTHROTTLING", "THROTTLED"},
          chanreq : Seq(Awaited), sink : Nat, localEof : BOOLEAN, ready : BOOLEAN,
          got_pty : BOOLEAN, eof_pending : BOOLEAN, eof_sent : BOOLEAN, wanted : BOOLEAN]
Ends == [st : {"none", "opening", "open"}, peer : Ids, sndwin : Nat, tosend : Nat, rcvwin : Nat,
         got : Nat, asked : 0..2, started : BOOLEAN, closes : SUBSET Closes]
Works == [c : Chans, out : Seq(Packets), gone : BOOLEAN, abort : BOOLEAN, err : {"none"}]

\* What does not change while a handler runs: the channel's ids here and there, the
\* server's end of it, the packets to us and those to the server it found, whether the
\* end is still the other end of this channel, and whether a forwarding that has sent
\* EOF must have been told to by its socket.
Contexts == [i : Ids, r : Ids, e : Ends, d : Seq(Packets), u : Seq(Packets),
             paired : BOOLEAN, strict : BOOLEAN]

\* The replies a channel waits for.
Waits(c) == Len(c.chanreq)

\* A request of the server's that awaits its reply.
Asked(e) == IF e.asked = 1 THEN 1 ELSE 0

\* What channel c, numbered i here and r there, knows of the server's end e of it, when
\* u and d are on their way to the server and to us: both windows, what was written and
\* EOF, the replies that are due, and CLOSE.
Windows(i, r, c, u, e, d) ==
  /\ c.locwindow = e.sndwin + Adj(u, r) + Dat(d, i)
  /\ "SENT_EOF" \notin c.closes => e.rcvwin = c.remwindow + Dat(u, r) + Adj(d, i)
Streams(r, c, u, e) ==
  /\ "SENT_EOF" \notin c.closes => ~Has(u, "EOF", r) /\ "RCVD_EOF" \notin e.closes
  /\ "SENT_EOF" \notin c.closes /\ "SENT_CLOSE" \notin e.closes =>
       e.got + Dat(u, r) + c.outbuffer = c.written
Replies(i, r, c, u, e, d) ==
  /\ "SENT_CLOSE" \notin e.closes => Rsp(d, i) + Rqs(u, r) = Waits(c)
  /\ "SENT_CLOSE" \notin c.closes => Rsp(u, r) + Rqs(d, i) = Asked(e)
Closings(i, r, c, u, e, d) ==
  /\ "SENT_CLOSE" \in c.closes <=> Has(u, "CLOSE", r) \/ "RCVD_CLOSE" \in e.closes
  /\ "SENT_CLOSE" \in e.closes <=> Has(d, "CLOSE", i)
Conv(i, r, c, u, e, d) ==
  Windows(i, r, c, u, e, d) /\ Streams(r, c, u, e) /\ Replies(i, r, c, u, e, d) /\ Closings(i, r, c, u, e, d)

\* The channel by itself, and with the packets on their way to it.
ChanOK(c) ==
  /\ c.kind \in {"main", "fwd", "zombie"} /\ "RCVD_CLOSE" \notin c.closes
  /\ "SENT_CLOSE" \in c.closes => "SENT_EOF" \in c.closes /\ c.chanreq = <<>>
  /\ c.kind # "main" => c.chanreq \in Seq(Winadjs)
  /\ c.sink + c.locwindow <= c.locmaxwin
SocketOK(c) == c.kind = "fwd" /\ (c.pending_eof \/ "SENT_EOF" \in c.closes) => c.localEof
Expects(c, d, i) == Dat(d, i) <= c.locwindow /\ Rsp(d, i) <= Waits(c)

\* The server's end e, numbered r, and the packets on their way to it.
EndOK(e, u, r) ==
  /\ Dat(u, r) <= e.rcvwin /\ Rsp(u, r) <= Asked(e)
  /\ Has(u, "EOF", r) \/ Has(u, "DATA", r) => "RCVD_EOF" \notin e.closes
  /\ \A a : Carries(u, "EOF", r, a) => "SENT_CLOSE" \in e.closes \/ e.got + Dat(u, r) = a

\* Two queues are the same to end id, and have the same OPENs.
Same(q, v, id) ==
  /\ Dat(q, id) = Dat(v, id) /\ Adj(q, id) = Adj(v, id) /\ Rsp(q, id) = Rsp(v, id)
  /\ Rqs(q, id) = Rqs(v, id) /\ (About(q, id) <=> About(v, id))
  /\ \A t : t # "OPEN" => (Has(q, t, id) <=> Has(v, t, id))
  /\ \A t, a : t # "OPEN" => (Carries(q, t, id, a) <=> Carries(v, t, id, a))
SameOpens(q, v) ==
  /\ Opn(q) = Opn(v)
  /\ \A id : Has(q, "OPEN", id) <=> Has(v, "OPEN", id)
  /\ \A id, a : Carries(q, "OPEN", id, a) <=> Carries(v, "OPEN", id, a)

\* u is k.u with packets of an open channel to end k.r.
Frame(u, k) ==
  /\ \A id : id # k.r => Same(k.u, u, id)
  /\ SameOpens(k.u, u)
  /\ \A a : Carries(u, "CONFIRM", k.r, a) <=> Carries(k.u, "CONFIRM", k.r, a)
  /\ \A t \in {"CONFIRM", "OPENFAIL"} : Has(u, t, k.r) <=> Has(k.u, t, k.r)
  /\ \A t : Has(k.u, t, k.r) => Has(u, t, k.r)

\* What a channel keeps while its handler runs in context k.
Kept(c, k) ==
  /\ c.remoteid = k.r /\ ~c.halfopen /\ ChanOK(c) /\ Expects(c, k.d, k.i)
  /\ k.strict => SocketOK(c)

\* Channel c is in order, with the packets u sent to its end, in context k.
Body(c, u, k) ==
  /\ c \in Chans /\ u \in Seq(Packets) /\ k \in Contexts
  /\ Kept(c, k) /\ Frame(u, k) /\ Ord(u) /\ EofLast(u)
  /\ k.paired => Conv(k.i, k.r, c, u, k.e, k.d) /\ EndOK(k.e, u, k.r) /\ ~Has(u, "OPENFAIL", k.r)
  /\ ~k.paired => "SENT_CLOSE" \in c.closes
  /\ ~k.paired \/ "RCVD_CLOSE" \in k.e.closes => u = k.u

\* Handler p is in order in context k: what it has sent follows what was on its way.
Up(p, k) == k.u \o p.out
Work(p, k) == p \in Works /\ ~p.gone /\ p.err = "none" /\ Body(p.c, Up(p, k), k)

\* The types of what a context holds.
LEMMA ContextFields ==
  ASSUME NEW k \in Contexts
  PROVE  /\ k.i \in Ids /\ k.r \in Ids /\ k.e \in Ends /\ k.d \in Seq(Packets)
         /\ k.u \in Seq(Packets) /\ k.paired \in BOOLEAN /\ k.strict \in BOOLEAN
         /\ k.e.sndwin \in Nat /\ k.e.rcvwin \in Nat /\ k.e.got \in Nat /\ Asked(k.e) \in Nat
         /\ Dat(k.d, k.i) \in Nat /\ Adj(k.d, k.i) \in Nat /\ Rsp(k.d, k.i) \in Nat /\ Rqs(k.d, k.i) \in Nat
<1>1. /\ k.i \in Ids /\ k.r \in Ids /\ k.e \in Ends /\ k.d \in Seq(Packets)
      /\ k.u \in Seq(Packets) /\ k.paired \in BOOLEAN /\ k.strict \in BOOLEAN
  BY DEF Contexts
<1>2. k.e.sndwin \in Nat /\ k.e.rcvwin \in Nat /\ k.e.got \in Nat /\ Asked(k.e) \in Nat
  BY <1>1 DEF Ends, Asked
<1>3. Dat(k.d, k.i) \in Nat /\ Adj(k.d, k.i) \in Nat /\ Rsp(k.d, k.i) \in Nat /\ Rqs(k.d, k.i) \in Nat
  BY <1>1, Sums
<1> QED BY <1>1, <1>2, <1>3

\* The types of the fields of a channel.
LEMMA ChanFields ==
  ASSUME NEW c \in Chans
  PROVE  /\ c.kind \in {"none", "main", "fwd", "zombie"} /\ c.remoteid \in Ids
         /\ c.halfopen \in BOOLEAN /\ c.closes \subseteq Closes /\ c.pending_eof \in BOOLEAN
         /\ c.outbuffer \in Nat /\ c.written \in Nat /\ c.remwindow \in Nat /\ c.locwindow \in Nat
         /\ c.locmaxwin \in Nat /\ c.remlocwin \in Int
         /\ c.throttle_state \in {"UNTHROTTLED", "UNTHROTTLING", "THROTTLED"}
         /\ c.chanreq \in Seq(Awaited) /\ Waits(c) \in Nat /\ c.sink \in Nat
         /\ c.localEof \in BOOLEAN /\ c.ready \in BOOLEAN /\ c.got_pty \in BOOLEAN
         /\ c.eof_pending \in BOOLEAN /\ c.eof_sent \in BOOLEAN /\ c.wanted \in BOOLEAN
BY DEF Chans, Waits

\* A change that does not concern the server's end.
LEMMA BodyQuiet ==
  ASSUME NEW c, NEW u, NEW k, NEW b, Body(c, u, k), b \in Chans, Kept(b, k),
         b.outbuffer = c.outbuffer, b.written = c.written,
         b.remwindow = c.remwindow, b.locwindow = c.locwindow, b.chanreq = c.chanreq,
         "SENT_EOF" \in b.closes <=> "SENT_EOF" \in c.closes,
         "SENT_CLOSE" \in b.closes <=> "SENT_CLOSE" \in c.closes
  PROVE  Body(b, u, k)
<1>1. Waits(b) = Waits(c)
  BY DEF Waits
<1>2. Conv(k.i, k.r, c, u, k.e, k.d) => Conv(k.i, k.r, b, u, k.e, k.d)
  BY <1>1 DEF Conv, Windows, Streams, Replies, Closings
<1> QED BY <1>2 DEF Body

\* Any packet but CLOSE, EOF and DATA may be sent before CLOSE, those before EOF.
LEMMA SendFrame ==
  ASSUME NEW c, NEW u, NEW k, NEW m, Body(c, u, k), "SENT_CLOSE" \notin c.closes,
         m \in Packets, m.id = k.r, m.type \in {"DATA", "ADJUST", "REQ", "RESP", "EOF", "CLOSE"},
         m.type \in {"DATA", "EOF"} => "SENT_EOF" \notin c.closes
  PROVE  /\ k.paired /\ u \in Seq(Packets) /\ Append(u, m) \in Seq(Packets)
         /\ Plus(Append(u, m), u, m)
         /\ Frame(Append(u, m), k) /\ Ord(Append(u, m)) /\ EofLast(Append(u, m))
         /\ ~Has(Append(u, m), "OPENFAIL", k.r) /\ "RCVD_CLOSE" \notin k.e.closes
<1>1. k.paired /\ u \in Seq(Packets) /\ Ord(u) /\ EofLast(u) /\ Frame(u, k) /\ c.remoteid = k.r
  BY DEF Body, Kept
<1>2. Conv(k.i, k.r, c, u, k.e, k.d) /\ ~Has(u, "OPENFAIL", k.r)
  BY <1>1 DEF Body
<1>3. /\ ~Has(u, "CLOSE", k.r) /\ ("SENT_EOF" \notin c.closes => ~Has(u, "EOF", k.r))
      /\ "RCVD_CLOSE" \notin k.e.closes
  BY <1>1, <1>2 DEF Conv, Windows, Streams, Replies, Closings
<1>4. Append(u, m) \in Seq(Packets) /\ Plus(Append(u, m), u, m)
  BY <1>1, AppendPlus
<1>5. Ord(Append(u, m))
  BY <1>1, <1>2, <1>3, OrdAppend
<1>6. EofLast(Append(u, m))
  BY <1>1, <1>3, EofAppend
<1> DEFINE v == Append(u, m)
<1> HIDE DEF v
<1>7. Plus(v, u, m)
  BY <1>4 DEF v
<1>8. ~Has(v, "OPENFAIL", k.r)
  BY <1>2, <1>7 DEF Plus
<1>9. Frame(v, k)
  <2>0. /\ \A id : Dat(u, id) \in Nat /\ Adj(u, id) \in Nat /\ Rsp(u, id) \in Nat /\ Rqs(u, id) \in Nat
        /\ Opn(u) \in Nat
    BY <1>1, Sums
  <2>1. \A id : id # k.r => Same(u, v, id)
    BY <1>7, <2>0 DEF Plus, Same
  <2>2. \A id : id # k.r => Same(k.u, v, id)
    BY <1>1, <2>1 DEF Frame, Same
  <2>3. SameOpens(k.u, v)
    BY <1>1, <1>7, <2>0 DEF Frame, SameOpens, Plus
  <2>4. \A a : Carries(v, "CONFIRM", k.r, a) <=> Carries(k.u, "CONFIRM", k.r, a)
    BY <1>1, <1>7 DEF Frame, Plus
  <2>5. /\ \A t \in {"CONFIRM", "OPENFAIL"} : Has(v, t, k.r) <=> Has(k.u, t, k.r)
        /\ \A t : Has(k.u, t, k.r) => Has(v, t, k.r)
    BY <1>1, <1>7 DEF Frame, Plus
  <2> QED BY <2>2, <2>3, <2>4, <2>5 DEF Frame
<1> QED BY <1>1, <1>3, <1>4, <1>5, <1>6, <1>8, <1>9 DEF v

\* ssh2_try_send sends no more than the window and the buffer have: both counts still
\* agree with the server's.
LEMMA BodyData ==
  ASSUME NEW c, NEW u, NEW k, NEW b, NEW m, Body(c, u, k), b \in Chans, Kept(b, k),
         m \in Packets, m.id = k.r, m.type = "DATA", m.arg <= c.remwindow, m.arg <= c.outbuffer,
         "SENT_EOF" \notin c.closes, b.closes = c.closes,
         b.outbuffer = c.outbuffer - m.arg, b.written = c.written,
         b.remwindow = c.remwindow - m.arg, b.locwindow = c.locwindow, b.chanreq = c.chanreq
  PROVE  Body(b, Append(u, m), k)
<1>0. c \in Chans /\ k \in Contexts /\ "SENT_CLOSE" \notin c.closes /\ m.arg \in Nat
  BY PacketFields DEF Body, Kept, ChanOK
<1> DEFINE v == Append(u, m)
<1> HIDE DEF v
<1>1. /\ k.paired /\ u \in Seq(Packets) /\ v \in Seq(Packets) /\ Plus(v, u, m)
      /\ Frame(v, k) /\ Ord(v) /\ EofLast(v) /\ ~Has(v, "OPENFAIL", k.r)
      /\ "RCVD_CLOSE" \notin k.e.closes
  BY <1>0, SendFrame DEF v
<1>2. Conv(k.i, k.r, c, u, k.e, k.d) /\ EndOK(k.e, u, k.r)
  BY <1>1 DEF Body, Kept
<1>3. /\ Dat(u, k.r) \in Nat /\ Adj(u, k.r) \in Nat /\ Rsp(u, k.r) \in Nat /\ Rqs(u, k.r) \in Nat
  BY <1>1, Sums
<1>4. /\ Dat(v, k.r) = Dat(u, k.r) + m.arg /\ Adj(v, k.r) = Adj(u, k.r)
      /\ Rsp(v, k.r) = Rsp(u, k.r) /\ Rqs(v, k.r) = Rqs(u, k.r)
      /\ \A t : t # "DATA" => (Has(v, t, k.r) <=> Has(u, t, k.r))
      /\ \A a : Carries(v, "EOF", k.r, a) <=> Carries(u, "EOF", k.r, a)
  BY <1>1, <1>3 DEF Plus
<1>k. /\ k.e.sndwin \in Nat /\ k.e.rcvwin \in Nat /\ k.e.got \in Nat /\ Asked(k.e) \in Nat
      /\ Dat(k.d, k.i) \in Nat /\ Adj(k.d, k.i) \in Nat /\ Rsp(k.d, k.i) \in Nat /\ Rqs(k.d, k.i) \in Nat
  BY <1>0, ContextFields
<1>c. /\ c.outbuffer \in Nat /\ c.written \in Nat /\ c.remwindow \in Nat /\ c.locwindow \in Nat
      /\ Waits(c) \in Nat
  BY <1>0, ChanFields
<1>h. /\ b.closes = c.closes /\ b.outbuffer = c.outbuffer - m.arg /\ b.written = c.written
      /\ b.remwindow = c.remwindow - m.arg /\ b.locwindow = c.locwindow /\ b.chanreq = c.chanreq
      /\ m.arg <= c.remwindow /\ m.arg <= c.outbuffer /\ "SENT_EOF" \notin c.closes
  OBVIOUS
<1>w. Waits(b) = Waits(c)
  BY DEF Waits
<1>5. Conv(k.i, k.r, b, v, k.e, k.d)
  <2>1. Windows(k.i, k.r, b, v, k.e, k.d)
    BY ONLY <1>0, <1>h, <1>w, <1>2, <1>3, <1>4, <1>k, <1>c DEF Conv, Windows
  <2>2. Streams(k.r, b, v, k.e)
    BY ONLY <1>0, <1>h, <1>w, <1>2, <1>3, <1>4, <1>k, <1>c DEF Conv, Streams
  <2>3. Replies(k.i, k.r, b, v, k.e, k.d)
    BY ONLY <1>0, <1>h, <1>w, <1>2, <1>3, <1>4, <1>k, <1>c DEF Conv, Replies
  <2>4. Closings(k.i, k.r, b, v, k.e, k.d)
    BY ONLY <1>0, <1>h, <1>w, <1>2, <1>3, <1>4, <1>k, <1>c DEF Conv, Closings
  <2> QED BY <2>1, <2>2, <2>3, <2>4 DEF Conv
<1>6. EndOK(k.e, v, k.r)
  <2>1. ~Has(v, "EOF", k.r) /\ "RCVD_EOF" \notin k.e.closes /\ ~\E a : Carries(v, "EOF", k.r, a)
    BY <1>2, <1>4, Seen DEF Conv, Windows, Streams, Replies, Closings
  <2>2. Dat(v, k.r) <= k.e.rcvwin
    BY ONLY <1>0, <1>h, <1>w, <1>2, <1>3, <1>4, <1>k, <1>c DEF Conv, Windows, Streams, Replies, Closings
  <2> QED BY <1>2, <1>4, <2>1, <2>2 DEF EndOK
<1> QED BY <1>0, <1>1, <1>5, <1>6 DEF Body, v

\* EOF is sent once, when nothing is left to send, and carries all that was written.
LEMMA BodyEof ==
  ASSUME NEW c, NEW u, NEW k, NEW b, NEW m, Body(c, u, k), b \in Chans, Kept(b, k),
         m \in Packets, m.id = k.r, m.type = "EOF", m.arg = c.written, c.outbuffer = 0,
         "SENT_EOF" \notin c.closes, b.closes = c.closes \cup {"SENT_EOF"},
         b.locwindow = c.locwindow, b.chanreq = c.chanreq
  PROVE  Body(b, Append(u, m), k)
<1>0. c \in Chans /\ k \in Contexts /\ "SENT_CLOSE" \notin c.closes /\ m.arg \in Nat
  BY PacketFields DEF Body, Kept, ChanOK
<1> DEFINE v == Append(u, m)
<1> HIDE DEF v
<1>1. /\ k.paired /\ u \in Seq(Packets) /\ v \in Seq(Packets) /\ Plus(v, u, m)
      /\ Frame(v, k) /\ Ord(v) /\ EofLast(v) /\ ~Has(v, "OPENFAIL", k.r)
      /\ "RCVD_CLOSE" \notin k.e.closes
  BY <1>0, SendFrame DEF v
<1>2. Conv(k.i, k.r, c, u, k.e, k.d) /\ EndOK(k.e, u, k.r)
  BY <1>1 DEF Body, Kept
<1>3. /\ Dat(u, k.r) \in Nat /\ Adj(u, k.r) \in Nat /\ Rsp(u, k.r) \in Nat /\ Rqs(u, k.r) \in Nat
  BY <1>1, Sums
<1>4. /\ Dat(v, k.r) = Dat(u, k.r) /\ Adj(v, k.r) = Adj(u, k.r)
      /\ Rsp(v, k.r) = Rsp(u, k.r) /\ Rqs(v, k.r) = Rqs(u, k.r)
      /\ \A t : t # "EOF" => (Has(v, t, k.r) <=> Has(u, t, k.r))
      /\ \A a : Carries(v, "EOF", k.r, a) <=> Carries(u, "EOF", k.r, a) \/ a = m.arg
  BY <1>1, <1>3 DEF Plus
<1>k. /\ k.e.sndwin \in Nat /\ k.e.rcvwin \in Nat /\ k.e.got \in Nat /\ Asked(k.e) \in Nat
      /\ Dat(k.d, k.i) \in Nat /\ Adj(k.d, k.i) \in Nat /\ Rsp(k.d, k.i) \in Nat /\ Rqs(k.d, k.i) \in Nat
  BY <1>0, ContextFields
<1>c. /\ c.outbuffer \in Nat /\ c.written \in Nat /\ c.remwindow \in Nat /\ c.locwindow \in Nat
      /\ Waits(c) \in Nat
  BY <1>0, ChanFields
<1>h. /\ b.closes = c.closes \cup {"SENT_EOF"} /\ b.locwindow = c.locwindow /\ b.chanreq = c.chanreq
      /\ m.arg = c.written /\ c.outbuffer = 0 /\ "SENT_EOF" \notin c.closes
  OBVIOUS
<1>w. Waits(b) = Waits(c)
  BY DEF Waits
<1>5. Conv(k.i, k.r, b, v, k.e, k.d)
  <2>1. Windows(k.i, k.r, b, v, k.e, k.d)
    BY ONLY <1>0, <1>h, <1>w, <1>2, <1>3, <1>4, <1>k, <1>c DEF Conv, Windows
  <2>2. Streams(k.r, b, v, k.e)
    BY ONLY <1>0, <1>h, <1>w, <1>2, <1>3, <1>4, <1>k, <1>c DEF Conv, Streams
  <2>3. Replies(k.i, k.r, b, v, k.e, k.d)
    BY ONLY <1>0, <1>h, <1>w, <1>2, <1>3, <1>4, <1>k, <1>c DEF Conv, Replies
  <2>4. Closings(k.i, k.r, b, v, k.e, k.d)
    BY ONLY <1>0, <1>h, <1>w, <1>2, <1>3, <1>4, <1>k, <1>c DEF Conv, Closings
  <2> QED BY <2>1, <2>2, <2>3, <2>4 DEF Conv
<1>6. EndOK(k.e, v, k.r)
  <2>1. "RCVD_EOF" \notin k.e.closes /\ ~\E a : Carries(u, "EOF", k.r, a)
    BY <1>2, <1>4, Seen DEF Conv, Windows, Streams, Replies, Closings
  <2>2. "SENT_CLOSE" \in k.e.closes \/ k.e.got + Dat(v, k.r) = m.arg
    BY ONLY <1>0, <1>h, <1>w, <1>2, <1>3, <1>4, <1>k, <1>c DEF Conv, Windows, Streams, Replies, Closings
  <2> QED BY <1>2, <1>4, <2>1, <2>2 DEF EndOK
<1> QED BY <1>0, <1>1, <1>5, <1>6 DEF Body, v

\* CLOSE is sent once and is the last packet to the end.
LEMMA BodyClose ==
  ASSUME NEW c, NEW u, NEW k, NEW b, NEW m, Body(c, u, k), b \in Chans, Kept(b, k),
         m \in Packets, m.id = k.r, m.type = "CLOSE",
         "SENT_CLOSE" \notin c.closes, b.closes = c.closes \cup {"SENT_EOF", "SENT_CLOSE"},
         b.locwindow = c.locwindow, b.chanreq = c.chanreq
  PROVE  Body(b, Append(u, m), k)
<1>0. c \in Chans /\ k \in Contexts
  BY PacketFields DEF Body, Kept, ChanOK
<1> DEFINE v == Append(u, m)
<1> HIDE DEF v
<1>1. /\ k.paired /\ u \in Seq(Packets) /\ v \in Seq(Packets) /\ Plus(v, u, m)
      /\ Frame(v, k) /\ Ord(v) /\ EofLast(v) /\ ~Has(v, "OPENFAIL", k.r)
      /\ "RCVD_CLOSE" \notin k.e.closes
  BY <1>0, SendFrame DEF v
<1>2. Conv(k.i, k.r, c, u, k.e, k.d) /\ EndOK(k.e, u, k.r)
  BY <1>1 DEF Body, Kept
<1>3. /\ Dat(u, k.r) \in Nat /\ Adj(u, k.r) \in Nat /\ Rsp(u, k.r) \in Nat /\ Rqs(u, k.r) \in Nat
  BY <1>1, Sums
<1>4. /\ Dat(v, k.r) = Dat(u, k.r) /\ Adj(v, k.r) = Adj(u, k.r)
      /\ Rsp(v, k.r) = Rsp(u, k.r) /\ Rqs(v, k.r) = Rqs(u, k.r)
      /\ Has(v, "CLOSE", k.r)
      /\ \A t : t # "CLOSE" => (Has(v, t, k.r) <=> Has(u, t, k.r))
      /\ \A a : Carries(v, "EOF", k.r, a) <=> Carries(u, "EOF", k.r, a)
  BY <1>1, <1>3 DEF Plus
<1>k. /\ k.e.sndwin \in Nat /\ k.e.rcvwin \in Nat /\ k.e.got \in Nat /\ Asked(k.e) \in Nat
      /\ Dat(k.d, k.i) \in Nat /\ Adj(k.d, k.i) \in Nat /\ Rsp(k.d, k.i) \in Nat /\ Rqs(k.d, k.i) \in Nat
  BY <1>0, ContextFields
<1>c. /\ c.outbuffer \in Nat /\ c.written \in Nat /\ c.remwindow \in Nat /\ c.locwindow \in Nat
      /\ Waits(c) \in Nat
  BY <1>0, ChanFields
<1>w. Waits(b) = Waits(c)
  BY DEF Waits
<1>5. Conv(k.i, k.r, b, v, k.e, k.d)
  BY <1>w, <1>0, <1>2, <1>3, <1>4, <1>k, <1>c DEF Conv, Windows, Streams, Replies, Closings
<1>6. EndOK(k.e, v, k.r)
  BY <1>2, <1>4 DEF EndOK
<1> QED BY <1>0, <1>1, <1>5, <1>6 DEF Body, v

\* WINDOW_ADJUST adds as much to our window as it tells the server.
LEMMA BodyAdjust ==
  ASSUME NEW c, NEW u, NEW k, NEW b, NEW m, Body(c, u, k), b \in Chans, Kept(b, k),
         m \in Packets, m.id = k.r, m.type = "ADJUST",
         "SENT_CLOSE" \notin c.closes, b.closes = c.closes,
         b.outbuffer = c.outbuffer, b.written = c.written, b.remwindow = c.remwindow,
         b.locwindow = c.locwindow + m.arg, b.chanreq = c.chanreq
  PROVE  Body(b, Append(u, m), k)
<1>0. c \in Chans /\ k \in Contexts /\ m.arg \in Nat
  BY PacketFields DEF Body, Kept, ChanOK
<1> DEFINE v == Append(u, m)
<1> HIDE DEF v
<1>1. /\ k.paired /\ u \in Seq(Packets) /\ v \in Seq(Packets) /\ Plus(v, u, m)
      /\ Frame(v, k) /\ Ord(v) /\ EofLast(v) /\ ~Has(v, "OPENFAIL", k.r)
      /\ "RCVD_CLOSE" \notin k.e.closes
  BY <1>0, SendFrame DEF v
<1>2. Conv(k.i, k.r, c, u, k.e, k.d) /\ EndOK(k.e, u, k.r)
  BY <1>1 DEF Body, Kept
<1>3. /\ Dat(u, k.r) \in Nat /\ Adj(u, k.r) \in Nat /\ Rsp(u, k.r) \in Nat /\ Rqs(u, k.r) \in Nat
  BY <1>1, Sums
<1>4. /\ Dat(v, k.r) = Dat(u, k.r) /\ Adj(v, k.r) = Adj(u, k.r) + m.arg
      /\ Rsp(v, k.r) = Rsp(u, k.r) /\ Rqs(v, k.r) = Rqs(u, k.r)
      /\ \A t : t # "ADJUST" => (Has(v, t, k.r) <=> Has(u, t, k.r))
      /\ \A a : Carries(v, "EOF", k.r, a) <=> Carries(u, "EOF", k.r, a)
  BY <1>1, <1>3 DEF Plus
<1>k. /\ k.e.sndwin \in Nat /\ k.e.rcvwin \in Nat /\ k.e.got \in Nat /\ Asked(k.e) \in Nat
      /\ Dat(k.d, k.i) \in Nat /\ Adj(k.d, k.i) \in Nat /\ Rsp(k.d, k.i) \in Nat /\ Rqs(k.d, k.i) \in Nat
  BY <1>0, ContextFields
<1>c. /\ c.outbuffer \in Nat /\ c.written \in Nat /\ c.remwindow \in Nat /\ c.locwindow \in Nat
      /\ Waits(c) \in Nat
  BY <1>0, ChanFields
<1>h. /\ b.closes = c.closes /\ b.outbuffer = c.outbuffer /\ b.written = c.written
      /\ b.remwindow = c.remwindow /\ b.locwindow = c.locwindow + m.arg /\ b.chanreq = c.chanreq
  OBVIOUS
<1>w. Waits(b) = Waits(c)
  BY DEF Waits
<1>5. Conv(k.i, k.r, b, v, k.e, k.d)
  <2>1. Windows(k.i, k.r, b, v, k.e, k.d)
    BY ONLY <1>0, <1>h, <1>w, <1>2, <1>3, <1>4, <1>k, <1>c DEF Conv, Windows
  <2>2. Streams(k.r, b, v, k.e)
    BY ONLY <1>0, <1>h, <1>w, <1>2, <1>3, <1>4, <1>k, <1>c DEF Conv, Streams
  <2>3. Replies(k.i, k.r, b, v, k.e, k.d)
    BY ONLY <1>0, <1>h, <1>w, <1>2, <1>3, <1>4, <1>k, <1>c DEF Conv, Replies
  <2>4. Closings(k.i, k.r, b, v, k.e, k.d)
    BY ONLY <1>0, <1>h, <1>w, <1>2, <1>3, <1>4, <1>k, <1>c DEF Conv, Closings
  <2> QED BY <2>1, <2>2, <2>3, <2>4 DEF Conv
<1>6. EndOK(k.e, v, k.r)
  BY <1>2, <1>4 DEF EndOK
<1> QED BY <1>0, <1>1, <1>5, <1>6 DEF Body, v

\* A request that wants a reply is one more to wait for.
LEMMA BodyRequest ==
  ASSUME NEW c, NEW u, NEW k, NEW b, NEW m, Body(c, u, k), b \in Chans, Kept(b, k),
         m \in Packets, m.id = k.r, m.type = "REQ",
         "SENT_CLOSE" \notin c.closes, b.closes = c.closes,
         b.outbuffer = c.outbuffer, b.written = c.written, b.remwindow = c.remwindow,
         b.locwindow = c.locwindow,
         Waits(b) = Waits(c) + (IF m.arg = "window-change" THEN 0 ELSE 1)
  PROVE  Body(b, Append(u, m), k)
<1>0. c \in Chans /\ k \in Contexts
  BY PacketFields DEF Body, Kept, ChanOK
<1> DEFINE v == Append(u, m)
<1> HIDE DEF v
<1>1. /\ k.paired /\ u \in Seq(Packets) /\ v \in Seq(Packets) /\ Plus(v, u, m)
      /\ Frame(v, k) /\ Ord(v) /\ EofLast(v) /\ ~Has(v, "OPENFAIL", k.r)
      /\ "RCVD_CLOSE" \notin k.e.closes
  BY <1>0, SendFrame DEF v
<1>2. Conv(k.i, k.r, c, u, k.e, k.d) /\ EndOK(k.e, u, k.r)
  BY <1>1 DEF Body, Kept
<1>3. /\ Dat(u, k.r) \in Nat /\ Adj(u, k.r) \in Nat /\ Rsp(u, k.r) \in Nat /\ Rqs(u, k.r) \in Nat
  BY <1>1, Sums
<1>4. /\ Dat(v, k.r) = Dat(u, k.r) /\ Adj(v, k.r) = Adj(u, k.r)
      /\ Rsp(v, k.r) = Rsp(u, k.r)
      /\ Rqs(v, k.r) = Rqs(u, k.r) + (IF m.arg = "window-change" THEN 0 ELSE 1)
      /\ \A t : t # "REQ" => (Has(v, t, k.r) <=> Has(u, t, k.r))
      /\ \A a : Carries(v, "EOF", k.r, a) <=> Carries(u, "EOF", k.r, a)
  BY <1>1, <1>3 DEF Plus
<1>k. /\ k.e.sndwin \in Nat /\ k.e.rcvwin \in Nat /\ k.e.got \in Nat /\ Asked(k.e) \in Nat
      /\ Dat(k.d, k.i) \in Nat /\ Adj(k.d, k.i) \in Nat /\ Rsp(k.d, k.i) \in Nat /\ Rqs(k.d, k.i) \in Nat
  BY <1>0, ContextFields
<1>c. /\ c.outbuffer \in Nat /\ c.written \in Nat /\ c.remwindow \in Nat /\ c.locwindow \in Nat
      /\ Waits(c) \in Nat
  BY <1>0, ChanFields
<1>h. /\ b.closes = c.closes /\ b.outbuffer = c.outbuffer /\ b.written = c.written
      /\ b.remwindow = c.remwindow /\ b.locwindow = c.locwindow
      /\ Waits(b) = Waits(c) + (IF m.arg = "window-change" THEN 0 ELSE 1)
      /\ Waits(c) \in Nat
  BY <1>c
<1>5. Conv(k.i, k.r, b, v, k.e, k.d)
  <2>1. Windows(k.i, k.r, b, v, k.e, k.d)
    BY ONLY <1>0, <1>h, <1>2, <1>3, <1>4, <1>k, <1>c DEF Conv, Windows
  <2>2. Streams(k.r, b, v, k.e)
    BY ONLY <1>0, <1>h, <1>2, <1>3, <1>4, <1>k, <1>c DEF Conv, Streams
  <2>3. Replies(k.i, k.r, b, v, k.e, k.d)
    BY ONLY <1>0, <1>h, <1>2, <1>3, <1>4, <1>k, <1>c DEF Conv, Replies
  <2>4. Closings(k.i, k.r, b, v, k.e, k.d)
    BY ONLY <1>0, <1>h, <1>2, <1>3, <1>4, <1>k, <1>c DEF Conv, Closings
  <2> QED BY <2>1, <2>2, <2>3, <2>4 DEF Conv
<1>6. EndOK(k.e, v, k.r)
  BY <1>2, <1>4 DEF EndOK
<1> QED BY <1>0, <1>1, <1>5, <1>6 DEF Body, v

-----------------------------------------------------------------------------
(* Packets that are taken, and what is written.                            *)

\* h is context k after packet m has been taken from the queue to us.
Taken(m, k, h) ==
  /\ h \in Contexts /\ h.i = k.i /\ h.r = k.r /\ h.e = k.e /\ h.u = k.u
  /\ h.paired = k.paired /\ h.strict = k.strict
  /\ m \in Packets /\ m.id = k.i /\ Plus(k.d, h.d, m)

\* A packet that has been taken is accounted for by the channel: data uses our window,
\* an adjustment opens the server's, a reply is no longer waited for.
LEMMA ConvTake ==
  ASSUME NEW i, NEW r, NEW c \in Chans, NEW b \in Chans, NEW u \in Seq(Packets), NEW e \in Ends,
         NEW d \in Seq(Packets), NEW f \in Seq(Packets), NEW m \in Packets,
         Conv(i, r, c, u, e, d), Plus(d, f, m), m.id = i,
         m.type \in {"DATA", "ADJUST", "RESP", "EOF", "CONFIRM"},
         b.closes = c.closes, b.outbuffer = c.outbuffer, b.written = c.written,
         b.locwindow = c.locwindow - (IF m.type = "DATA" THEN m.arg ELSE 0),
         "SENT_EOF" \notin c.closes =>
           b.remwindow = c.remwindow + (IF m.type = "ADJUST" THEN m.arg ELSE 0),
         Waits(b) = Waits(c) - (IF m.type = "RESP" THEN 1 ELSE 0)
  PROVE  Conv(i, r, b, u, e, f)
<1>1. /\ Dat(f, i) \in Nat /\ Adj(f, i) \in Nat /\ Rsp(f, i) \in Nat /\ Rqs(f, i) \in Nat
      /\ Dat(u, r) \in Nat /\ Adj(u, r) \in Nat /\ Rsp(u, r) \in Nat /\ Rqs(u, r) \in Nat
  BY Sums
<1>2. /\ Dat(d, i) = Dat(f, i) + (IF m.type = "DATA" THEN m.arg ELSE 0)
      /\ Adj(d, i) = Adj(f, i) + (IF m.type = "ADJUST" THEN m.arg ELSE 0)
      /\ Rsp(d, i) = Rsp(f, i) + (IF m.type = "RESP" THEN 1 ELSE 0)
      /\ Rqs(d, i) = Rqs(f, i)
      /\ Has(d, "CLOSE", i) <=> Has(f, "CLOSE", i)
  <2>1. m.type # "REQ" /\ m.type # "CLOSE"
    OBVIOUS
  <2> QED BY <1>1, <2>1 DEF Plus
<1>3. m.type \in {"DATA", "ADJUST"} => m.arg \in Nat
  BY PacketFields
<1>4. c.locwindow \in Nat /\ c.remwindow \in Nat /\ Waits(c) \in Nat /\ e.sndwin \in Nat /\ e.rcvwin \in Nat
  BY ChanFields DEF Ends
<1>5. Windows(i, r, c, u, e, d) /\ Streams(r, c, u, e) /\ Replies(i, r, c, u, e, d) /\ Closings(i, r, c, u, e, d)
  BY DEF Conv
<1>6. Windows(i, r, b, u, e, f)
  <2>1. b.locwindow = e.sndwin + Adj(u, r) + Dat(f, i)
    <3>1. c.locwindow = e.sndwin + Adj(u, r) + Dat(d, i)
      BY <1>5 DEF Windows
    <3>2. CASE m.type = "DATA"
      <4>1. m.arg \in Nat /\ b.locwindow = c.locwindow - m.arg /\ Dat(d, i) = Dat(f, i) + m.arg
        BY <1>2, <1>3, <3>2
      <4>2. Dat(f, i) \in Nat /\ Adj(u, r) \in Nat /\ e.sndwin \in Nat
        BY <1>1, <1>4
      <4> QED BY ONLY <3>1, <4>1, <4>2
    <3>3. CASE m.type # "DATA"
      BY <1>1, <1>2, <1>4, <3>1, <3>3
    <3> QED BY <3>2, <3>3
  <2>2. ASSUME "SENT_EOF" \notin c.closes
        PROVE  e.rcvwin = b.remwindow + Dat(u, r) + Adj(f, i)
    <3>1. e.rcvwin = c.remwindow + Dat(u, r) + Adj(d, i)
      BY <1>5, <2>2 DEF Windows
    <3>2. CASE m.type = "ADJUST"
      <4>1. m.arg \in Nat /\ b.remwindow = c.remwindow + m.arg /\ Adj(d, i) = Adj(f, i) + m.arg
        BY <1>2, <1>3, <2>2, <3>2
      <4>2. Adj(f, i) \in Nat /\ Dat(u, r) \in Nat /\ c.remwindow \in Nat
        BY <1>1, <1>4
      <4> QED BY ONLY <3>1, <4>1, <4>2
    <3>3. CASE m.type # "ADJUST"
      <4>1. b.remwindow = c.remwindow + 0 /\ Adj(d, i) = Adj(f, i) + 0
        BY <1>2, <2>2, <3>3
      <4> QED BY ONLY <1>1, <1>4, <3>1, <4>1
    <3> QED BY <3>2, <3>3
  <2> QED BY <2>1, <2>2 DEF Windows
<1>7. Streams(r, b, u, e)
  BY <1>5 DEF Streams
<1>8. Replies(i, r, b, u, e, f)
  <2>1. ASSUME "SENT_CLOSE" \notin e.closes
        PROVE  Rsp(f, i) + Rqs(u, r) = Waits(b)
    <3>1. Rsp(d, i) + Rqs(u, r) = Waits(c)
      BY <1>5, <2>1 DEF Replies
    <3>2. CASE m.type = "RESP"
      BY <1>1, <1>2, <1>4, <3>1, <3>2
    <3>3. CASE m.type # "RESP"
      BY <1>1, <1>2, <1>4, <3>1, <3>3
    <3> QED BY <3>2, <3>3
  <2>2. "SENT_CLOSE" \notin c.closes => Rsp(u, r) + Rqs(f, i) = Asked(e)
    BY <1>2, <1>5 DEF Replies
  <2> QED BY <2>1, <2>2 DEF Replies
<1>9. Closings(i, r, b, u, e, f)
  BY <1>2, <1>5 DEF Closings
<1> QED BY <1>6, <1>7, <1>8, <1>9 DEF Conv

\* Data, a window adjustment, a reply or EOF is taken.
LEMMA BodyTake ==
  ASSUME NEW c, NEW u, NEW k, NEW b, NEW m, NEW h, Body(c, u, k), Taken(m, k, h),
         b \in Chans, Kept(b, h), m.type \in {"DATA", "ADJUST", "RESP", "EOF"},
         b.closes = c.closes, b.outbuffer = c.outbuffer, b.written = c.written,
         b.locwindow = c.locwindow - (IF m.type = "DATA" THEN m.arg ELSE 0),
         "SENT_EOF" \notin c.closes =>
           b.remwindow = c.remwindow + (IF m.type = "ADJUST" THEN m.arg ELSE 0),
         Waits(b) = Waits(c) - (IF m.type = "RESP" THEN 1 ELSE 0)
  PROVE  Body(b, u, h)
<1>1. /\ c \in Chans /\ u \in Seq(Packets) /\ k \in Contexts /\ h \in Contexts /\ m \in Packets
      /\ Plus(k.d, h.d, m) /\ m.id = k.i
  BY DEF Body, Taken
<1>2. k.e \in Ends /\ k.d \in Seq(Packets) /\ h.d \in Seq(Packets)
  BY <1>1, ContextFields
<1>3. h.i = k.i /\ h.r = k.r /\ h.e = k.e /\ h.u = k.u /\ h.paired = k.paired
  BY DEF Taken
<1>4. Frame(u, h)
  BY <1>3 DEF Body, Frame
<1>5. ASSUME k.paired
      PROVE  Conv(h.i, h.r, b, u, h.e, h.d) /\ EndOK(h.e, u, h.r) /\ ~Has(u, "OPENFAIL", h.r)
  <2>1. Conv(k.i, k.r, c, u, k.e, k.d) /\ EndOK(k.e, u, k.r) /\ ~Has(u, "OPENFAIL", k.r)
    BY <1>5 DEF Body
  <2>2. Conv(k.i, k.r, b, u, k.e, h.d)
    BY <1>1, <1>2, <2>1, ConvTake
  <2> QED BY <1>3, <2>1, <2>2
<1>6. /\ ~k.paired => "SENT_CLOSE" \in b.closes
      /\ ~k.paired \/ "RCVD_CLOSE" \in k.e.closes => u = h.u
  BY <1>3 DEF Body
<1> QED BY <1>1, <1>3, <1>4, <1>5, <1>6 DEF Body

\* A request of the server's is taken, and answered unless CLOSE was sent.
LEMMA BodyIgnore ==
  ASSUME NEW c, NEW u, NEW k, NEW m, NEW h, Body(c, u, k), Taken(m, k, h), Kept(c, h),
         m.type = "REQ", "SENT_CLOSE" \in c.closes
  PROVE  Body(c, u, h)
<1>1. /\ c \in Chans /\ u \in Seq(Packets) /\ k \in Contexts /\ h \in Contexts /\ m \in Packets
      /\ Plus(k.d, h.d, m) /\ m.id = k.i
  BY DEF Body, Taken
<1>2. k.d \in Seq(Packets) /\ h.d \in Seq(Packets)
  BY <1>1, ContextFields
<1>3. h.i = k.i /\ h.r = k.r /\ h.e = k.e /\ h.u = k.u /\ h.paired = k.paired
  BY DEF Taken
<1>4. Frame(u, h)
  BY <1>3 DEF Body, Frame
<1>5. /\ Dat(k.d, k.i) = Dat(h.d, k.i) /\ Adj(k.d, k.i) = Adj(h.d, k.i) /\ Rsp(k.d, k.i) = Rsp(h.d, k.i)
      /\ Has(k.d, "CLOSE", k.i) <=> Has(h.d, "CLOSE", k.i)
  <2>1. Dat(h.d, k.i) \in Nat /\ Adj(h.d, k.i) \in Nat /\ Rsp(h.d, k.i) \in Nat
    BY <1>2, Sums
  <2> QED BY <1>1, <2>1 DEF Plus
<1>6. ASSUME k.paired
      PROVE  Conv(h.i, h.r, c, u, h.e, h.d) /\ EndOK(h.e, u, h.r) /\ ~Has(u, "OPENFAIL", h.r)
  <2>1. Conv(k.i, k.r, c, u, k.e, k.d) /\ EndOK(k.e, u, k.r) /\ ~Has(u, "OPENFAIL", k.r)
    BY <1>6 DEF Body
  <2>2. Conv(k.i, k.r, c, u, k.e, h.d)
    BY <1>5, <2>1 DEF Conv, Windows, Streams, Replies, Closings
  <2> QED BY <1>3, <2>1, <2>2
<1> QED BY <1>1, <1>3, <1>4, <1>6 DEF Body

\* The reply to a request of the server's takes the place of the request.
LEMMA BodyReply ==
  ASSUME NEW c, NEW u, NEW k, NEW m, NEW h, NEW n, Body(c, u, k), Taken(m, k, h), Kept(c, h),
         m.type = "REQ", m.arg # "window-change", "SENT_CLOSE" \notin c.closes,
         n \in Packets, n.id = k.r, n.type = "RESP"
  PROVE  Body(c, Append(u, n), h)
<1>1. /\ c \in Chans /\ u \in Seq(Packets) /\ k \in Contexts /\ h \in Contexts /\ m \in Packets
      /\ Plus(k.d, h.d, m) /\ m.id = k.i
  BY DEF Body, Taken
<1>2. k.d \in Seq(Packets) /\ h.d \in Seq(Packets)
  BY <1>1, ContextFields
<1>3. h.i = k.i /\ h.r = k.r /\ h.e = k.e /\ h.u = k.u /\ h.paired = k.paired
  BY DEF Taken
<1> DEFINE v == Append(u, n)
<1> HIDE DEF v
<1>4. /\ k.paired /\ v \in Seq(Packets) /\ Plus(v, u, n)
      /\ Frame(v, k) /\ Ord(v) /\ EofLast(v) /\ ~Has(v, "OPENFAIL", k.r)
      /\ "RCVD_CLOSE" \notin k.e.closes
  BY SendFrame DEF v
<1>5. Frame(v, h)
  BY <1>3, <1>4 DEF Frame
<1>6. /\ Dat(h.d, k.i) \in Nat /\ Adj(h.d, k.i) \in Nat /\ Rsp(h.d, k.i) \in Nat /\ Rqs(h.d, k.i) \in Nat
      /\ Dat(u, k.r) \in Nat /\ Adj(u, k.r) \in Nat /\ Rsp(u, k.r) \in Nat /\ Rqs(u, k.r) \in Nat
  BY <1>1, <1>2, Sums
<1>7. /\ Dat(k.d, k.i) = Dat(h.d, k.i) /\ Adj(k.d, k.i) = Adj(h.d, k.i) /\ Rsp(k.d, k.i) = Rsp(h.d, k.i)
      /\ Rqs(k.d, k.i) = Rqs(h.d, k.i) + 1
      /\ Has(k.d, "CLOSE", k.i) <=> Has(h.d, "CLOSE", k.i)
  BY <1>1, <1>6 DEF Plus
<1>8. /\ Dat(v, k.r) = Dat(u, k.r) /\ Adj(v, k.r) = Adj(u, k.r) /\ Rqs(v, k.r) = Rqs(u, k.r)
      /\ Rsp(v, k.r) = Rsp(u, k.r) + 1
      /\ \A t : t # "RESP" => (Has(v, t, k.r) <=> Has(u, t, k.r))
      /\ \A a : Carries(v, "EOF", k.r, a) <=> Carries(u, "EOF", k.r, a)
  BY <1>4, <1>6 DEF Plus
<1>9. Conv(k.i, k.r, c, u, k.e, k.d) /\ EndOK(k.e, u, k.r)
  BY <1>4 DEF Body
<1>10. Asked(k.e) \in Nat
  BY <1>1, ContextFields
<1>11. Rsp(u, k.r) + Rqs(k.d, k.i) = Asked(k.e)
  BY <1>9 DEF Conv, Replies
<1>12. Rsp(v, k.r) + Rqs(h.d, k.i) = Asked(k.e) /\ Rsp(v, k.r) <= Asked(k.e)
  BY ONLY <1>6, <1>7, <1>8, <1>10, <1>11
<1>13. Conv(k.i, k.r, c, v, k.e, h.d)
  BY <1>7, <1>8, <1>9, <1>12 DEF Conv, Windows, Streams, Replies, Closings
<1>14. EndOK(k.e, v, k.r)
  BY <1>8, <1>9, <1>12 DEF EndOK
<1> QED BY <1>1, <1>3, <1>4, <1>5, <1>13, <1>14 DEF Body, v

\* Data is written to the channel.
LEMMA BodyWrite ==
  ASSUME NEW c, NEW u, NEW k, NEW b, NEW n \in Nat, Body(c, u, k), b \in Chans, Kept(b, k),
         b.closes = c.closes, b.outbuffer = c.outbuffer + n, b.written = c.written + n,
         b.remwindow = c.remwindow, b.locwindow = c.locwindow, b.chanreq = c.chanreq
  PROVE  Body(b, u, k)
<1>1. c \in Chans /\ u \in Seq(Packets) /\ k \in Contexts
  BY DEF Body
<1>2. Waits(b) = Waits(c)
  BY DEF Waits
<1>3. c.outbuffer \in Nat /\ c.written \in Nat /\ Dat(u, k.r) \in Nat /\ k.e.got \in Nat
  BY <1>1, ChanFields, ContextFields, Sums
<1>4. ASSUME Conv(k.i, k.r, c, u, k.e, k.d)
      PROVE  Conv(k.i, k.r, b, u, k.e, k.d)
  <2>1. Streams(k.r, b, u, k.e)
    BY <1>3, <1>4 DEF Conv, Streams
  <2> QED BY <1>2, <1>4, <2>1 DEF Conv, Windows, Replies, Closings
<1> QED BY <1>4 DEF Body

\* What the server will never look at any more: it has sent CLOSE.
LEMMA BodyDrop ==
  ASSUME NEW c, NEW u, NEW k, NEW b, Body(c, u, k), b \in Chans, Kept(b, k),
         Has(k.d, "CLOSE", k.i),
         b.closes = c.closes, b.remwindow = c.remwindow, b.locwindow = c.locwindow
  PROVE  Body(b, u, k)
<1>1. ASSUME Conv(k.i, k.r, c, u, k.e, k.d)
      PROVE  Conv(k.i, k.r, b, u, k.e, k.d)
  BY <1>1 DEF Conv, Windows, Streams, Replies, Closings
<1> QED BY <1>1 DEF Body

-----------------------------------------------------------------------------
(* Handlers.                                                               *)

\* Sending one packet more after others.
LEMMA ConcatAppend ==
  ASSUME NEW s \in Seq(Packets), NEW t \in Seq(Packets), NEW m \in Packets
  PROVE  s \o Append(t, m) = Append(s \o t, m)
<1> DEFINE z == <<m>>
           w == s \o t
<1>1. z \in Seq(Packets) /\ w \in Seq(Packets)
  OBVIOUS
<1>2. Append(t, m) = t \o z /\ Append(w, m) = w \o z
  BY <1>1, AppendIsConcat
<1> HIDE DEF z
<1>3. (s \o t) \o z = s \o (t \o z)
  BY <1>1, ConcatAssociative
<1> QED BY <1>2, <1>3

\* The fields of a packet that is made.
LEMMA PacketIs ==
  ASSUME NEW t, NEW id, NEW a
  PROVE  Packet(t, id, a).type = t /\ Packet(t, id, a).id = id /\ Packet(t, id, a).arg = a
BY DEF Packet

\* The packets the model makes are packets.
LEMMA PacketTyped ==
  ASSUME NEW id \in Ids
  PROVE  /\ \A n \in Nat : /\ Packet("DATA", id, n) \in Packets /\ Packet("ADJUST", id, n) \in Packets
                           /\ Packet("EOF", id, n) \in Packets /\ Packet("OPEN", id, n) \in Packets
                           /\ Packet("CONFIRM", id, n) \in Packets
         /\ \A w \in Requests : Packet("REQ", id, w) \in Packets
         /\ \A s \in BOOLEAN : Packet("RESP", id, s) \in Packets
         /\ Packet("CLOSE", id, 0) \in Packets /\ Packet("OPENFAIL", id, 0) \in Packets
         /\ \A x \in Ids \X Nat : Packet("CONFIRM", id, x) \in Packets
<1>1. \A n \in Nat : /\ Packet("DATA", id, n) \in Packets /\ Packet("ADJUST", id, n) \in Packets
                     /\ Packet("EOF", id, n) \in Packets /\ Packet("OPEN", id, n) \in Packets
                     /\ Packet("CONFIRM", id, n) \in Packets
  BY DEF Packet, Packets, PacketTypes
<1>2. \A w \in Requests : Packet("REQ", id, w) \in Packets
  BY DEF Packet, Packets, PacketTypes
<1>3. \A s \in BOOLEAN : Packet("RESP", id, s) \in Packets
  BY DEF Packet, Packets, PacketTypes
<1>4. Packet("CLOSE", id, 0) \in Packets /\ Packet("OPENFAIL", id, 0) \in Packets
  BY DEF Packet, Packets, PacketTypes
<1>5. \A x \in Ids \X Nat : Packet("CONFIRM", id, x) \in Packets
  BY DEF Packet, Packets, PacketTypes
<1> QED BY <1>1, <1>2, <1>3, <1>4, <1>5

\* What holds inside a handler.
LEMMA WorkFields ==
  ASSUME NEW p, NEW k, Work(p, k)
  PROVE  /\ p \in Works /\ p.c \in Chans /\ p.out \in Seq(Packets) /\ ~p.gone /\ p.err = "none"
         /\ p.abort \in BOOLEAN /\ k \in Contexts
         /\ Body(p.c, Up(p, k), k) /\ Kept(p.c, k) /\ p.c.remoteid = k.r /\ k.r \in Ids
         /\ ~p.c.halfopen /\ ChanOK(p.c) /\ Expects(p.c, k.d, k.i) /\ (k.strict => SocketOK(p.c))
BY ContextFields DEF Work, Works, Body, Kept

\* The two ways a handler changes its record: the channel becomes b, and packet m is sent.
Put(p, b) == [p EXCEPT !.c = b]
Emit(p, b, m) == [p EXCEPT !.c = b, !.out = Append(@, m)]

\* A handler may change its channel to any that the context allows.
LEMMA PutWork ==
  ASSUME NEW p, NEW k, Work(p, k), NEW b, Body(b, Up(p, k), k)
  PROVE  Work(Put(p, b), k) /\ Put(p, b).c = b /\ Put(p, b).abort = p.abort /\ b \in Chans
<1>1. p \in Works /\ b \in Chans /\ ~p.gone /\ p.err = "none"
  BY DEF Work, Body
<1>2. /\ Put(p, b) \in Works /\ Put(p, b).c = b /\ Put(p, b).out = p.out /\ Put(p, b).gone = p.gone
      /\ Put(p, b).err = p.err /\ Put(p, b).abort = p.abort
  BY <1>1 DEF Works, Put
<1>3. Up(Put(p, b), k) = Up(p, k)
  BY <1>2 DEF Up
<1> QED BY <1>1, <1>2, <1>3 DEF Work

\* A handler may change its channel and send a packet, when the context allows both.
LEMMA EmitWork ==
  ASSUME NEW p, NEW k, Work(p, k), NEW b, NEW m \in Packets, Body(b, Append(Up(p, k), m), k)
  PROVE  Work(Emit(p, b, m), k) /\ Emit(p, b, m).c = b /\ Emit(p, b, m).abort = p.abort /\ b \in Chans
<1>1. p \in Works /\ b \in Chans /\ ~p.gone /\ p.err = "none" /\ k \in Contexts
  BY DEF Work, Body
<1>2. p.out \in Seq(Packets) /\ k.u \in Seq(Packets)
  BY <1>1, ContextFields DEF Works
<1> DEFINE o == Append(p.out, m)
           q == Emit(p, b, m)
<1>3. o \in Seq(Packets)
  BY <1>2
<1>4. q = [p EXCEPT !.c = b, !.out = o]
  BY <1>1 DEF Emit, Works
<1>5. k.u \o o = Append(Up(p, k), m)
  BY <1>2, ConcatAppend DEF Up
<1> HIDE DEF o, q
<1>6. /\ q \in Works /\ q.c = b /\ q.out = o /\ q.gone = p.gone /\ q.err = p.err /\ q.abort = p.abort
  BY ONLY <1>1, <1>3, <1>4 DEF Works
<1>7. Up(q, k) = Append(Up(p, k), m)
  BY <1>5, <1>6 DEF Up
<1>8. Work(q, k)
  BY <1>1, <1>6, <1>7 DEF Work
<1> QED BY <1>1, <1>6, <1>8 DEF q

\* ssh2_channel_check_close, before the server's CLOSE has come.
LEMMA CheckClose ==
  ASSUME NEW p, NEW k, Work(p, k)
  PROVE  /\ Work(ssh2_channel_check_close(p), k)
         /\ ssh2_channel_check_close(p).c =
              [p.c EXCEPT !.closes = ssh2_channel_check_close(p).c.closes]
         /\ p.c.closes \subseteq ssh2_channel_check_close(p).c.closes
<1> DEFINE r == ssh2_channel_check_close(p)
           c == p.c
           closing == want_close(p) /\ c.chanreq = <<>> /\ ~Done(p, {"SENT_CLOSE"})
           m == Packet("CLOSE", c.remoteid, 0)
           b == [c EXCEPT !.closes = @ \cup {"SENT_EOF", "SENT_CLOSE"}]
           q == Emit(p, b, m)
<1>1. /\ p \in Works /\ c \in Chans /\ k \in Contexts /\ Body(c, Up(p, k), k) /\ Kept(c, k)
      /\ c.remoteid = k.r /\ k.r \in Ids /\ ~c.halfopen /\ ChanOK(c) /\ (k.strict => SocketOK(c))
  BY WorkFields
<1>2. CASE ~closing
  <2>1. r = p
    BY <1>1, <1>2 DEF ssh2_channel_check_close, Done, ChanOK
  <2>2. c = [c EXCEPT !.closes = c.closes]
    BY <1>1 DEF Chans
  <2> QED BY <2>1, <2>2
<1>3. CASE closing
  <2>1. "SENT_CLOSE" \notin c.closes /\ c.chanreq = <<>>
        /\ (c.kind = "zombie" \/ {"SENT_EOF", "RCVD_EOF"} \subseteq c.closes)
    BY <1>3 DEF want_close, Done
  <2>2. /\ b \in Chans /\ b.closes = c.closes \cup {"SENT_EOF", "SENT_CLOSE"} /\ b.kind = c.kind
        /\ b.locwindow = c.locwindow /\ b.chanreq = c.chanreq /\ b.remoteid = c.remoteid
        /\ b.halfopen = c.halfopen /\ b.sink = c.sink /\ b.locmaxwin = c.locmaxwin
        /\ b.pending_eof = c.pending_eof /\ b.localEof = c.localEof
    BY <1>1 DEF Chans, Closes
  <2>3. q = [Send(p, "CLOSE", 0) EXCEPT !.c.closes = @ \cup {"SENT_EOF", "SENT_CLOSE"}]
    BY <1>1 DEF Send, Works, Emit
  <2>4. m \in Packets /\ m.id = k.r /\ m.type = "CLOSE"
    BY <1>1, PacketTyped, PacketIs
  <2> HIDE DEF b, m
  <2>5. Kept(b, k)
    <3>1. ChanOK(b)
      BY <1>1, <2>1, <2>2 DEF ChanOK
    <3>2. Expects(b, k.d, k.i)
      BY <1>1, <2>2 DEF Kept, Expects, Waits
    <3>3. k.strict => SocketOK(b)
      BY <1>1, <2>1, <2>2 DEF SocketOK
    <3> QED BY <1>1, <2>2, <3>1, <3>2, <3>3 DEF Kept
  <2>6. Body(b, Append(Up(p, k), m), k)
    BY <1>1, <2>1, <2>2, <2>4, <2>5, BodyClose
  <2>7. Work(q, k) /\ q.c = b
    BY <2>4, <2>6, EmitWork
  <2> HIDE DEF q
  <2>8. r = q
    <3>1. ~Done(q, {"SENT_CLOSE", "RCVD_CLOSE"})
      <4>1. "RCVD_CLOSE" \notin b.closes
        BY <1>1, <2>2 DEF ChanOK
      <4> QED BY <2>7, <4>1 DEF Done
    <3> QED BY <1>1, <1>3, <2>3, <3>1 DEF ssh2_channel_check_close
  <2>9. b = [c EXCEPT !.closes = b.closes] /\ c.closes \subseteq b.closes
    BY <1>1, <2>2 DEF b, Chans
  <2> HIDE DEF r
  <2> QED BY <2>7, <2>8, <2>9 DEF r
<1> QED BY <1>2, <1>3

\* b and c differ in what only mainchan and the window keeping look at.
Minor(b, c) ==
  /\ b \in Chans /\ b.kind = c.kind /\ b.remoteid = c.remoteid /\ b.halfopen = c.halfopen
  /\ b.closes = c.closes /\ b.pending_eof = c.pending_eof /\ b.outbuffer = c.outbuffer
  /\ b.written = c.written /\ b.remwindow = c.remwindow /\ b.locwindow = c.locwindow
  /\ b.locmaxwin = c.locmaxwin /\ b.chanreq = c.chanreq /\ b.sink = c.sink /\ b.localEof = c.localEof

\* A handler may change what only mainchan and the window keeping look at.
LEMMA PutMinor ==
  ASSUME NEW p, NEW k, Work(p, k), NEW b, Minor(b, p.c)
  PROVE  Work(Put(p, b), k) /\ Put(p, b).c = b
<1> DEFINE c == p.c
<1>1. Kept(c, k) /\ Body(c, Up(p, k), k)
  BY WorkFields
<1>2. Kept(b, k)
  BY <1>1 DEF Minor, Kept, ChanOK, SocketOK, Expects, Waits
<1>3. Body(b, Up(p, k), k)
  BY <1>1, <1>2, BodyQuiet DEF Minor
<1> QED BY <1>3, PutWork

\* The changes that are of that kind.
LEMMA MinorChanges ==
  ASSUME NEW c \in Chans
  PROVE  /\ \A x \in BOOLEAN : /\ Minor([c EXCEPT !.wanted = x], c) /\ Minor([c EXCEPT !.got_pty = x], c)
                               /\ Minor([c EXCEPT !.eof_pending = x], c) /\ Minor([c EXCEPT !.eof_sent = x], c)
                               /\ Minor([c EXCEPT !.eof_sent = TRUE, !.wanted = x], c)
                               /\ Minor([c EXCEPT !.ready = TRUE, !.wanted = x], c)
         /\ \A t \in {"UNTHROTTLED", "UNTHROTTLING", "THROTTLED"} : Minor([c EXCEPT !.throttle_state = t], c)
         /\ \A t \in {"UNTHROTTLED", "UNTHROTTLING", "THROTTLED"}, n \in Int :
              Minor([c EXCEPT !.remlocwin = n, !.throttle_state = t], c)
<1>1. \A x \in BOOLEAN : Minor([c EXCEPT !.wanted = x], c) /\ Minor([c EXCEPT !.got_pty = x], c)
  BY DEF Minor, Chans
<1>2. \A x \in BOOLEAN : Minor([c EXCEPT !.eof_pending = x], c) /\ Minor([c EXCEPT !.eof_sent = x], c)
  BY DEF Minor, Chans
<1>3. \A x \in BOOLEAN : Minor([c EXCEPT !.eof_sent = TRUE, !.wanted = x], c)
  BY DEF Minor, Chans
<1>4. \A x \in BOOLEAN : Minor([c EXCEPT !.ready = TRUE, !.wanted = x], c)
  BY DEF Minor, Chans
<1>5. \A t \in {"UNTHROTTLED", "UNTHROTTLING", "THROTTLED"} : Minor([c EXCEPT !.throttle_state = t], c)
  BY DEF Minor, Chans
<1>6. \A t \in {"UNTHROTTLED", "UNTHROTTLING", "THROTTLED"}, n \in Int :
        Minor([c EXCEPT !.remlocwin = n, !.throttle_state = t], c)
  BY DEF Minor, Chans
<1> QED BY <1>1, <1>2, <1>3, <1>4, <1>5, <1>6

\* ssh2_chanreq_init; only the main channel asks for more than "winadj".
LEMMA ChanreqInit ==
  ASSUME NEW p, NEW k, Work(p, k), "SENT_CLOSE" \notin p.c.closes,
         NEW what \in Requests, NEW n \in Nat, p.c.kind # "main" => what = "winadj"
  PROVE  /\ Work(ssh2_chanreq_init(p, what, n), k)
         /\ ssh2_chanreq_init(p, what, n).c =
              [p.c EXCEPT !.chanreq = ssh2_chanreq_init(p, what, n).c.chanreq]
<1> DEFINE c == p.c
           s == IF what = "window-change" THEN c.chanreq ELSE Append(c.chanreq, [what |-> what, n |-> n])
           m == Packet("REQ", c.remoteid, what)
           b == [c EXCEPT !.chanreq = s]
           q == Emit(p, b, m)
<1>1. /\ p \in Works /\ c \in Chans /\ k \in Contexts /\ Body(c, Up(p, k), k) /\ Kept(c, k)
      /\ c.remoteid = k.r /\ k.r \in Ids /\ ~c.halfopen /\ ChanOK(c) /\ (k.strict => SocketOK(c))
  BY WorkFields
<1>2. /\ c.chanreq \in Seq(Awaited) /\ Len(c.chanreq) \in Nat
      /\ [what |-> what, n |-> n] \in Awaited
      /\ c.kind # "main" => [what |-> what, n |-> n] \in Winadjs
  BY <1>1, ChanFields DEF Awaited, Winadjs, Waits
<1>3. /\ s \in Seq(Awaited)
      /\ c.kind # "main" => s \in Seq(Winadjs)
      /\ Len(s) = Len(c.chanreq) + (IF what = "window-change" THEN 0 ELSE 1)
  <2> DEFINE o == c.chanreq
             a == [what |-> what, n |-> n]
  <2>1. o \in Seq(Awaited) /\ Len(o) \in Nat /\ a \in Awaited
    BY <1>2
  <2>2. c.kind # "main" => o \in Seq(Winadjs) /\ a \in Winadjs
    BY <1>1, <1>2 DEF ChanOK
  <2>3. s = IF what = "window-change" THEN o ELSE Append(o, a)
    OBVIOUS
  <2> HIDE DEF o, a, s
  <2>4. CASE what = "window-change"
    BY <2>1, <2>2, <2>3, <2>4 DEF o
  <2>5. CASE what # "window-change"
    <3>1. s = Append(o, a)
      BY <2>3, <2>5
    <3>2. Append(o, a) \in Seq(Awaited) /\ Len(Append(o, a)) = Len(o) + 1
      BY <2>1
    <3>3. c.kind # "main" => Append(o, a) \in Seq(Winadjs)
      BY <2>2
    <3> QED BY <2>5, <3>1, <3>2, <3>3 DEF o
  <2> QED BY <2>4, <2>5
<1> HIDE DEF s
<1>4. /\ b \in Chans /\ b.closes = c.closes /\ b.kind = c.kind
      /\ b.locwindow = c.locwindow /\ b.chanreq = s /\ b.remoteid = c.remoteid
      /\ b.halfopen = c.halfopen /\ b.sink = c.sink /\ b.locmaxwin = c.locmaxwin
      /\ b.pending_eof = c.pending_eof /\ b.localEof = c.localEof
      /\ b.outbuffer = c.outbuffer /\ b.written = c.written /\ b.remwindow = c.remwindow
  BY <1>1, <1>3 DEF Chans
<1>5. ssh2_chanreq_init(p, what, n) = q
  <2>1. ~Done(p, {"SENT_CLOSE"}) /\ ~Done(p, {"RCVD_CLOSE"})
    BY <1>1 DEF Done, ChanOK
  <2>2. [Send(p, "REQ", what) EXCEPT
          !.c.chanreq = IF what = "window-change" THEN @
                        ELSE Append(@, [what |-> what, n |-> n])] = q
    BY <1>1 DEF Send, Works, Emit, s
  <2> QED BY <2>1, <2>2 DEF ssh2_chanreq_init
<1>6. m \in Packets /\ m.id = k.r /\ m.type = "REQ" /\ m.arg = what
  BY <1>1, PacketTyped, PacketIs
<1>7. b = [c EXCEPT !.chanreq = b.chanreq]
  BY <1>4
<1> HIDE DEF b, m
<1>8. Waits(b) = Waits(c) + (IF m.arg = "window-change" THEN 0 ELSE 1) /\ Waits(c) \in Nat /\ Waits(b) \in Nat
  <2>1. Waits(b) = Len(s) /\ Waits(c) = Len(c.chanreq)
    BY <1>4 DEF Waits
  <2>2. CASE what = "window-change"
    BY <1>2, <1>3, <1>6, <2>1, <2>2
  <2>3. CASE what # "window-change"
    BY <1>2, <1>3, <1>6, <2>1, <2>3
  <2> QED BY <2>2, <2>3
<1>9. Kept(b, k)
  <2>1. ChanOK(b)
    BY <1>1, <1>3, <1>4 DEF ChanOK
  <2>2. Rsp(k.d, k.i) <= Waits(c) /\ Rsp(k.d, k.i) \in Nat
    BY <1>1, ContextFields DEF Kept, Expects
  <2>3. Rsp(k.d, k.i) <= Waits(b)
    BY ONLY <1>8, <2>2
  <2>4. Expects(b, k.d, k.i)
    BY <1>1, <1>4, <2>3 DEF Kept, Expects
  <2>5. k.strict => SocketOK(b)
    BY <1>1, <1>4 DEF SocketOK
  <2> QED BY <1>1, <1>4, <2>1, <2>4, <2>5 DEF Kept
<1>10. Body(b, Append(Up(p, k), m), k)
  BY <1>1, <1>4, <1>6, <1>8, <1>9, BodyRequest
<1>11. Work(q, k) /\ q.c = b
  BY <1>6, <1>10, EmitWork
<1> QED BY <1>5, <1>7, <1>11

\* ssh2_channel_try_eof, while EOF has not been sent.
LEMMA TryEof ==
  ASSUME NEW p, NEW k, Work(p, k), "SENT_EOF" \notin p.c.closes,
         k.strict => (p.c.kind = "fwd" => p.c.localEof)
  PROVE  /\ Work(ssh2_channel_try_eof(p), k)
         /\ p.c.closes \subseteq ssh2_channel_try_eof(p).c.closes
         /\ ssh2_channel_try_eof(p).c.chanreq = p.c.chanreq
         /\ p.c.outbuffer = 0 => "SENT_EOF" \in ssh2_channel_try_eof(p).c.closes
<1> DEFINE c == p.c
           m == Packet("EOF", c.remoteid, c.written)
           b == [c EXCEPT !.pending_eof = FALSE, !.closes = @ \cup {"SENT_EOF"}]
           q == Emit(p, b, m)
<1>1. /\ p \in Works /\ c \in Chans /\ k \in Contexts /\ Body(c, Up(p, k), k) /\ Kept(c, k)
      /\ c.remoteid = k.r /\ k.r \in Ids /\ ~c.halfopen /\ ChanOK(c)
  BY WorkFields
<1>2. CASE c.outbuffer > 0
  <2>1. c.outbuffer # 0
    BY <1>1, <1>2, ChanFields
  <2> QED BY <1>2, <2>1 DEF ssh2_channel_try_eof
<1>3. CASE ~(c.outbuffer > 0)
  <2>1. c.outbuffer = 0 /\ c.written \in Nat
    BY <1>1, <1>3, ChanFields
  <2>2. /\ b \in Chans /\ b.closes = c.closes \cup {"SENT_EOF"} /\ b.kind = c.kind
        /\ b.locwindow = c.locwindow /\ b.chanreq = c.chanreq /\ b.remoteid = c.remoteid
        /\ b.halfopen = c.halfopen /\ b.sink = c.sink /\ b.locmaxwin = c.locmaxwin
        /\ b.localEof = c.localEof
    BY <1>1 DEF Chans, Closes
  <2>3. ssh2_channel_try_eof(p) = ssh2_channel_check_close(q)
    <3>1. q = [Send(p, "EOF", p.c.written) EXCEPT !.c.pending_eof = FALSE,
                                                  !.c.closes = @ \cup {"SENT_EOF"}]
      BY <1>1 DEF Send, Works, Emit
    <3> QED BY <1>1, <1>3, <3>1 DEF ssh2_channel_try_eof
  <2>4. m \in Packets /\ m.id = k.r /\ m.type = "EOF" /\ m.arg = c.written
    BY <1>1, <2>1, PacketTyped, PacketIs
  <2> HIDE DEF b, m
  <2>5. Kept(b, k)
    <3>1. ChanOK(b)
      BY <1>1, <2>2 DEF ChanOK
    <3>2. Expects(b, k.d, k.i)
      BY <1>1, <2>2 DEF Kept, Expects, Waits
    <3>3. k.strict => SocketOK(b)
      BY <2>2 DEF SocketOK
    <3> QED BY <1>1, <2>2, <3>1, <3>2, <3>3 DEF Kept
  <2>6. Body(b, Append(Up(p, k), m), k)
    BY <1>1, <2>1, <2>2, <2>4, <2>5, BodyEof
  <2>7. Work(q, k) /\ q.c = b
    BY <2>4, <2>6, EmitWork
  <2> HIDE DEF q
  <2> DEFINE r == ssh2_channel_check_close(q)
  <2>8. Work(r, k) /\ r.c = [q.c EXCEPT !.closes = r.c.closes] /\ q.c.closes \subseteq r.c.closes
    BY <2>7, CheckClose
  <2> HIDE DEF r
  <2>9. r.c.chanreq = b.chanreq
    BY <2>2, <2>7, <2>8 DEF Chans
  <2> QED BY <2>2, <2>3, <2>7, <2>8, <2>9 DEF r
<1> QED BY <1>2, <1>3

\* ssh2_try_send, while EOF has not been sent.
LEMMA TrySend ==
  ASSUME NEW p, NEW k, Work(p, k), "SENT_EOF" \notin p.c.closes, k.strict
  PROVE  Work(ssh2_try_send(p), k)
<1> DEFINE c == p.c
           n == IF c.outbuffer < c.remwindow THEN c.outbuffer ELSE c.remwindow
           m == Packet("DATA", c.remoteid, n)
           b == [c EXCEPT !.outbuffer = @ - n, !.remwindow = @ - n]
           q == IF n = 0 THEN p ELSE Emit(p, b, m)
<1>1. /\ p \in Works /\ c \in Chans /\ k \in Contexts /\ Body(c, Up(p, k), k) /\ Kept(c, k)
      /\ c.remoteid = k.r /\ k.r \in Ids /\ ~c.halfopen /\ ChanOK(c) /\ SocketOK(c)
  BY WorkFields
<1>2. n \in Nat /\ n <= c.outbuffer /\ n <= c.remwindow /\ c.outbuffer - n \in Nat /\ c.remwindow - n \in Nat
  BY <1>1, ChanFields
<1> HIDE DEF n
<1>3. ssh2_try_send(p) = IF q.c.outbuffer = 0 /\ q.c.pending_eof THEN ssh2_channel_try_eof(q) ELSE q
  <2>1. Emit(p, b, m) = [Send(p, "DATA", n) EXCEPT !.c.outbuffer = @ - n, !.c.remwindow = @ - n]
    BY <1>1 DEF Send, Works, Emit
  <2> HIDE DEF b, m
  <2> QED BY <1>1, <2>1 DEF ssh2_try_send, n
<1>4. Work(q, k) /\ "SENT_EOF" \notin q.c.closes
  <2>1. CASE n = 0
    BY <2>1
  <2>2. CASE n # 0
    <3>1. /\ b \in Chans /\ b.closes = c.closes /\ b.kind = c.kind
          /\ b.locwindow = c.locwindow /\ b.chanreq = c.chanreq /\ b.remoteid = c.remoteid
          /\ b.halfopen = c.halfopen /\ b.sink = c.sink /\ b.locmaxwin = c.locmaxwin
          /\ b.localEof = c.localEof /\ b.pending_eof = c.pending_eof /\ b.written = c.written
          /\ b.outbuffer = c.outbuffer - n /\ b.remwindow = c.remwindow - n
      BY <1>1, <1>2 DEF Chans
    <3>2. m \in Packets /\ m.id = k.r /\ m.type = "DATA" /\ m.arg = n
      BY <1>1, <1>2, PacketTyped, PacketIs
    <3> HIDE DEF b, m
    <3>3. Kept(b, k)
      BY <1>1, <3>1 DEF Kept, ChanOK, SocketOK, Expects, Waits
    <3>4. Body(b, Append(Up(p, k), m), k)
      BY <1>1, <1>2, <3>1, <3>2, <3>3, BodyData
    <3>5. Work(Emit(p, b, m), k) /\ Emit(p, b, m).c = b
      BY <3>2, <3>4, EmitWork
    <3> QED BY <2>2, <3>1, <3>5
  <2> QED BY <2>1, <2>2
<1> HIDE DEF q
<1>5. CASE q.c.outbuffer = 0 /\ q.c.pending_eof
  <2>1. q.c.kind = "fwd" => q.c.localEof
    BY <1>4, <1>5, WorkFields DEF SocketOK
  <2>2. Work(ssh2_channel_try_eof(q), k)
    BY <1>4, <2>1, TryEof
  <2> QED BY <1>3, <1>5, <2>2
<1>6. CASE ~(q.c.outbuffer = 0 /\ q.c.pending_eof)
  BY <1>3, <1>4, <1>6
<1> QED BY <1>5, <1>6

\* ssh2_channel_check_throttle keeps the channel in order.
LEMMA CheckThrottle ==
  ASSUME NEW p, NEW k, Work(p, k)
  PROVE  /\ Work(ssh2_channel_check_throttle(p), k)
         /\ ssh2_channel_check_throttle(p).c.closes = p.c.closes
         /\ ssh2_channel_check_throttle(p).c.chanreq = p.c.chanreq
<1> DEFINE x == p.c.kind = "main" /\ ~p.c.pending_eof /\ ~Done(p, {"SENT_EOF"})
           b == [p.c EXCEPT !.wanted = x]
<1>1. p \in Works /\ p.c \in Chans
  BY WorkFields
<1>2. x \in BOOLEAN
  OBVIOUS
<1>3. ssh2_channel_check_throttle(p) = Put(p, b)
  BY <1>1 DEF ssh2_channel_check_throttle, Put, Works
<1> HIDE DEF x
<1>4. Minor(b, p.c)
  BY <1>1, <1>2, MinorChanges
<1> HIDE DEF b
<1>5. Work(Put(p, b), k) /\ Put(p, b).c = b
  BY <1>4, PutMinor
<1> QED BY <1>3, <1>4, <1>5 DEF Minor

\* ssh2_try_send_and_unthrottle keeps the channel in order; a pending EOF goes after
\* the data.
LEMMA TrySendAndUnthrottle ==
  ASSUME NEW p, NEW k, Work(p, k), "SENT_EOF" \notin p.c.closes, k.strict
  PROVE  Work(ssh2_try_send_and_unthrottle(p), k)
<1> DEFINE q == ssh2_try_send(p)
<1>1. Work(q, k)
  BY TrySend
<1>2. Work(ssh2_channel_check_throttle(q), k)
  BY <1>1, CheckThrottle
<1> QED BY <1>1, <1>2 DEF ssh2_try_send_and_unthrottle, Done

\* ssh2channel_write, while EOF has not been sent.
LEMMA WriteWork ==
  ASSUME NEW p, NEW k, Work(p, k), "SENT_EOF" \notin p.c.closes, k.strict, NEW n \in Nat
  PROVE  Work(ssh2channel_write(p, n), k)
<1> DEFINE c == p.c
           b == [c EXCEPT !.outbuffer = @ + n, !.written = @ + n]
<1>1. /\ p \in Works /\ c \in Chans /\ k \in Contexts /\ Body(c, Up(p, k), k) /\ Kept(c, k)
  BY WorkFields
<1>2. ssh2channel_write(p, n) = ssh2_try_send(Put(p, b))
  BY <1>1 DEF ssh2channel_write, Done, Put, Works
<1>3. /\ b \in Chans /\ b.closes = c.closes /\ b.kind = c.kind
      /\ b.locwindow = c.locwindow /\ b.chanreq = c.chanreq /\ b.remoteid = c.remoteid
      /\ b.halfopen = c.halfopen /\ b.sink = c.sink /\ b.locmaxwin = c.locmaxwin
      /\ b.localEof = c.localEof /\ b.pending_eof = c.pending_eof /\ b.remwindow = c.remwindow
      /\ b.outbuffer = c.outbuffer + n /\ b.written = c.written + n
  <2> DEFINE x == c.outbuffer + n
             y == c.written + n
  <2>1. x \in Nat /\ y \in Nat
    BY <1>1, ChanFields
  <2>2. b = [c EXCEPT !.outbuffer = x, !.written = y]
    OBVIOUS
  <2> HIDE DEF x, y, b
  <2>3. /\ b \in Chans /\ b.closes = c.closes /\ b.kind = c.kind
        /\ b.locwindow = c.locwindow /\ b.chanreq = c.chanreq /\ b.remoteid = c.remoteid
        /\ b.halfopen = c.halfopen /\ b.sink = c.sink /\ b.locmaxwin = c.locmaxwin
        /\ b.localEof = c.localEof /\ b.pending_eof = c.pending_eof /\ b.remwindow = c.remwindow
        /\ b.outbuffer = x /\ b.written = y
    BY <1>1, <2>1, <2>2 DEF Chans
  <2> QED BY <2>3 DEF x, y
<1> HIDE DEF b
<1>4. Kept(b, k)
  BY <1>1, <1>3 DEF Kept, ChanOK, SocketOK, Expects, Waits
<1>5. Body(b, Up(p, k), k)
  BY <1>1, <1>3, <1>4, BodyWrite
<1>6. Work(Put(p, b), k) /\ Put(p, b).c = b
  BY <1>5, PutWork
<1>7. "SENT_EOF" \notin Put(p, b).c.closes
  BY <1>3, <1>6
<1>8. Work(ssh2_try_send(Put(p, b)), k)
  BY <1>6, <1>7, TrySend
<1> QED BY <1>2, <1>8

\* ssh2channel_write_eof; a forwarding's only when its socket has ended.
LEMMA WriteEof ==
  ASSUME NEW p, NEW k, Work(p, k), k.strict => (p.c.kind = "fwd" => p.c.localEof)
  PROVE  /\ Work(ssh2channel_write_eof(p), k)
         /\ p.c.closes \subseteq ssh2channel_write_eof(p).c.closes
         /\ ssh2channel_write_eof(p).c.chanreq = p.c.chanreq
         /\ p.c.outbuffer = 0 => "SENT_EOF" \in ssh2channel_write_eof(p).c.closes
<1> DEFINE c == p.c
           b == [c EXCEPT !.pending_eof = TRUE]
           q == Put(p, b)
<1>1. /\ p \in Works /\ c \in Chans /\ k \in Contexts /\ Body(c, Up(p, k), k) /\ Kept(c, k)
  BY WorkFields
<1>2. CASE "SENT_EOF" \in c.closes
  <2>1. ssh2channel_write_eof(p) = p
    BY <1>2 DEF ssh2channel_write_eof, Done
  <2> QED BY <1>2, <2>1
<1>3. CASE "SENT_EOF" \notin c.closes
  <2>1. ssh2channel_write_eof(p) = ssh2_channel_try_eof(q)
    BY <1>1, <1>3 DEF ssh2channel_write_eof, Done, Put, Works
  <2>2. /\ b \in Chans /\ b.closes = c.closes /\ b.kind = c.kind
        /\ b.locwindow = c.locwindow /\ b.chanreq = c.chanreq /\ b.remoteid = c.remoteid
        /\ b.halfopen = c.halfopen /\ b.sink = c.sink /\ b.locmaxwin = c.locmaxwin
        /\ b.localEof = c.localEof /\ b.remwindow = c.remwindow
        /\ b.outbuffer = c.outbuffer /\ b.written = c.written
    BY <1>1 DEF Chans
  <2> HIDE DEF b
  <2>3. Kept(b, k)
    BY <1>1, <2>2 DEF Kept, ChanOK, SocketOK, Expects, Waits
  <2>4. Body(b, Up(p, k), k)
    BY <1>1, <2>2, <2>3, BodyQuiet
  <2>5. Work(q, k) /\ q.c = b
    BY <2>4, PutWork
  <2> HIDE DEF q
  <2>6. /\ "SENT_EOF" \notin q.c.closes /\ (k.strict => (q.c.kind = "fwd" => q.c.localEof))
        /\ q.c.closes = c.closes /\ q.c.chanreq = c.chanreq /\ q.c.outbuffer = c.outbuffer
    BY <1>3, <2>2, <2>5
  <2>7. /\ Work(ssh2_channel_try_eof(q), k)
        /\ q.c.closes \subseteq ssh2_channel_try_eof(q).c.closes
        /\ ssh2_channel_try_eof(q).c.chanreq = q.c.chanreq
        /\ q.c.outbuffer = 0 => "SENT_EOF" \in ssh2_channel_try_eof(q).c.closes
    BY <2>5, <2>6, TryEof
  <2> QED BY <2>1, <2>6, <2>7
<1> QED BY <1>2, <1>3

\* ssh2channel_initiate_close keeps the channel in order.
LEMMA InitiateClose ==
  ASSUME NEW p, NEW k, Work(p, k), p.c.kind # "main"
  PROVE  Work(ssh2channel_initiate_close(p), k)
<1> DEFINE c == p.c
           b == [c EXCEPT !.kind = "zombie", !.sink = 0, !.pending_eof = FALSE]
           q == Put(p, b)
<1>1. /\ p \in Works /\ c \in Chans /\ k \in Contexts /\ Body(c, Up(p, k), k) /\ Kept(c, k)
  BY WorkFields
<1>2. ssh2channel_initiate_close(p) = ssh2_channel_check_close(q)
  BY <1>1 DEF ssh2channel_initiate_close, Put, Works
<1>3. /\ b \in Chans /\ b.closes = c.closes /\ b.kind = "zombie" /\ b.sink = 0
      /\ b.locwindow = c.locwindow /\ b.chanreq = c.chanreq /\ b.remoteid = c.remoteid
      /\ b.halfopen = c.halfopen /\ b.locmaxwin = c.locmaxwin
      /\ b.remwindow = c.remwindow /\ b.outbuffer = c.outbuffer /\ b.written = c.written
  BY <1>1 DEF Chans
<1> HIDE DEF b
<1>4. Kept(b, k)
  <2>1. b.sink + b.locwindow <= b.locmaxwin
    BY <1>1, <1>3, ChanFields DEF Kept, ChanOK
  <2> QED BY <1>1, <1>3, <2>1 DEF Kept, ChanOK, SocketOK, Expects, Waits
<1>5. Body(b, Up(p, k), k)
  BY <1>1, <1>3, <1>4, BodyQuiet
<1>6. Work(q, k)
  BY <1>5, PutWork
<1> QED BY <1>2, <1>6, CheckClose

\* ssh2_set_window, for a window that fits beside what the local side holds.
LEMMA SetWindow ==
  ASSUME NEW p, NEW k, Work(p, k), NEW newwin \in Nat, p.c.sink + newwin <= p.c.locmaxwin
  PROVE  Work(ssh2_set_window(p, newwin), k)
<1> DEFINE c == p.c
           grow == newwin - c.locwindow
           init == ssh2_chanreq_init(p, "winadj", grow)
           state == IF init.c.throttle_state = "UNTHROTTLED" THEN init.c.throttle_state ELSE "UNTHROTTLING"
           a1 == Put(init, [init.c EXCEPT !.throttle_state = state])
           a2 == Put(p, [c EXCEPT !.remlocwin = newwin, !.throttle_state = "THROTTLED"])
           asked == IF newwin = c.locmaxwin THEN a1 ELSE a2
<1>1. /\ p \in Works /\ c \in Chans /\ k \in Contexts /\ Kept(c, k) /\ ChanOK(c)
  BY WorkFields
<1>2. CASE "RCVD_EOF" \in c.closes \/ "SENT_CLOSE" \in c.closes \/ newwin \div 2 < c.locwindow
  <2>1. ssh2_set_window(p, newwin) = p
    BY <1>2 DEF ssh2_set_window, Done
  <2> QED BY <2>1
<1>3. CASE ~("RCVD_EOF" \in c.closes \/ "SENT_CLOSE" \in c.closes \/ newwin \div 2 < c.locwindow)
  <2>1. grow \in Nat /\ c.locwindow \in Nat /\ c.locwindow <= newwin /\ c.locwindow + grow = newwin
    <3>1. c.locwindow \in Nat /\ ~(newwin \div 2 < c.locwindow)
      BY <1>1, <1>3, ChanFields
    <3> DEFINE x == c.locwindow
    <3> HIDE DEF x
    <3>2. x \in Nat /\ x <= newwin \div 2 /\ newwin \div 2 <= newwin
      BY <3>1 DEF x
    <3>3. newwin - x \in Nat /\ x <= newwin /\ x + (newwin - x) = newwin
      BY <3>2
    <3> QED BY <3>1, <3>3 DEF x
  <2> HIDE DEF grow
  <2>2. Work(init, k) /\ init.c = [c EXCEPT !.chanreq = init.c.chanreq]
    BY <1>3, <2>1, ChanreqInit DEF Requests
  <2>3. /\ init \in Works /\ init.c \in Chans /\ init.c.closes = c.closes /\ init.c.sink = c.sink
        /\ init.c.locwindow = c.locwindow /\ init.c.locmaxwin = c.locmaxwin
    BY <1>1, <2>2, WorkFields DEF Chans
  <2> HIDE DEF init
  <2>4. state \in {"UNTHROTTLED", "UNTHROTTLING", "THROTTLED"}
    BY <2>3, ChanFields
  <2> HIDE DEF state
  <2>5. Minor([init.c EXCEPT !.throttle_state = state], init.c)
    BY <2>3, <2>4, MinorChanges
  <2>6. Work(a1, k) /\ Minor(a1.c, init.c)
    BY <2>2, <2>5, PutMinor
  <2>7. Minor([c EXCEPT !.remlocwin = newwin, !.throttle_state = "THROTTLED"], c)
    <3>1. newwin \in Int
      OBVIOUS
    <3> QED BY <1>1, <3>1, MinorChanges
  <2>8. Work(a2, k) /\ Minor(a2.c, c)
    BY <2>7, PutMinor
  <2>9. ssh2_set_window(p, newwin) = [Send(asked, "ADJUST", grow) EXCEPT !.c.locwindow = newwin]
    <3>1. a1 = [init EXCEPT !.c.throttle_state = IF @ = "UNTHROTTLED" THEN @ ELSE "UNTHROTTLING"]
      BY <2>3 DEF Put, Works, state
    <3>2. a2 = [p EXCEPT !.c.remlocwin = newwin, !.c.throttle_state = "THROTTLED"]
      BY <1>1 DEF Put, Works
    <3> HIDE DEF a1, a2
    <3> QED BY <1>3, <3>1, <3>2 DEF ssh2_set_window, Done, grow, init
  <2>10. /\ Work(asked, k) /\ asked.c.closes = c.closes /\ asked.c.sink = c.sink
         /\ asked.c.locwindow = c.locwindow /\ asked.c.locmaxwin = c.locmaxwin
    <3> HIDE DEF a1, a2
    <3>1. CASE newwin = c.locmaxwin
      BY <2>3, <2>6, <3>1 DEF Minor
    <3>2. CASE newwin # c.locmaxwin
      BY <2>8, <3>2 DEF Minor
    <3> QED BY <3>1, <3>2
  <2> HIDE DEF asked
  <2> DEFINE e == asked.c
             m == Packet("ADJUST", e.remoteid, grow)
             b == [e EXCEPT !.locwindow = newwin]
             q == Emit(asked, b, m)
  <2>11. /\ asked \in Works /\ e \in Chans /\ Body(e, Up(asked, k), k) /\ Kept(e, k)
         /\ e.remoteid = k.r /\ k.r \in Ids
    BY <2>10, WorkFields
  <2>12. /\ b \in Chans /\ b.closes = e.closes /\ b.kind = e.kind
         /\ b.locwindow = newwin /\ b.chanreq = e.chanreq /\ b.remoteid = e.remoteid
         /\ b.halfopen = e.halfopen /\ b.sink = e.sink /\ b.locmaxwin = e.locmaxwin
         /\ b.localEof = e.localEof /\ b.pending_eof = e.pending_eof
         /\ b.remwindow = e.remwindow /\ b.outbuffer = e.outbuffer /\ b.written = e.written
    BY <2>11 DEF Chans
  <2>13. [Send(asked, "ADJUST", grow) EXCEPT !.c.locwindow = newwin] = q
    BY <2>11 DEF Send, Works, Emit
  <2>14. m \in Packets /\ m.id = k.r /\ m.type = "ADJUST" /\ m.arg = grow
    BY <2>1, <2>11, PacketTyped, PacketIs
  <2> HIDE DEF b, m
  <2>15. Kept(b, k)
    <3>1. b.sink + b.locwindow <= b.locmaxwin
      BY <2>10, <2>12
    <3>2. Dat(k.d, k.i) <= newwin
      <4>1. Dat(k.d, k.i) <= c.locwindow /\ Dat(k.d, k.i) \in Nat
        BY <1>1, ContextFields DEF Kept, Expects
      <4> QED BY ONLY <2>1, <4>1, newwin \in Nat
    <3>3. ChanOK(b)
      BY <2>11, <2>12, <3>1 DEF Kept, ChanOK
    <3>4. Expects(b, k.d, k.i)
      BY <2>11, <2>12, <3>2 DEF Kept, Expects, Waits
    <3> QED BY <2>11, <2>12, <3>3, <3>4 DEF Kept, SocketOK
  <2>16. b.locwindow = e.locwindow + m.arg /\ "SENT_CLOSE" \notin e.closes
    BY <1>3, <2>1, <2>10, <2>12, <2>14
  <2>17. Body(b, Append(Up(asked, k), m), k)
    BY <2>11, <2>12, <2>14, <2>15, <2>16, BodyAdjust
  <2>18. Work(q, k)
    BY <2>10, <2>14, <2>17, EmitWork
  <2> QED BY <2>9, <2>13, <2>18
<1> QED BY <1>2, <1>3

\* ssh2channel_unthrottle keeps the channel in order.
LEMMA Unthrottle ==
  ASSUME NEW p, NEW k, Work(p, k)
  PROVE  Work(ssh2channel_unthrottle(p), k)
<1>1. p.c.sink \in Nat /\ p.c.locmaxwin \in Nat
  BY WorkFields, ChanFields
<1>2. CASE p.c.sink < p.c.locmaxwin
  <2> DEFINE w == p.c.locmaxwin - p.c.sink
  <2>1. w \in Nat /\ p.c.sink + w <= p.c.locmaxwin
    BY <1>1, <1>2
  <2>2. ssh2channel_unthrottle(p) = ssh2_set_window(p, w)
    BY <1>2 DEF ssh2channel_unthrottle
  <2> HIDE DEF w
  <2>3. Work(ssh2_set_window(p, w), k)
    BY <2>1, SetWindow
  <2> QED BY <2>2, <2>3
<1>3. CASE ~(p.c.sink < p.c.locmaxwin)
  BY <1>3 DEF ssh2channel_unthrottle
<1> QED BY <1>2, <1>3

\* ssh2_handle_winadj_response keeps the channel in order.
LEMMA WinadjResponse ==
  ASSUME NEW p, NEW k, Work(p, k), NEW n \in Nat
  PROVE  Work(ssh2_handle_winadj_response(p, n), k)
<1> DEFINE c == p.c
           w == c.remlocwin + n
           t == IF c.throttle_state = "UNTHROTTLING" THEN "UNTHROTTLED" ELSE c.throttle_state
           b == [c EXCEPT !.remlocwin = w, !.throttle_state = t]
<1>1. p \in Works /\ c \in Chans
  BY WorkFields
<1>2. w \in Int /\ t \in {"UNTHROTTLED", "UNTHROTTLING", "THROTTLED"}
  BY <1>1, ChanFields
<1>3. ssh2_handle_winadj_response(p, n) = Put(p, b)
  BY <1>1 DEF ssh2_handle_winadj_response, Put, Works
<1> HIDE DEF w, t
<1>4. Minor(b, c)
  BY <1>1, <1>2, MinorChanges
<1> HIDE DEF b
<1> QED BY <1>3, <1>4, PutMinor

\* The main channel's handlers.
LEMMA MainchanEof ==
  ASSUME NEW p, NEW k, Work(p, k), p.c.kind = "main"
  PROVE  Work(mainchan_eof(p), k)
<1>1. p \in Works /\ p.c \in Chans
  BY WorkFields
<1>2. CASE ~p.c.ready
  <2> DEFINE b == [p.c EXCEPT !.eof_pending = TRUE]
  <2>1. mainchan_eof(p) = Put(p, b)
    BY <1>1, <1>2 DEF mainchan_eof, Put, Works
  <2>2. Minor(b, p.c)
    BY <1>1, MinorChanges
  <2> HIDE DEF b
  <2> QED BY <2>1, <2>2, PutMinor
<1>3. CASE p.c.ready /\ p.c.eof_sent
  BY <1>3 DEF mainchan_eof
<1>4. CASE p.c.ready /\ ~p.c.eof_sent
  <2> DEFINE q == ssh2channel_write_eof(p)
             b == [q.c EXCEPT !.eof_sent = TRUE]
  <2>1. Work(q, k)
    BY WriteEof
  <2>2. q \in Works /\ q.c \in Chans
    BY <2>1, WorkFields
  <2> HIDE DEF q
  <2>3. mainchan_eof(p) = Put(q, b)
    BY <1>4, <2>2 DEF mainchan_eof, Put, Works, q
  <2>4. Minor(b, q.c)
    BY <2>2, MinorChanges
  <2> HIDE DEF b
  <2> QED BY <2>1, <2>3, <2>4, PutMinor
<1> QED BY <1>2, <1>3, <1>4

\* mainchan_ready, which makes the first requests, keeps the channel in order.
LEMMA MainchanReady ==
  ASSUME NEW p, NEW k, Work(p, k), p.c.kind = "main"
  PROVE  Work(mainchan_ready(p), k)
<1> DEFINE c == p.c
           b == [c EXCEPT !.ready = TRUE, !.wanted = TRUE]
           q == Put(p, b)
           e == [q.c EXCEPT !.eof_pending = FALSE]
           r == Put(q, e)
<1>1. p \in Works /\ c \in Chans
  BY WorkFields
<1>2. [p EXCEPT !.c.ready = TRUE, !.c.wanted = TRUE] = q
  BY <1>1 DEF Put, Works
<1>3. Minor(b, c)
  BY <1>1, MinorChanges
<1> HIDE DEF b
<1>4. Work(q, k) /\ q.c = b
  BY <1>3, PutMinor
<1>5. q \in Works /\ q.c \in Chans
  BY <1>4, WorkFields
<1> HIDE DEF q
<1>6. [q EXCEPT !.c.eof_pending = FALSE] = r
  BY <1>5 DEF Put, Works
<1>7. Minor(e, q.c)
  BY <1>5, MinorChanges
<1> HIDE DEF e
<1>8. Work(r, k) /\ r.c = e
  BY <1>4, <1>7, PutMinor
<1>9. r.c.kind = "main"
  BY <1>3, <1>4, <1>7, <1>8 DEF Minor
<1> HIDE DEF r
<1>10. Work(mainchan_eof(r), k)
  BY <1>8, <1>9, MainchanEof
<1>11. mainchan_ready(p) = mainchan_eof(r) \/ mainchan_ready(p) = q
  <2> DEFINE s == [p EXCEPT !.c.ready = TRUE, !.c.wanted = TRUE]
  <2>1. mainchan_ready(p) = IF s.c.eof_pending THEN mainchan_eof([s EXCEPT !.c.eof_pending = FALSE]) ELSE s
    BY DEF mainchan_ready
  <2>2. s = q
    BY <1>2
  <2> HIDE DEF s
  <2>3. mainchan_ready(p) = IF q.c.eof_pending THEN mainchan_eof([q EXCEPT !.c.eof_pending = FALSE]) ELSE q
    BY <2>1, <2>2
  <2> QED BY <1>6, <2>3
<1> QED BY <1>4, <1>10, <1>11

\* mainchan_request_response keeps the channel in order; it makes no request once CLOSE
\* was sent.
LEMMA MainchanResponse ==
  ASSUME NEW p, NEW k, Work(p, k), p.c.kind = "main", "SENT_CLOSE" \notin p.c.closes,
         NEW what, NEW success \in BOOLEAN, NEW fallback \in BOOLEAN
  PROVE  Work(mainchan_request_response(p, what, success, fallback), k)
<1> DEFINE r == mainchan_request_response(p, what, success, fallback)
<1>1. p \in Works /\ p.c \in Chans /\ ~p.gone /\ p.err = "none"
  BY WorkFields
<1>2. CASE what = "pty"
  <2> DEFINE b == [p.c EXCEPT !.got_pty = success]
  <2>1. r = Put(p, b)
    <3>1. r = [p EXCEPT !.c.got_pty = success]
      BY <1>2 DEF mainchan_request_response
    <3>2. [p EXCEPT !.c.got_pty = success] = Put(p, b)
      BY <1>1 DEF Put, Works
    <3> QED BY <3>1, <3>2
  <2>2. Minor(b, p.c)
    BY <1>1, MinorChanges
  <2> HIDE DEF b
  <2>3. Work(Put(p, b), k)
    BY <2>2, PutMinor
  <2> QED BY <2>1, <2>3
<1>3. CASE what \in {"cmd", "fallback"} /\ success
  <2>1. r = mainchan_ready(p)
    BY <1>3 DEF mainchan_request_response
  <2> QED BY <2>1, MainchanReady
<1>4. CASE what = "cmd" /\ ~success /\ fallback
  <2>1. r = ssh2_chanreq_init(p, "fallback", 0)
    BY <1>4 DEF mainchan_request_response
  <2>2. "fallback" \in Requests
    BY DEF Requests
  <2>3. Work(ssh2_chanreq_init(p, "fallback", 0), k)
    <3>1. 0 \in Nat
      OBVIOUS
    <3> HIDE DEF r
    <3> QED BY <2>2, <3>1, ChanreqInit
  <2> QED BY <2>1, <2>3
<1>5. CASE /\ what # "pty" /\ ~(what \in {"cmd", "fallback"} /\ success)
           /\ ~(what = "cmd" /\ ~success /\ fallback)
  <2>1. r = [p EXCEPT !.abort = TRUE]
    BY <1>5 DEF mainchan_request_response
  <2>2. r \in Works /\ r.c = p.c /\ r.out = p.out /\ ~r.gone /\ r.err = "none"
    BY <1>1, <2>1 DEF Works
  <2> HIDE DEF r
  <2>3. Work(r, k)
    BY <2>2 DEF Work, Up
  <2> QED BY <2>3 DEF r
<1> QED BY <1>2, <1>3, <1>4, <1>5

\* chan_send_eof keeps the channel in order and takes back no EOF or CLOSE.
LEMMA SendEof ==
  ASSUME NEW p, NEW k, Work(p, k)
  PROVE  Work(chan_send_eof(p), k) /\ p.c.closes \subseteq chan_send_eof(p).c.closes
<1>1. CASE p.c.kind # "main" \/ p.c.eof_sent
  <2>1. chan_send_eof(p) = p
    BY <1>1 DEF chan_send_eof, mainchan_send_eof
  <2> QED BY <2>1
<1>2. CASE p.c.kind = "main" /\ ~p.c.eof_sent
  <2> DEFINE q == ssh2channel_write_eof(p)
             b == [q.c EXCEPT !.eof_sent = TRUE, !.wanted = FALSE]
  <2>1. Work(q, k) /\ p.c.closes \subseteq q.c.closes
    BY <1>2, WriteEof
  <2>2. q \in Works /\ q.c \in Chans
    BY <2>1, WorkFields
  <2> HIDE DEF q
  <2>3. chan_send_eof(p) = Put(q, b)
    BY <1>2, <2>2 DEF chan_send_eof, mainchan_send_eof, Put, Works, q
  <2>4. Minor(b, q.c)
    BY <2>2, MinorChanges
  <2> HIDE DEF b
  <2>5. Work(Put(q, b), k) /\ Put(q, b).c = b
    BY <2>1, <2>4, PutMinor
  <2> QED BY <2>1, <2>3, <2>4, <2>5 DEF Minor
<1> QED BY <1>1, <1>2

-----------------------------------------------------------------------------
(* The packets of an open channel.                                         *)

\* A handler starts with no packet and no error.
LEMMA FreshWork ==
  ASSUME NEW c \in Chans
  PROVE  /\ P(c) \in Works /\ P(c).c = c /\ P(c).out = <<>> /\ ~P(c).gone /\ P(c).err = "none"
         /\ ~P(c).abort
         /\ \A b \in Chans : Put(P(c), b) = P(b)
<1>1. <<>> \in Seq(Packets)
  OBVIOUS
<1>2. P(c).c = c /\ P(c).out = <<>> /\ ~P(c).gone /\ P(c).err = "none" /\ ~P(c).abort
  BY DEF P
<1>3. P(c) \in Works
  BY <1>1 DEF P, Works
<1>4. ASSUME NEW b \in Chans
      PROVE  Put(P(c), b) = P(b)
  <2> DEFINE g == P(c)
             l == P(b)
  <2>1. l \in Works /\ l.c = b /\ l.out = <<>> /\ l.gone = FALSE /\ l.err = "none" /\ l.abort = FALSE
    BY <1>1 DEF P, Works
  <2>2. g \in Works /\ g.out = <<>> /\ g.gone = FALSE /\ g.err = "none" /\ g.abort = FALSE
    BY <1>2, <1>3
  <2> HIDE DEF g, l
  <2>3. [g EXCEPT !.c = b] = l
    BY <2>1, <2>2 DEF Works
  <2> QED BY <2>3 DEF g, l, Put
<1> QED BY <1>2, <1>3, <1>4

\* A handler starts in order on a channel that is.
LEMMA StartWork ==
  ASSUME NEW c, NEW k, Body(c, k.u, k)
  PROVE  Work(P(c), k) /\ P(c).c = c /\ Up(P(c), k) = k.u
<1>1. c \in Chans /\ k \in Contexts
  BY DEF Body
<1>2. k.u \in Seq(Packets)
  BY <1>1, ContextFields
<1>3. P(c) \in Works /\ P(c).c = c /\ P(c).out = <<>> /\ ~P(c).gone /\ P(c).err = "none"
  BY <1>1, FreshWork
<1>4. Up(P(c), k) = k.u
  BY <1>2, <1>3 DEF Up
<1> QED BY <1>3, <1>4 DEF Work

\* What a packet that is taken leaves to be expected.
LEMMA TakenExpects ==
  ASSUME NEW m, NEW k \in Contexts, NEW h, Taken(m, k, h), NEW c \in Chans, Expects(c, k.d, k.i)
  PROVE  /\ h \in Contexts /\ h.i = k.i /\ h.r = k.r /\ h.u = k.u /\ h.strict = k.strict
         /\ m.type # "RESP" /\ m.type # "DATA" => Expects(c, h.d, h.i)
         /\ m.type = "RESP" => /\ Waits(c) - 1 \in Nat /\ Rsp(h.d, h.i) <= Waits(c) - 1
                               /\ Dat(h.d, h.i) <= c.locwindow
         /\ m.type = "DATA" => /\ m.arg \in Nat /\ c.locwindow - m.arg \in Nat
                               /\ Dat(h.d, h.i) <= c.locwindow - m.arg
                               /\ Rsp(h.d, h.i) <= Waits(c)
<1>1. /\ h \in Contexts /\ h.i = k.i /\ h.r = k.r /\ h.u = k.u /\ h.strict = k.strict
      /\ m \in Packets /\ m.id = k.i /\ Plus(k.d, h.d, m)
  BY DEF Taken
<1>2. h.d \in Seq(Packets) /\ Dat(h.d, h.i) \in Nat /\ Rsp(h.d, h.i) \in Nat
  BY <1>1, ContextFields
<1>3. /\ Dat(k.d, k.i) = Dat(h.d, h.i) + (IF m.type = "DATA" THEN m.arg ELSE 0)
      /\ Rsp(k.d, k.i) = Rsp(h.d, h.i) + (IF m.type = "RESP" THEN 1 ELSE 0)
  BY <1>1 DEF Plus
<1>4. Dat(k.d, k.i) <= c.locwindow /\ Rsp(k.d, k.i) <= Waits(c) /\ c.locwindow \in Nat /\ Waits(c) \in Nat
  BY ChanFields DEF Expects
<1>5. m.type = "DATA" => m.arg \in Nat
  BY <1>1, PacketFields
<1>6. ASSUME m.type # "RESP", m.type # "DATA"
      PROVE  Expects(c, h.d, h.i)
  <2>1. Dat(k.d, k.i) = Dat(h.d, h.i) + 0 /\ Rsp(k.d, k.i) = Rsp(h.d, h.i) + 0
    BY <1>3, <1>6
  <2>2. Dat(h.d, h.i) <= c.locwindow /\ Rsp(h.d, h.i) <= Waits(c)
    BY ONLY <1>2, <1>4, <2>1
  <2> QED BY <2>2 DEF Expects
<1>7. ASSUME m.type = "RESP"
      PROVE  /\ Waits(c) - 1 \in Nat /\ Rsp(h.d, h.i) <= Waits(c) - 1 /\ Dat(h.d, h.i) <= c.locwindow
  <2>1. Dat(k.d, k.i) = Dat(h.d, h.i) + 0 /\ Rsp(k.d, k.i) = Rsp(h.d, h.i) + 1
    BY <1>3, <1>7
  <2> QED BY ONLY <1>2, <1>4, <2>1
<1>8. ASSUME m.type = "DATA"
      PROVE  /\ m.arg \in Nat /\ c.locwindow - m.arg \in Nat
             /\ Dat(h.d, h.i) <= c.locwindow - m.arg /\ Rsp(h.d, h.i) <= Waits(c)
  <2>1. Dat(k.d, k.i) = Dat(h.d, h.i) + m.arg /\ Rsp(k.d, k.i) = Rsp(h.d, h.i) + 0 /\ m.arg \in Nat
    BY <1>3, <1>5, <1>8
  <2> QED BY ONLY <1>2, <1>4, <2>1
<1> QED BY <1>1, <1>6, <1>7, <1>8

\* DATA within our window: the handler keeps the channel in order.
LEMMA GotDataWork ==
  ASSUME NEW c, NEW k, Body(c, k.u, k), NEW m, NEW h, Taken(m, k, h), m.type = "DATA",
         NEW dragging \in BOOLEAN
  PROVE  Work(GotData(P(c), m.arg, dragging), h)
<1> DEFINE n == m.arg
           w == c.locwindow - n
           x == c.remlocwin - n
           s == IF c.kind = "zombie" \/ (c.kind = "main" /\ c.sink = 0 /\ ~dragging) THEN 0 ELSE c.sink + n
           l == IF x <= 0 /\ c.locmaxwin < MaxLocWin /\ c.throttle_state = "UNTHROTTLED"
                THEN c.locmaxwin + WinSize ELSE c.locmaxwin
           b == [c EXCEPT !.locwindow = w, !.remlocwin = x, !.sink = s, !.locmaxwin = l]
<1>1. c \in Chans /\ k \in Contexts /\ Kept(c, k) /\ Expects(c, k.d, k.i) /\ ChanOK(c)
  BY DEF Body, Kept
<1>2. /\ h \in Contexts /\ h.i = k.i /\ h.r = k.r /\ h.u = k.u /\ h.strict = k.strict
      /\ n \in Nat /\ w \in Nat /\ Dat(h.d, h.i) <= w /\ Rsp(h.d, h.i) <= Waits(c)
  BY <1>1, TakenExpects
<1>3. /\ c.sink \in Nat /\ c.locmaxwin \in Nat /\ c.remlocwin \in Int /\ c.locwindow \in Nat
      /\ WinSize \in Nat /\ c.sink + c.locwindow <= c.locmaxwin
  BY <1>1, ChanFields, ChannelAssumption DEF ChanOK
<1>4. x \in Int /\ s \in Nat /\ l \in Nat /\ s + w <= l
  <2>1. s \in Nat /\ s <= c.sink + n
    BY <1>2, <1>3
  <2>2. l \in Nat /\ c.locmaxwin <= l
    BY <1>3
  <2>3. x \in Int
    BY <1>2, <1>3
  <2> HIDE DEF s, l
  <2> QED BY <1>2, <1>3, <2>1, <2>2, <2>3
<1>6. /\ b \in Chans /\ b.closes = c.closes /\ b.kind = c.kind
      /\ b.locwindow = w /\ b.chanreq = c.chanreq /\ b.remoteid = c.remoteid
      /\ b.halfopen = c.halfopen /\ b.sink = s /\ b.locmaxwin = l
      /\ b.localEof = c.localEof /\ b.pending_eof = c.pending_eof
      /\ b.remwindow = c.remwindow /\ b.outbuffer = c.outbuffer /\ b.written = c.written
  <2>1. w \in Nat /\ x \in Int /\ s \in Nat /\ l \in Nat
    BY <1>2, <1>4
  <2> HIDE DEF w, x, s, l
  <2> QED BY <1>1, <2>1 DEF Chans
<1>5. GotData(P(c), n, dragging) = ssh2channel_unthrottle(P(b))
  <2>0. n \in Nat
    BY <1>2
  <2> HIDE DEF n
  <2> DEFINE p == P(c)
             p1 == [p EXCEPT !.c.locwindow = @ - n, !.c.remlocwin = @ - n]
             c1 == [c EXCEPT !.locwindow = w, !.remlocwin = x]
             q == chan_send(p1, n, dragging)
             c2 == [c1 EXCEPT !.sink = s]
  <2>2. c1 \in Chans /\ c1.sink = c.sink /\ c1.kind = c.kind
    BY <1>1, <1>2, <1>4 DEF Chans
  <2>s. c2 \in Chans
    BY <2>2, <1>4 DEF Chans
  <2>1. p1 = P(c1)
    <3>1. p \in Works /\ p.c = c /\ Put(p, c1) = P(c1)
      BY <1>1, <2>2, FreshWork
    <3> HIDE DEF p
    <3>2. p1 = Put(p, c1)
      BY <3>1 DEF Put, Works
    <3> QED BY <3>1, <3>2
  <2>3. chan_send(P(c1), n, dragging) = P(c2)
    <3> DEFINE g == P(c1)
    <3>1. g \in Works /\ g.c = c1 /\ Put(g, c2) = P(c2)
      BY <2>2, <2>s, FreshWork
    <3> HIDE DEF g
    <3>2. chan_send(g, n, dragging) = Put(g, c2)
      BY <2>2, <3>1 DEF Put, Works, chan_send
    <3> QED BY <3>1, <3>2 DEF g
  <2>4. /\ c2.remlocwin = x /\ c2.locmaxwin = c.locmaxwin /\ c2.throttle_state = c.throttle_state
        /\ b = [c2 EXCEPT !.locmaxwin = l]
    BY <1>1 DEF Chans
  <2>5. q = P(c2)
    BY <2>1, <2>3
  <2> HIDE DEF c2, c1, p1, q
  <2>6. [q EXCEPT !.c.locmaxwin = IF /\ q.c.remlocwin <= 0 /\ @ < MaxLocWin
                                     /\ q.c.throttle_state = "UNTHROTTLED"
                                  THEN @ + WinSize ELSE @] = P(b)
    <3>1. q.c = c2 /\ q \in Works /\ Put(q, b) = P(b)
      BY <1>6, <2>5, <2>s, FreshWork
    <3>2. [q EXCEPT !.c.locmaxwin = l] = P([c2 EXCEPT !.locmaxwin = l])
      <4> HIDE DEF b, l
      <4>1. [q EXCEPT !.c.locmaxwin = l] = Put(q, [c2 EXCEPT !.locmaxwin = l])
        BY <3>1 DEF Put, Works
      <4> QED BY <2>4, <3>1, <4>1
    <3>3. [q EXCEPT !.c.locmaxwin = IF /\ q.c.remlocwin <= 0 /\ @ < MaxLocWin
                                     /\ q.c.throttle_state = "UNTHROTTLED"
                                  THEN @ + WinSize ELSE @] = [q EXCEPT !.c.locmaxwin = l]
      BY <2>4, <3>1
    <3> HIDE DEF b, l
    <3> QED BY <2>4, <3>2, <3>3
  <2> HIDE DEF b
  <2> QED BY <2>6 DEF GotData, q, p1
<1> HIDE DEF b, s, l
<1>7. Kept(b, h)
  <2>1. ChanOK(b)
    BY <1>1, <1>4, <1>6 DEF ChanOK
  <2>2. Expects(b, h.d, h.i)
    BY <1>2, <1>6 DEF Expects, Waits
  <2>3. h.strict => SocketOK(b)
    BY <1>1, <1>2, <1>6 DEF Kept, SocketOK
  <2> QED BY <1>1, <1>2, <1>6, <2>1, <2>2, <2>3 DEF Kept
<1>8. Waits(b) = Waits(c) - 0 /\ b.remwindow = c.remwindow + 0
  <2>1. Waits(b) = Waits(c) /\ Waits(c) \in Nat /\ c.remwindow \in Nat /\ b.remwindow = c.remwindow
    BY <1>1, <1>6, ChanFields DEF Waits
  <2> QED BY <2>1
<1>9. Body(b, k.u, h)
  BY <1>6, <1>7, <1>8, BodyTake
<1>10. Work(P(b), h)
  BY <1>2, <1>9, StartWork
<1> QED BY <1>5, <1>10, Unthrottle

\* An EOF, or an adjustment after our own EOF, leaves the channel as it is.
LEMMA TakeQuietly ==
  ASSUME NEW c, NEW k, Body(c, k.u, k), NEW m, NEW h, Taken(m, k, h),
         m.type = "EOF" \/ (m.type = "ADJUST" /\ "SENT_EOF" \in c.closes)
  PROVE  Body(c, h.u, h)
<1>1. c \in Chans /\ k \in Contexts /\ Kept(c, k) /\ Expects(c, k.d, k.i) /\ ChanOK(c)
  BY DEF Body, Kept
<1>2. /\ h \in Contexts /\ h.i = k.i /\ h.r = k.r /\ h.u = k.u /\ h.strict = k.strict
      /\ Expects(c, h.d, h.i)
  BY <1>1, TakenExpects
<1>3. Kept(c, h)
  BY <1>1, <1>2 DEF Kept
<1>4. c.locwindow = c.locwindow - 0 /\ Waits(c) = Waits(c) - 0 /\ c.remwindow = c.remwindow + 0
  BY <1>1, ChanFields
<1>5. Body(c, k.u, h)
  BY <1>1, <1>3, <1>4, BodyTake
<1> QED BY <1>2, <1>5

\* WINDOW_ADJUST: the handler keeps the channel in order and sends what it now may.
LEMMA GotAdjustWork ==
  ASSUME NEW c, NEW k, Body(c, k.u, k), NEW m, NEW h, Taken(m, k, h), m.type = "ADJUST", k.strict
  PROVE  Work(GotAdjust(P(c), m.arg), h)
<1> DEFINE n == m.arg
           w == c.remwindow + n
           b == [c EXCEPT !.remwindow = w]
<1>1. c \in Chans /\ k \in Contexts /\ Kept(c, k) /\ Expects(c, k.d, k.i) /\ ChanOK(c)
  BY DEF Body, Kept
<1>2. /\ h \in Contexts /\ h.i = k.i /\ h.r = k.r /\ h.u = k.u /\ h.strict = k.strict
      /\ Expects(c, h.d, h.i)
  BY <1>1, TakenExpects
<1>3. n \in Nat /\ w \in Nat
  BY <1>1, ChanFields, PacketFields DEF Taken
<1>c. P(c).c = c
  BY DEF P
<1>4. CASE "SENT_EOF" \in c.closes
  <2>1. GotAdjust(P(c), n) = P(c)
    BY <1>4, <1>c DEF GotAdjust, Done
  <2>2. Body(c, h.u, h)
    BY <1>4, TakeQuietly
  <2> QED BY <2>1, <2>2, StartWork
<1>5. CASE "SENT_EOF" \notin c.closes
  <2>2. /\ b \in Chans /\ b.closes = c.closes /\ b.kind = c.kind
        /\ b.locwindow = c.locwindow /\ b.chanreq = c.chanreq /\ b.remoteid = c.remoteid
        /\ b.halfopen = c.halfopen /\ b.sink = c.sink /\ b.locmaxwin = c.locmaxwin
        /\ b.localEof = c.localEof /\ b.pending_eof = c.pending_eof
        /\ b.remwindow = w /\ b.outbuffer = c.outbuffer /\ b.written = c.written
    <3>1. w \in Nat
      BY <1>3
    <3> HIDE DEF w
    <3> QED BY <1>1, <3>1 DEF Chans
  <2>1. GotAdjust(P(c), n) = ssh2_try_send_and_unthrottle(P(b))
    <3>1. [P(c) EXCEPT !.c.remwindow = @ + n] = P(b)
      <4> DEFINE g == P(c)
      <4>1. g \in Works /\ g.c = c /\ Put(g, b) = P(b)
        BY <1>1, <2>2, FreshWork
      <4> HIDE DEF g
      <4>2. [g EXCEPT !.c.remwindow = @ + n] = Put(g, b)
        BY <4>1 DEF Put, Works
      <4> QED BY <4>1, <4>2 DEF g
    <3> HIDE DEF b
    <3> QED BY <1>5, <1>c, <3>1 DEF GotAdjust, Done
  <2> HIDE DEF w
  <2> HIDE DEF b
  <2>3. Kept(b, h)
    BY <1>1, <1>2, <2>2 DEF Kept, ChanOK, SocketOK, Expects, Waits
  <2>4. Waits(b) = Waits(c) - 0 /\ b.locwindow = c.locwindow - 0 /\ b.remwindow = c.remwindow + n
    <3>1. Waits(b) = Waits(c) /\ Waits(c) \in Nat /\ c.locwindow \in Nat /\ b.locwindow = c.locwindow
      BY <1>1, <2>2, ChanFields DEF Waits
    <3> QED BY <3>1, <2>2 DEF w
  <2>5. Body(b, k.u, h)
    BY <2>2, <2>3, <2>4, BodyTake
  <2>6. Work(P(b), h) /\ P(b).c = b
    BY <1>2, <2>5, StartWork
  <2>7. "SENT_EOF" \notin P(b).c.closes /\ h.strict
    BY <1>2, <1>5, <2>2, <2>6
  <2>8. Work(ssh2_try_send_and_unthrottle(P(b)), h)
    BY <2>6, <2>7, TrySendAndUnthrottle
  <2> QED BY <2>1, <2>8
<1> QED BY <1>4, <1>5

\* A request of the server's is answered with failure.
LEMMA GotRequestWork ==
  ASSUME NEW c, NEW k, Body(c, k.u, k), NEW m, NEW h, Taken(m, k, h), m.type = "REQ",
         m.arg # "window-change"
  PROVE  Work(GotRequest(P(c)), h)
<1>1. c \in Chans /\ k \in Contexts /\ Kept(c, k) /\ Expects(c, k.d, k.i) /\ c.remoteid = k.r
  BY DEF Body, Kept
<1>2. /\ h \in Contexts /\ h.i = k.i /\ h.r = k.r /\ h.u = k.u /\ h.strict = k.strict
      /\ Expects(c, h.d, h.i)
  BY <1>1, TakenExpects
<1>3. Kept(c, h)
  BY <1>1, <1>2 DEF Kept
<1>p. P(c) \in Works /\ P(c).c = c /\ P(c).out = <<>> /\ ~P(c).gone /\ P(c).err = "none"
  BY <1>1, FreshWork
<1>4. CASE "SENT_CLOSE" \in c.closes
  <2>1. GotRequest(P(c)) = P(c)
    BY <1>4, <1>p DEF GotRequest, Done
  <2>2. Body(c, k.u, h)
    BY <1>3, <1>4, BodyIgnore
  <2> QED BY <1>2, <2>1, <2>2, StartWork
<1>5. CASE "SENT_CLOSE" \notin c.closes
  <2> DEFINE n == Packet("RESP", c.remoteid, FALSE)
             p == P(c)
             g == Emit(p, c, n)
             o == Append(p.out, n)
  <2>1. n \in Packets /\ n.id = k.r /\ n.type = "RESP"
    <3>1. c.remoteid \in Ids
      BY <1>1, ChanFields
    <3>2. n \in Packets
      BY <3>1, PacketTyped
    <3>3. n.id = c.remoteid /\ n.type = "RESP"
      BY DEF Packet
    <3> HIDE DEF n
    <3> QED BY <1>1, <3>2, <3>3
  <2>2. Body(c, Append(k.u, n), h)
    <3> HIDE DEF n
    <3> QED BY <1>3, <1>5, <2>1, BodyReply
  <2>3. GotRequest(P(c)) = g
    <3> HIDE DEF p
    <3>1. Send(p, "RESP", FALSE) = g
      BY <1>p DEF Send, Emit, Works, p
    <3> QED BY <1>5, <1>p, <3>1 DEF GotRequest, Done, p
  <2> HIDE DEF n, p
  <2>4. p.out \in Seq(Packets) /\ p.out = <<>> /\ o \in Seq(Packets) /\ k.u \in Seq(Packets)
    BY <1>1, <1>p, <2>1, ContextFields DEF Works, p
  <2>5. k.u \o o = Append(k.u, n)
    <3>1. k.u \o o = Append(k.u \o p.out, n)
      BY <2>1, <2>4, ConcatAppend
    <3>2. k.u \o p.out = k.u
      BY <2>4
    <3> QED BY <3>1, <3>2
  <2>6. g = [p EXCEPT !.c = c, !.out = o]
    BY <1>p DEF Emit, Works, p
  <2> HIDE DEF o, g
  <2>7. g \in Works /\ g.c = c /\ g.out = o /\ g.gone = FALSE /\ g.err = "none"
    BY <1>1, <1>p, <2>4, <2>6 DEF Works, p
  <2>8. Work(g, h)
    BY <1>2, <2>2, <2>5, <2>7 DEF Work, Up
  <2> QED BY <2>3, <2>8
<1> QED BY <1>4, <1>5

\* EOF: the handler keeps the channel in order.
LEMMA GotEofWork ==
  ASSUME NEW c, NEW k, Body(c, k.u, k), NEW m, NEW h, Taken(m, k, h), m.type = "EOF"
  PROVE  Work(GotEof(P(c)), h)
<1>1. Body(c, h.u, h)
  BY TakeQuietly
<1>2. c \in Chans /\ Kept(c, h)
  BY <1>1 DEF Body
<1>p. P(c) \in Works /\ P(c).c = c
  BY <1>2, FreshWork
<1>3. CASE "RCVD_EOF" \in c.closes
  <2>1. GotEof(P(c)) = P(c)
    BY <1>3, <1>p DEF GotEof, Done
  <2> QED BY <1>1, <2>1, StartWork
<1>4. CASE "RCVD_EOF" \notin c.closes
  <2> DEFINE b == [c EXCEPT !.closes = @ \cup {"RCVD_EOF"}]
  <2>1. /\ b \in Chans /\ b.closes = c.closes \cup {"RCVD_EOF"} /\ b.kind = c.kind
        /\ b.locwindow = c.locwindow /\ b.chanreq = c.chanreq /\ b.remoteid = c.remoteid
        /\ b.halfopen = c.halfopen /\ b.sink = c.sink /\ b.locmaxwin = c.locmaxwin
        /\ b.localEof = c.localEof /\ b.pending_eof = c.pending_eof
        /\ b.remwindow = c.remwindow /\ b.outbuffer = c.outbuffer /\ b.written = c.written
    BY <1>2 DEF Chans, Closes
  <2>2. GotEof(P(c)) = ssh2_channel_check_close(chan_send_eof(P(b)))
    <3> DEFINE g == P(c)
    <3>1. g \in Works /\ g.c = c /\ Put(g, b) = P(b)
      BY <1>2, <2>1, FreshWork
    <3> HIDE DEF g
    <3>2. [g EXCEPT !.c.closes = @ \cup {"RCVD_EOF"}] = Put(g, b)
      BY <3>1 DEF Put, Works
    <3>3. [g EXCEPT !.c.closes = @ \cup {"RCVD_EOF"}] = P(b)
      BY <3>1, <3>2
    <3> HIDE DEF b
    <3>4. GotEof(g) = ssh2_channel_check_close(chan_send_eof(P(b)))
      BY <1>4, <3>1, <3>3 DEF GotEof, Done
    <3> QED BY <3>4 DEF g
  <2> HIDE DEF b
  <2>3. Kept(b, h)
    BY <1>2, <2>1 DEF Kept, ChanOK, SocketOK, Expects, Waits
  <2>4. Body(b, h.u, h)
    BY <1>1, <2>1, <2>3, BodyQuiet
  <2>5. Work(P(b), h)
    BY <2>4, StartWork
  <2>6. Work(chan_send_eof(P(b)), h)
    BY <2>5, SendEof
  <2> QED BY <2>2, <2>6, CheckClose
<1> QED BY <1>3, <1>4

\* A reply is taken by the oldest request that waits for one.
LEMMA GotResponseWork ==
  ASSUME NEW c, NEW k, Body(c, k.u, k), NEW m, NEW h, Taken(m, k, h), m.type = "RESP",
         NEW fallback \in BOOLEAN
  PROVE  Work(GotResponse(P(c), m.arg, fallback), h)
<1> DEFINE ocr == Head(c.chanreq)
           success == m.arg
           q == IF ocr.what = "winadj" THEN ssh2_handle_winadj_response(P(c), ocr.n)
                ELSE mainchan_request_response(P(c), ocr.what, success, fallback)
<1>1. c \in Chans /\ k \in Contexts /\ Kept(c, k) /\ Expects(c, k.d, k.i) /\ ChanOK(c)
  BY DEF Body, Kept
<1>2. /\ h \in Contexts /\ h.i = k.i /\ h.r = k.r /\ h.u = k.u /\ h.strict = k.strict
      /\ Waits(c) - 1 \in Nat
  BY <1>1, TakenExpects
<1>3. c.chanreq \in Seq(Awaited) /\ c.chanreq # <<>> /\ "SENT_CLOSE" \notin c.closes
  <2>1. Waits(c) \in Nat /\ c.chanreq \in Seq(Awaited)
    BY <1>1, ChanFields
  <2>2. Waits(c) # 0
    BY <1>2, <2>1
  <2>3. c.chanreq # <<>>
    BY <2>2 DEF Waits
  <2> QED BY <1>1, <2>1, <2>3 DEF ChanOK
<1>4. ocr.what \in Requests /\ ocr.n \in Nat /\ (c.kind # "main" => ocr.what = "winadj")
  <2> DEFINE o == c.chanreq
  <2>0. o \in Seq(Awaited) /\ o # <<>> /\ (c.kind # "main" => o \in Seq(Winadjs))
    BY <1>1, <1>3 DEF ChanOK
  <2> HIDE DEF o
  <2>1. Head(o) \in Awaited /\ (c.kind # "main" => Head(o) \in Winadjs)
    BY <2>0
  <2>2. Head(o).what \in Requests /\ Head(o).n \in Nat /\ (c.kind # "main" => Head(o).what = "winadj")
    BY <2>1 DEF Awaited, Winadjs
  <2> QED BY <2>2 DEF o
<1>5. success \in BOOLEAN
  BY PacketFields DEF Taken
<1>6. Work(P(c), k) /\ P(c).c = c
  BY StartWork
<1> HIDE DEF ocr, success
<1>7. Work(q, k)
  <2>1. CASE ocr.what = "winadj"
    BY <1>4, <1>6, <2>1, WinadjResponse
  <2>2. CASE ocr.what # "winadj"
    <3>1. P(c).c.kind = "main" /\ "SENT_CLOSE" \notin P(c).c.closes
      BY <1>1, <1>3, <1>4, <1>6, <2>2, ChanFields
    <3>2. Work(mainchan_request_response(P(c), ocr.what, success, fallback), k)
      BY <1>5, <1>6, <3>1, MainchanResponse
    <3> QED BY <2>2, <3>2
  <2> QED BY <2>1, <2>2
<1>8. GotResponse(P(c), success, fallback) = ssh2_channel_check_close([q EXCEPT !.c.chanreq = Tail(@)])
  <2> DEFINE g == P(c)
  <2>0. g.c = c
    BY <1>6
  <2> HIDE DEF g
  <2>1. GotResponse(g, success, fallback) = ssh2_channel_check_close([q EXCEPT !.c.chanreq = Tail(@)])
    BY <1>3, <2>0 DEF GotResponse, ocr, g
  <2> QED BY <2>1 DEF g
<1> HIDE DEF q
<1> DEFINE z == q.c
           s == Tail(z.chanreq)
           b == [z EXCEPT !.chanreq = s]
<1>9. /\ q \in Works /\ z \in Chans /\ q.out \in Seq(Packets) /\ ~q.gone /\ q.err = "none"
      /\ Body(z, Up(q, k), k) /\ Kept(z, k) /\ ChanOK(z) /\ Expects(z, k.d, k.i)
  BY <1>7, WorkFields
<1>10. /\ Waits(z) - 1 \in Nat /\ Rsp(h.d, h.i) <= Waits(z) - 1 /\ Dat(h.d, h.i) <= z.locwindow
  BY <1>1, <1>9, TakenExpects
<1>11. /\ s \in Seq(Awaited) /\ z.chanreq # <<>> /\ Len(s) = Waits(z) - 1
       /\ z.kind # "main" => s \in Seq(Winadjs)
  <2> DEFINE o == z.chanreq
  <2>1. o \in Seq(Awaited) /\ (z.kind # "main" => o \in Seq(Winadjs)) /\ Waits(z) = Len(o)
    BY <1>9, ChanFields DEF ChanOK, Waits
  <2> HIDE DEF o
  <2>2. o # <<>>
    BY <1>10, <2>1
  <2>3. Tail(o) \in Seq(Awaited) /\ Len(Tail(o)) = Len(o) - 1 /\ (z.kind # "main" => Tail(o) \in Seq(Winadjs))
    BY <2>1, <2>2
  <2> QED BY <2>1, <2>2, <2>3 DEF o
<1>12. Put(q, b) = [q EXCEPT !.c.chanreq = Tail(@)]
  BY <1>9 DEF Put, Works
<1>13. "SENT_CLOSE" \notin z.closes
  BY <1>9, <1>11 DEF ChanOK
<1> HIDE DEF s
<1>14. /\ b \in Chans /\ b.closes = z.closes /\ b.kind = z.kind
       /\ b.locwindow = z.locwindow /\ b.chanreq = s /\ b.remoteid = z.remoteid
       /\ b.halfopen = z.halfopen /\ b.sink = z.sink /\ b.locmaxwin = z.locmaxwin
       /\ b.localEof = z.localEof /\ b.pending_eof = z.pending_eof
       /\ b.remwindow = z.remwindow /\ b.outbuffer = z.outbuffer /\ b.written = z.written
  BY <1>9, <1>11 DEF Chans
<1>15. Waits(b) = Waits(z) - 1
  BY <1>11, <1>14 DEF Waits
<1> HIDE DEF b
<1>16. Kept(b, h)
  <2>1. ChanOK(b)
    BY <1>9, <1>11, <1>13, <1>14 DEF ChanOK
  <2>2. Expects(b, h.d, h.i)
    BY <1>10, <1>14, <1>15 DEF Expects
  <2>3. h.strict => SocketOK(b)
    BY <1>2, <1>9, <1>14 DEF Kept, SocketOK
  <2> QED BY <1>2, <1>9, <1>14, <2>1, <2>2, <2>3 DEF Kept
<1>17. b.locwindow = z.locwindow - 0 /\ b.remwindow = z.remwindow + 0
  BY <1>9, <1>14, ChanFields
<1>18. Body(b, Up(q, k), h)
  BY <1>9, <1>14, <1>15, <1>16, <1>17, BodyTake
<1>19. Work(Put(q, b), h)
  <2> DEFINE g == Put(q, b)
  <2>1. g \in Works /\ g.c = b /\ g.out = q.out /\ ~g.gone /\ g.err = "none"
    BY <1>9, <1>14 DEF Put, Works
  <2>2. Up(g, h) = Up(q, k)
    BY <1>2, <2>1 DEF Up
  <2> HIDE DEF g
  <2>3. Work(g, h)
    BY <1>18, <2>1, <2>2 DEF Work
  <2> QED BY <2>3 DEF g
<1>20. Work(ssh2_channel_check_close(Put(q, b)), h)
  BY <1>19, CheckClose
<1> QED BY <1>8, <1>12, <1>20 DEF success

\* A channel that is open at last: ssh2_chanreq_init for the pty and the command.
LEMMA GotConfirmationWork ==
  ASSUME NEW c, NEW h, NEW b, NEW remoteid, NEW remwindow, NEW pty \in BOOLEAN, c \in Chans,
         b = [c EXCEPT !.remoteid = remoteid, !.halfopen = FALSE, !.remwindow = remwindow],
         b.kind = "main", b.closes = {}, ~b.pending_eof, Body(b, h.u, h)
  PROVE  Work(GotConfirmation(P(c), remoteid, remwindow, pty), h)
<1>0. b \in Chans
  BY DEF Body
<1>1. Work(P(b), h) /\ P(b).c = b
  BY StartWork
<1>2. [P(c) EXCEPT !.c.remoteid = remoteid, !.c.halfopen = FALSE, !.c.remwindow = remwindow] = P(b)
  <2> DEFINE g == P(c)
  <2>1. g \in Works /\ g.c = c /\ Put(g, b) = P(b)
    BY <1>0, FreshWork
  <2> HIDE DEF g
  <2>2. [g EXCEPT !.c.remoteid = remoteid, !.c.halfopen = FALSE, !.c.remwindow = remwindow] = Put(g, b)
    BY <2>1 DEF Put, Works
  <2> QED BY <2>1, <2>2 DEF g
<1> DEFINE p == P(b)
           p1 == IF pty THEN ssh2_chanreq_init(p, "pty", 0) ELSE p
           p2 == ssh2_chanreq_init(p1, "cmd", 0)
           r == ssh2_channel_check_close(p2)
<1>3. Work(p, h) /\ p.c.kind = "main" /\ p.c.closes = {} /\ ~p.c.pending_eof
  BY <1>1
<1> HIDE DEF p
<1>r. "pty" \in Requests /\ "cmd" \in Requests /\ 0 \in Nat
  BY DEF Requests
<1>4. Work(p1, h) /\ p1.c.kind = "main" /\ p1.c.closes = {} /\ ~p1.c.pending_eof
  <2> DEFINE g == ssh2_chanreq_init(p, "pty", 0)
  <2>1. Work(g, h) /\ g.c = [p.c EXCEPT !.chanreq = g.c.chanreq]
    BY <1>3, <1>r, ChanreqInit
  <2> HIDE DEF g
  <2>2. p.c \in Chans
    BY <1>3, WorkFields
  <2>3. Work(g, h) /\ g.c.kind = "main" /\ g.c.closes = {} /\ ~g.c.pending_eof
    BY <1>3, <2>1, <2>2 DEF Chans
  <2> QED BY <1>3, <2>3 DEF g
<1> HIDE DEF p1
<1>5. Work(p2, h) /\ ~p2.c.pending_eof
  <2>1. Work(p2, h) /\ p2.c = [p1.c EXCEPT !.chanreq = p2.c.chanreq]
    BY <1>4, <1>r, ChanreqInit
  <2>2. p1.c \in Chans
    BY <1>4, WorkFields
  <2> HIDE DEF p2
  <2> QED BY <1>4, <2>1, <2>2 DEF Chans
<1> HIDE DEF p2
<1>6. Work(r, h) /\ ~r.c.pending_eof
  <2>1. Work(r, h) /\ r.c = [p2.c EXCEPT !.closes = r.c.closes]
    BY <1>5, CheckClose
  <2>2. p2.c \in Chans
    BY <1>5, WorkFields
  <2> HIDE DEF r
  <2> QED BY <1>5, <2>1, <2>2 DEF Chans
<1>7. GotConfirmation(P(c), remoteid, remwindow, pty) = r
  <2> DEFINE q == [P(c) EXCEPT !.c.remoteid = remoteid, !.c.halfopen = FALSE, !.c.remwindow = remwindow]
             x == ssh2_channel_check_close(mainchan_open_confirmation(q, pty))
  <2>1. GotConfirmation(P(c), remoteid, remwindow, pty) = IF x.c.pending_eof THEN ssh2_channel_try_eof(x) ELSE x
    BY DEF GotConfirmation
  <2>2. q = p
    BY <1>2 DEF p
  <2>3. mainchan_open_confirmation(p, pty) = p2
    BY DEF mainchan_open_confirmation, p1, p2
  <2> HIDE DEF q, p2
  <2>4. x = r
    BY <2>2, <2>3
  <2> HIDE DEF x, r
  <2> QED BY <1>6, <2>1, <2>4
<1> HIDE DEF r
<1> QED BY <1>6, <1>7

\* Every request that is outstanding is given up; the server has sent CLOSE.
LEMMA UnansweredWork ==
  ASSUME NEW q, NEW k, Work(q, k), Has(k.d, "CLOSE", k.i), Rsp(k.d, k.i) = 0, NEW fallback \in BOOLEAN
  PROVE  /\ Work(Unanswered(q, fallback), k) /\ Unanswered(q, fallback).c.closes = q.c.closes
         /\ Unanswered(q, fallback).c.chanreq = <<>>
<1> DEFINE whats == {q.c.chanreq[i].what : i \in DOMAIN q.c.chanreq}
           x == IF "cmd" \in whats /\ fallback THEN ssh2_chanreq_init(q, "fallback", 0) ELSE q
           ab == x.abort \/ whats \cap {"cmd", "fallback"} # {}
<1>1. q \in Works /\ q.c \in Chans /\ ChanOK(q.c)
  BY WorkFields
<1>2. "cmd" \in whats => q.c.kind = "main" /\ "SENT_CLOSE" \notin q.c.closes
  <2> SUFFICES ASSUME "cmd" \in whats PROVE q.c.kind = "main" /\ "SENT_CLOSE" \notin q.c.closes
    OBVIOUS
  <2> DEFINE o == q.c.chanreq
  <2>1. o \in Seq(Awaited) /\ (q.c.kind # "main" => o \in Seq(Winadjs)) /\ ("SENT_CLOSE" \in q.c.closes => o = <<>>)
    BY <1>1, ChanFields DEF ChanOK
  <2>2. PICK i \in DOMAIN o : o[i].what = "cmd"
    OBVIOUS
  <2> HIDE DEF o
  <2>3. o # <<>>
    BY <2>1, <2>2
  <2>4. ~(o \in Seq(Winadjs))
    <3>1. ASSUME o \in Seq(Winadjs) PROVE FALSE
      <4>1. i \in 1..Len(o)
        BY <2>1, <2>2
      <4>2. o[i] \in Winadjs
        BY <3>1, <4>1
      <4> QED BY <2>2, <4>2 DEF Winadjs
    <3> QED BY <3>1
  <2> QED BY <2>1, <2>3, <2>4
<1> HIDE DEF whats
<1>3. Work(x, k) /\ x.c.closes = q.c.closes
  <2>1. CASE "cmd" \in whats /\ fallback
    <3> DEFINE g == ssh2_chanreq_init(q, "fallback", 0)
    <3>1. "fallback" \in Requests /\ 0 \in Nat
      BY DEF Requests
    <3>2. Work(g, k) /\ g.c = [q.c EXCEPT !.chanreq = g.c.chanreq]
      BY <1>2, <2>1, <3>1, ChanreqInit
    <3> HIDE DEF g
    <3>3. g.c.closes = q.c.closes
      BY <1>1, <3>2 DEF Chans
    <3> QED BY <2>1, <3>2, <3>3 DEF g
  <2>2. CASE ~("cmd" \in whats /\ fallback)
    BY <2>2
  <2> QED BY <2>1, <2>2
<1>4. Unanswered(q, fallback) = [x EXCEPT !.c.chanreq = <<>>, !.abort = ab]
  <2> HIDE DEF x
  <2> QED BY DEF Unanswered, whats, x
<1> HIDE DEF x
<1> DEFINE z == x.c
           b == [z EXCEPT !.chanreq = <<>>]
           g == [x EXCEPT !.c = b, !.abort = ab]
<1>5. /\ x \in Works /\ z \in Chans /\ Body(z, Up(x, k), k) /\ Kept(z, k) /\ k \in Contexts
      /\ ~x.gone /\ x.err = "none" /\ x.out \in Seq(Packets)
  BY <1>3, WorkFields
<1>6. /\ b \in Chans /\ b.closes = z.closes /\ b.kind = z.kind
      /\ b.locwindow = z.locwindow /\ b.chanreq = <<>> /\ b.remoteid = z.remoteid
      /\ b.halfopen = z.halfopen /\ b.sink = z.sink /\ b.locmaxwin = z.locmaxwin
      /\ b.localEof = z.localEof /\ b.pending_eof = z.pending_eof
      /\ b.remwindow = z.remwindow /\ b.outbuffer = z.outbuffer /\ b.written = z.written
  <2>1. <<>> \in Seq(Awaited)
    OBVIOUS
  <2> QED BY <1>5, <2>1 DEF Chans
<1>7. Unanswered(q, fallback) = g
  BY <1>4, <1>5 DEF Works
<1>8. ab \in BOOLEAN
  BY <1>5 DEF Works
<1> HIDE DEF b, ab
<1>9. Kept(b, k)
  <2>1. ChanOK(b)
    <3>1. <<>> \in Seq(Winadjs)
      OBVIOUS
    <3> QED BY <1>5, <1>6, <3>1 DEF Kept, ChanOK
  <2>2. Waits(b) = 0
    BY <1>6 DEF Waits
  <2>3. Expects(b, k.d, k.i)
    BY <1>5, <1>6, <2>2 DEF Kept, Expects
  <2> QED BY <1>5, <1>6, <2>1, <2>3 DEF Kept, SocketOK
<1>10. Body(b, Up(x, k), k)
  BY <1>5, <1>6, <1>9, BodyDrop
<1>11. g \in Works /\ g.c = b /\ g.out = x.out /\ ~g.gone /\ g.err = "none"
  BY <1>5, <1>6, <1>8 DEF Works
<1> HIDE DEF g
<1>12. Up(g, k) = Up(x, k)
  BY <1>11 DEF Up
<1>13. Work(g, k)
  BY <1>10, <1>11, <1>12 DEF Work
<1>14. g.c.closes = q.c.closes /\ g.c.chanreq = <<>>
  BY <1>3, <1>6, <1>11
<1> QED BY <1>7, <1>13, <1>14

\* The server's CLOSE is answered and the channel destroyed.
LEMMA GotCloseWork ==
  ASSUME NEW c, NEW k, Body(c, k.u, k), ~k.strict, Has(k.d, "CLOSE", k.i), Rsp(k.d, k.i) = 0,
         NEW fallback \in BOOLEAN
  PROVE  /\ GotClose(P(c), fallback).gone /\ GotClose(P(c), fallback).err = "none"
         /\ \E z : /\ Work(z, k) /\ "SENT_CLOSE" \in z.c.closes
                   /\ GotClose(P(c), fallback).out = z.out
<1> DEFINE q == IF "RCVD_EOF" \in c.closes THEN P(c)
                ELSE chan_send_eof([P(c) EXCEPT !.c.closes = @ \cup {"RCVD_EOF"}])
           r == Unanswered(q, fallback)
           y == [r EXCEPT !.c.outbuffer = 0]
           s == IF "SENT_EOF" \in r.c.closes THEN r
                ELSE ssh2_channel_check_throttle(ssh2channel_write_eof(y))
<1>1. c \in Chans /\ Kept(c, k)
  BY DEF Body
<1>2. P(c) \in Works /\ P(c).c = c
  BY <1>1, FreshWork
<1>3. GotClose(P(c), fallback) = ssh2_channel_check_close([s EXCEPT !.c.closes = @ \cup {"RCVD_CLOSE"}])
  <2> DEFINE g == P(c)
  <2>1. g.c = c
    BY <1>2
  <2> HIDE DEF g
  <2>2. GotClose(g, fallback) = ssh2_channel_check_close([s EXCEPT !.c.closes = @ \cup {"RCVD_CLOSE"}])
    BY <2>1 DEF GotClose, Done, g
  <2> QED BY <2>2 DEF g
<1>4. Work(q, k) /\ "RCVD_EOF" \in q.c.closes
  <2>1. CASE "RCVD_EOF" \in c.closes
    <3>1. Work(P(c), k)
      BY StartWork
    <3> QED BY <1>2, <2>1, <3>1
  <2>2. CASE "RCVD_EOF" \notin c.closes
    <3> DEFINE b == [c EXCEPT !.closes = @ \cup {"RCVD_EOF"}]
    <3>1. /\ b \in Chans /\ b.closes = c.closes \cup {"RCVD_EOF"} /\ b.kind = c.kind
          /\ b.locwindow = c.locwindow /\ b.chanreq = c.chanreq /\ b.remoteid = c.remoteid
          /\ b.halfopen = c.halfopen /\ b.sink = c.sink /\ b.locmaxwin = c.locmaxwin
          /\ b.localEof = c.localEof /\ b.pending_eof = c.pending_eof
          /\ b.remwindow = c.remwindow /\ b.outbuffer = c.outbuffer /\ b.written = c.written
      BY <1>1 DEF Chans, Closes
    <3>2. [P(c) EXCEPT !.c.closes = @ \cup {"RCVD_EOF"}] = P(b)
      <4> DEFINE g == P(c)
      <4>1. g \in Works /\ g.c = c /\ Put(g, b) = P(b)
        BY <1>1, <3>1, FreshWork
      <4> HIDE DEF g
      <4>2. [g EXCEPT !.c.closes = @ \cup {"RCVD_EOF"}] = Put(g, b)
        BY <4>1 DEF Put, Works
      <4> QED BY <4>1, <4>2 DEF g
    <3> HIDE DEF b
    <3>3. Kept(b, k)
      BY <1>1, <3>1 DEF Kept, ChanOK, SocketOK, Expects, Waits
    <3>4. Body(b, k.u, k)
      BY <3>1, <3>3, BodyQuiet
    <3>5. Work(P(b), k) /\ P(b).c = b
      BY <3>4, StartWork
    <3>6. Work(chan_send_eof(P(b)), k) /\ P(b).c.closes \subseteq chan_send_eof(P(b)).c.closes
      BY <3>5, SendEof
    <3>7. q = chan_send_eof(P(b))
      BY <2>2, <3>2
    <3>8. "RCVD_EOF" \in P(b).c.closes
      BY <3>1, <3>5
    <3> HIDE DEF q
    <3> QED BY <3>6, <3>7, <3>8
  <2> QED BY <2>1, <2>2
<1> HIDE DEF q
<1>5. Work(r, k) /\ "RCVD_EOF" \in r.c.closes /\ r.c.chanreq = <<>>
  BY <1>4, UnansweredWork
<1> HIDE DEF r
<1>6. Work(s, k) /\ "RCVD_EOF" \in s.c.closes /\ s.c.chanreq = <<>> /\ "SENT_EOF" \in s.c.closes
  <2>1. CASE "SENT_EOF" \in r.c.closes
    BY <1>5, <2>1
  <2>2. CASE "SENT_EOF" \notin r.c.closes
    <3> DEFINE e == r.c
               b == [e EXCEPT !.outbuffer = 0]
    <3>1. r \in Works /\ e \in Chans /\ Body(e, Up(r, k), k) /\ Kept(e, k)
      BY <1>5, WorkFields
    <3>2. /\ b \in Chans /\ b.closes = e.closes /\ b.kind = e.kind
          /\ b.locwindow = e.locwindow /\ b.chanreq = e.chanreq /\ b.remoteid = e.remoteid
          /\ b.halfopen = e.halfopen /\ b.sink = e.sink /\ b.locmaxwin = e.locmaxwin
          /\ b.localEof = e.localEof /\ b.pending_eof = e.pending_eof
          /\ b.remwindow = e.remwindow /\ b.outbuffer = 0 /\ b.written = e.written
      BY <3>1 DEF Chans
    <3>3. y = Put(r, b)
      BY <3>1 DEF Put, Works
    <3> HIDE DEF b, y
    <3>4. Kept(b, k)
      BY <3>1, <3>2 DEF Kept, ChanOK, SocketOK, Expects, Waits
    <3>5. Body(b, Up(r, k), k)
      BY <3>1, <3>2, <3>4, BodyDrop
    <3>6. Work(Put(r, b), k) /\ Put(r, b).c = b
      BY <1>5, <3>5, PutWork
    <3>7. Work(y, k) /\ y.c = b
      BY <3>3, <3>6
    <3>8. y.c.outbuffer = 0 /\ "RCVD_EOF" \in y.c.closes /\ y.c.chanreq = <<>>
      BY <1>5, <3>2, <3>7
    <3> DEFINE v == ssh2channel_write_eof(y)
    <3>9. Work(v, k) /\ "RCVD_EOF" \in v.c.closes /\ v.c.chanreq = <<>> /\ "SENT_EOF" \in v.c.closes
      BY <3>7, <3>8, WriteEof
    <3> HIDE DEF v
    <3> DEFINE w == ssh2_channel_check_throttle(v)
    <3>10. Work(w, k) /\ w.c.closes = v.c.closes /\ w.c.chanreq = v.c.chanreq
      BY <3>9, CheckThrottle
    <3> HIDE DEF w
    <3>11. s = w
      BY <2>2 DEF w, v
    <3> HIDE DEF s
    <3> QED BY <3>9, <3>10, <3>11
  <2> QED BY <2>1, <2>2
<1> HIDE DEF s
<1> DEFINE z == ssh2_channel_check_close(s)
           t == [s EXCEPT !.c.closes = @ \cup {"RCVD_CLOSE"}]
<1>7. s \in Works /\ s.c \in Chans /\ ~s.c.halfopen /\ ChanOK(s.c) /\ ~s.gone /\ s.err = "none"
  BY <1>6, WorkFields
<1>8. Work(z, k)
  BY <1>6, CheckClose
<1>9. /\ t.c.closes = s.c.closes \cup {"RCVD_CLOSE"} /\ t.c.chanreq = <<>> /\ ~t.c.halfopen
      /\ t.c.kind = s.c.kind /\ t.out = s.out /\ t.gone = FALSE /\ t.err = "none"
      /\ t.c.remoteid = s.c.remoteid /\ t \in Works
  BY <1>6, <1>7 DEF Works, Chans, Closes
<1>10. want_close(s) /\ want_close(t)
  BY <1>6, <1>9 DEF want_close, Done
<1>11. Done(t, {"RCVD_CLOSE"}) /\ (Done(t, {"SENT_CLOSE"}) <=> "SENT_CLOSE" \in s.c.closes)
       /\ (Done(s, {"SENT_CLOSE"}) <=> "SENT_CLOSE" \in s.c.closes)
  BY <1>9 DEF Done
<1> HIDE DEF t
<1>12. CASE "SENT_CLOSE" \in s.c.closes
  <2>1. z = s
    <3>1. ~Done(s, {"SENT_CLOSE", "RCVD_CLOSE"})
      BY <1>7 DEF ChanOK, Done
    <3> QED BY <1>7, <1>11, <1>12, <3>1 DEF ssh2_channel_check_close
  <2>2. ssh2_channel_check_close(t) = [t EXCEPT !.gone = TRUE]
    <3>1. Done(t, {"SENT_CLOSE", "RCVD_CLOSE"})
      BY <1>9, <1>12 DEF Done
    <3> QED BY <1>9, <1>11, <1>12, <3>1 DEF ssh2_channel_check_close, ssh2_channel_destroy
  <2>3. /\ ssh2_channel_check_close(t).gone /\ ssh2_channel_check_close(t).err = "none"
        /\ ssh2_channel_check_close(t).out = s.out
    BY <1>9, <2>2 DEF Works
  <2>4. GotClose(P(c), fallback) = ssh2_channel_check_close(t)
    BY <1>3 DEF t
  <2> QED BY <1>6, <1>12, <2>3, <2>4
<1>13. CASE "SENT_CLOSE" \notin s.c.closes
  <2> DEFINE f == [Send(t, "CLOSE", 0) EXCEPT !.c.closes = @ \cup {"SENT_EOF", "SENT_CLOSE"}]
             g == [Send(s, "CLOSE", 0) EXCEPT !.c.closes = @ \cup {"SENT_EOF", "SENT_CLOSE"}]
  <2>1. /\ f.out = Append(s.out, Packet("CLOSE", s.c.remoteid, 0)) /\ f.gone = FALSE /\ f.err = "none"
        /\ {"SENT_CLOSE", "RCVD_CLOSE"} \subseteq f.c.closes /\ f.c.chanreq = <<>>
        /\ [f EXCEPT !.gone = TRUE].gone /\ [f EXCEPT !.gone = TRUE].err = "none"
        /\ [f EXCEPT !.gone = TRUE].out = f.out
    BY <1>9 DEF Send, Works, Chans
  <2>2. /\ g.out = Append(s.out, Packet("CLOSE", s.c.remoteid, 0))
        /\ g.c.closes = s.c.closes \cup {"SENT_EOF", "SENT_CLOSE"}
    BY <1>7 DEF Send, Works, Chans
  <2> HIDE DEF f, g
  <2>3. z = g
    <3>1. ~Done(g, {"SENT_CLOSE", "RCVD_CLOSE"})
      BY <1>7, <2>2 DEF ChanOK, Done
    <3> QED BY <1>6, <1>7, <1>10, <1>11, <1>13, <3>1 DEF ssh2_channel_check_close, g
  <2>4. ssh2_channel_check_close(t) = [f EXCEPT !.gone = TRUE]
    <3>1. Done(f, {"SENT_CLOSE", "RCVD_CLOSE"})
      BY <2>1 DEF Done
    <3> QED BY <1>9, <1>10, <1>11, <1>13, <2>1, <3>1 DEF ssh2_channel_check_close, ssh2_channel_destroy, f
  <2>5. /\ ssh2_channel_check_close(t).gone /\ ssh2_channel_check_close(t).err = "none"
        /\ ssh2_channel_check_close(t).out = z.out /\ "SENT_CLOSE" \in z.c.closes
    BY <2>1, <2>2, <2>3, <2>4
  <2>6. GotClose(P(c), fallback) = ssh2_channel_check_close(t)
    BY <1>3 DEF t
  <2> HIDE DEF z
  <2> QED BY <1>8, <2>5, <2>6
<1> QED BY <1>12, <1>13

-----------------------------------------------------------------------------
(* The connection: all channels, all of the server's ends, both queues.    *)

\* A connection as one value.
Conns == [ch : [Ids -> Chans], sv : [Ids -> Ends], u : Seq(Packets), d : Seq(Packets)]
Alive(s, i) == s.ch[i].kind # "none"

\* A half-open channel is looked at as the confirmation a that is on its way will have it.
View(c, a) ==
  IF c.halfopen THEN [c EXCEPT !.remoteid = a[1], !.halfopen = FALSE, !.remwindow = a[2]] ELSE c
Links(s, i, a, r) ==
  /\ i \in Ids /\ Alive(s, i) /\ a \in Ids \X Nat
  /\ s.ch[i].halfopen => Carries(s.d, "CONFIRM", i, a)
  /\ View(s.ch[i], a).remoteid = r
Joined(s, i, r) == \E a : Links(s, i, a, r)

\* End r is the other end of channel i, or will be when the server has our confirmation,
\* and is looked at as that will have it.
Paired(s, i, r) ==
  \/ s.sv[r].st = "open" /\ s.sv[r].peer = i
  \/ s.sv[r].st = "opening" /\ Carries(s.u, "CONFIRM", r, i)
EndView(e, i) == IF e.st = "opening" THEN [Opened(i, e.rcvwin) EXCEPT !.started = TRUE] ELSE e

\* A channel agrees with its other end, or that is gone: both have sent CLOSE, and the
\* server's is still on its way.
Meets(s, i, a, r) ==
  /\ Paired(s, i, r) => Conv(i, r, View(s.ch[i], a), s.u, EndView(s.sv[r], i), s.d)
  /\ ~Paired(s, i, r) => "SENT_CLOSE" \in s.ch[i].closes /\ Has(s.d, "CLOSE", i)
MeetInv(s, i) == \A a, r : Links(s, i, a, r) => Meets(s, i, a, r)

\* What channel i has of its own.
HereInv(s, i) ==
  LET c == s.ch[i] IN
  /\ Alive(s, i) => ChanOK(c) /\ SocketOK(c) /\ Expects(c, s.d, i)
  /\ About(s.d, i) =>
       Alive(s, i) /\ (c.halfopen <=> Has(s.d, "CONFIRM", i) \/ Has(s.d, "OPENFAIL", i))
  /\ Alive(s, i) /\ c.halfopen =>
       /\ i = 0 /\ c = NewChannel("main", 0, TRUE, 0)
       /\ Has(s.u, "OPEN", i) <=> ~About(s.d, i)
  /\ Has(s.u, "OPEN", i) => Alive(s, i) /\ c.halfopen
  /\ \A a : Carries(s.d, "CONFIRM", i, a) => a \in Ids \X Nat
  /\ \A a : Carries(s.d, "REQ", i, a) => a # "window-change"

\* What the server's end r has of its own.
ThereInv(s, r) ==
  LET e == s.sv[r] IN
  /\ About(s.u, r) =>
       \/ /\ e.st = "open" /\ "RCVD_CLOSE" \notin e.closes
          /\ ~Has(s.u, "CONFIRM", r) /\ ~Has(s.u, "OPENFAIL", r)
       \/ e.st = "opening" /\ (Has(s.u, "CONFIRM", r) \/ Has(s.u, "OPENFAIL", r))
  /\ EndOK(e, s.u, r)
  /\ e.st = "opening" => e = [NoEnd EXCEPT !.st = "opening", !.rcvwin = e.rcvwin]
  /\ e.st = "none" => e = NoEnd
  /\ ~("SENT_CLOSE" \in e.closes /\ "RCVD_CLOSE" \in e.closes)
  /\ \A a : Carries(s.u, "CONFIRM", r, a) => a \in Ids
  /\ \A a : Carries(s.d, "OPEN", r, a) => e.st = "opening" /\ e.rcvwin = a

\* End r has its channel, or that is gone and our CLOSE on its way; an end that is being
\* opened waits for our answer, or has it coming.
PeerInv(s, r) ==
  LET e == s.sv[r] IN
  /\ e.st = "open" => Joined(s, e.peer, r) \/ ("SENT_CLOSE" \in e.closes /\ Has(s.u, "CLOSE", r))
  /\ e.st = "opening" =>
       \/ Has(s.d, "OPEN", r) /\ ~About(s.u, r)
       \/ ~Has(s.d, "OPEN", r) /\ Has(s.u, "OPENFAIL", r)
       \/ ~Has(s.d, "OPEN", r) /\ \E j : Carries(s.u, "CONFIRM", r, j) /\ Joined(s, j, r)

\* The queues are in order, and with them every channel and every end: the core of the
\* invariant.
Queues(s) == s \in Conns /\ Ord(s.u) /\ EofLast(s.u) /\ Ord(s.d)
Core(s) ==
  /\ Queues(s)
  /\ \A i \in Ids : HereInv(s, i) /\ MeetInv(s, i)
  /\ \A r \in Ids : ThereInv(s, r) /\ PeerInv(s, r)

\* There is an id for each channel that is being opened.
Counts(s, n) ==
  /\ n \in 0..MaxOpens
  /\ Cardinality({i \in Ids : Alive(s, i)}) + Opn(s.d) <= n + 1
  /\ Cardinality({r \in Ids : s.sv[r].st # "none"}) + Opn(s.u) <= n + 1

\* The invariant of the connection.
Conn == [ch |-> chan, sv |-> srv, u |-> toServer, d |-> toClient]
ConnInv ==
  /\ Core(Conn) /\ Counts(Conn, opens)
  /\ fault \in {"none", "typed", "resized"}
  /\ callbacks \subseteq {"check", "abort"} /\ conn \in {"up", "closed", "aborted"}

\* The types of what a connection holds.
LEMMA ConnFields ==
  ASSUME NEW s \in Conns
  PROVE  /\ s.u \in Seq(Packets) /\ s.d \in Seq(Packets)
         /\ \A i \in Ids : s.ch[i] \in Chans /\ s.sv[i] \in Ends
BY DEF Conns

\* How a half-open channel is looked at.
LEMMA ViewFields ==
  ASSUME NEW c \in Chans, NEW a \in Ids \X Nat
  PROVE  /\ View(c, a) \in Chans /\ ~View(c, a).halfopen /\ View(c, a).closes = c.closes
         /\ View(c, a).kind = c.kind /\ View(c, a).chanreq = c.chanreq
         /\ View(c, a).locwindow = c.locwindow /\ View(c, a).sink = c.sink
         /\ View(c, a).locmaxwin = c.locmaxwin /\ View(c, a).pending_eof = c.pending_eof
         /\ View(c, a).localEof = c.localEof /\ View(c, a).remoteid \in Ids
         /\ View(c, a).outbuffer = c.outbuffer /\ View(c, a).written = c.written
         /\ ~c.halfopen => View(c, a) = c
         /\ c.halfopen => View(c, a).remoteid = a[1] /\ View(c, a).remwindow = a[2]
<1>1. a[1] \in Ids /\ a[2] \in Nat
  OBVIOUS
<1>2. CASE ~c.halfopen
  BY <1>2, ChanFields DEF View
<1>3. CASE c.halfopen
  <2> DEFINE b == [c EXCEPT !.remoteid = a[1], !.halfopen = FALSE, !.remwindow = a[2]]
  <2>1. /\ b \in Chans /\ ~b.halfopen /\ b.closes = c.closes /\ b.kind = c.kind /\ b.chanreq = c.chanreq
        /\ b.locwindow = c.locwindow /\ b.sink = c.sink /\ b.locmaxwin = c.locmaxwin
        /\ b.pending_eof = c.pending_eof /\ b.localEof = c.localEof /\ b.remoteid = a[1]
        /\ b.remwindow = a[2] /\ b.outbuffer = c.outbuffer /\ b.written = c.written
    BY <1>1 DEF Chans
  <2>2. View(c, a) = b
    BY <1>3 DEF View
  <2> HIDE DEF b
  <2> QED BY <1>1, <1>3, <2>1, <2>2
<1>4. c.halfopen \in BOOLEAN
  BY ChanFields
<1> QED BY <1>2, <1>3, <1>4

\* An end that is free.
LEMMA NoEndFields ==
  /\ NoEnd \in Ends /\ NoEnd.st = "none" /\ NoEnd.peer = 0 /\ NoEnd.closes = {} /\ NoEnd.rcvwin = 0
  /\ NoEnd.got = 0 /\ NoEnd.asked = 0
<1>0. 0 \in Ids
  BY ChannelAssumption DEF Ids
<1> QED BY <1>0 DEF NoEnd, Ends

\* An end the server is opening.
LEMMA OpeningFields ==
  ASSUME NEW w \in Nat, NEW e, e = [NoEnd EXCEPT !.st = "opening", !.rcvwin = w]
  PROVE  e \in Ends /\ e.st = "opening" /\ e.closes = {} /\ e.rcvwin = w /\ e.got = 0 /\ e.asked = 0
BY NoEndFields DEF Ends

\* An end that has just been opened.
LEMMA OpenedFields ==
  ASSUME NEW i \in Ids, NEW w \in Nat, NEW e,
         e = Opened(i, w) \/ e = [Opened(i, w) EXCEPT !.started = TRUE]
  PROVE  /\ e \in Ends /\ e.st = "open" /\ e.peer = i /\ e.sndwin = WinSize /\ e.rcvwin = w
         /\ e.got = 0 /\ e.asked = 0 /\ e.closes = {}
<1>1. WinSize \in Nat /\ MaxDown \in Nat
  BY ChannelAssumption
<1> DEFINE f == Opened(i, w)
<1>2. /\ f \in Ends /\ f.st = "open" /\ f.peer = i /\ f.sndwin = WinSize /\ f.rcvwin = w
      /\ f.got = 0 /\ f.asked = 0 /\ f.closes = {}
  BY <1>1, NoEndFields DEF Opened, Ends
<1> HIDE DEF f
<1>3. CASE e = f
  BY <1>2, <1>3
<1>4. CASE e = [f EXCEPT !.started = TRUE]
  BY <1>2, <1>4 DEF Ends
<1> QED BY <1>3, <1>4 DEF f

\* How an end that is being opened is looked at.
LEMMA EndViewFields ==
  ASSUME NEW e \in Ends, NEW i \in Ids
  PROVE  /\ EndView(e, i) \in Ends
         /\ e.st # "opening" => EndView(e, i) = e
         /\ e.st = "opening" => /\ EndView(e, i).closes = {} /\ EndView(e, i).rcvwin = e.rcvwin
                                /\ EndView(e, i).got = 0 /\ EndView(e, i).asked = 0
                                /\ EndView(e, i).sndwin = WinSize
<1>1. e.rcvwin \in Nat
  BY DEF Ends
<1>2. CASE e.st # "opening"
  BY <1>2 DEF EndView
<1>3. CASE e.st = "opening"
  <2> DEFINE f == [Opened(i, e.rcvwin) EXCEPT !.started = TRUE]
  <2>1. EndView(e, i) = f
    BY <1>3 DEF EndView
  <2>2. /\ f \in Ends /\ f.sndwin = WinSize /\ f.rcvwin = e.rcvwin
        /\ f.got = 0 /\ f.asked = 0 /\ f.closes = {}
    BY <1>1, OpenedFields
  <2> HIDE DEF f
  <2> QED BY <1>3, <2>1, <2>2
<1> QED BY <1>2, <1>3

\* A channel that has just been made.
LEMMA NewChannelFields ==
  ASSUME NEW kind \in {"none", "main", "fwd", "zombie"}, NEW r \in Ids, NEW h \in BOOLEAN, NEW w \in Nat
  PROVE  LET c == NewChannel(kind, r, h, w) IN
         /\ c \in Chans /\ c.kind = kind /\ c.remoteid = r /\ c.halfopen = h /\ c.closes = {}
         /\ ~c.pending_eof /\ c.outbuffer = 0 /\ c.written = 0 /\ c.remwindow = w
         /\ c.locwindow = WinSize /\ c.locmaxwin = WinSize /\ c.chanreq = <<>> /\ c.sink = 0
         /\ Waits(c) = 0
<1> DEFINE c == NewChannel(kind, r, h, w)
<1>1. WinSize \in Nat /\ WinSize \in Int /\ <<>> \in Seq(Awaited)
  BY ChannelAssumption
<1>2. /\ c \in Chans /\ c.kind = kind /\ c.remoteid = r /\ c.halfopen = h /\ c.closes = {}
      /\ ~c.pending_eof /\ c.outbuffer = 0 /\ c.written = 0 /\ c.remwindow = w
      /\ c.locwindow = WinSize /\ c.locmaxwin = WinSize /\ c.chanreq = <<>> /\ c.sink = 0
  BY <1>1 DEF NewChannel, Chans
<1> HIDE DEF c
<1>3. Waits(c) = 0
  BY <1>2 DEF Waits
<1> QED BY <1>2, <1>3 DEF c

\* A channel that has another end.
LEMMA LinksFields ==
  ASSUME NEW s \in Conns, NEW i, NEW a, NEW r, Links(s, i, a, r)
  PROVE  /\ i \in Ids /\ r \in Ids /\ a \in Ids \X Nat /\ s.ch[i] \in Chans
         /\ s.ch[i].kind # "none" /\ (s.ch[i].halfopen => Carries(s.d, "CONFIRM", i, a))
         /\ View(s.ch[i], a).remoteid = r
<1>1. /\ i \in Ids /\ a \in Ids \X Nat /\ s.ch[i].kind # "none" /\ View(s.ch[i], a).remoteid = r
      /\ (s.ch[i].halfopen => Carries(s.d, "CONFIRM", i, a))
  BY DEF Links, Alive
<1>2. s.ch[i] \in Chans
  BY <1>1, ConnFields
<1>3. View(s.ch[i], a).remoteid \in Ids
  BY <1>1, <1>2, ViewFields
<1> QED BY <1>1, <1>2, <1>3

\* A channel has one other end, and an end one channel.
LEMMA JoinedOnce ==
  ASSUME NEW s \in Conns, Ord(s.d), NEW i, NEW q, NEW r, Joined(s, i, q), Joined(s, i, r)
  PROVE  q = r
<1>1. PICK a : Links(s, i, a, q)
  BY DEF Joined
<1>2. PICK b : Links(s, i, b, r)
  BY DEF Joined
<1>3. CASE s.ch[i].halfopen
  <2>1. Carries(s.d, "CONFIRM", i, a) /\ Carries(s.d, "CONFIRM", i, b)
    BY <1>1, <1>2, <1>3, LinksFields
  <2>2. a = b
    BY <2>1, ConnFields, OneAnswer
  <2> QED BY <1>1, <1>2, <2>2 DEF Links
<1>4. CASE ~s.ch[i].halfopen
  <2>1. View(s.ch[i], a) = s.ch[i] /\ View(s.ch[i], b) = s.ch[i]
    BY <1>4 DEF View
  <2> QED BY <1>1, <1>2, <2>1 DEF Links
<1> QED BY <1>3, <1>4

\* An end is the other end of one channel only.
LEMMA PairedOnce ==
  ASSUME NEW s \in Conns, Ord(s.u), NEW i, NEW j, NEW r, Paired(s, i, r), Paired(s, j, r)
  PROVE  i = j
<1>1. s.u \in Seq(Packets)
  BY ConnFields
<1>2. CASE s.sv[r].st = "open"
  BY <1>2 DEF Paired
<1>3. CASE s.sv[r].st # "open"
  <2>1. Carries(s.u, "CONFIRM", r, i) /\ Carries(s.u, "CONFIRM", r, j)
    BY <1>3 DEF Paired
  <2> QED BY <1>1, <2>1, OneAnswer
<1> QED BY <1>2, <1>3

\* What a channel and its end agree on depends only on the packets to either.
LEMMA ConvSame ==
  ASSUME NEW i, NEW r, NEW c, NEW u, NEW v, NEW e, NEW d, NEW f,
         Conv(i, r, c, u, e, d), Same(u, v, r), Same(d, f, i)
  PROVE  Conv(i, r, c, v, e, f)
BY DEF Conv, Windows, Streams, Replies, Closings, Same

\* A queue is the same as itself.
LEMMA SameSelf ==
  ASSUME NEW q, NEW id
  PROVE  Same(q, q, id) /\ SameOpens(q, q)
BY DEF Same, SameOpens

-----------------------------------------------------------------------------
(* A step concerns one channel i and one end r of the server's.            *)

\* The step from s to t leaves the other channels, the other ends and the packets to
\* them.
Elsewhere(s, t, i, r) ==
  /\ \A j \in Ids : j # i =>
       /\ t.ch[j] = s.ch[j] /\ Same(s.d, t.d, j)
       /\ Has(t.u, "OPEN", j) <=> Has(s.u, "OPEN", j)
  /\ \A q \in Ids : q # r =>
       /\ t.sv[q] = s.sv[q] /\ Same(s.u, t.u, q)
       /\ Has(t.d, "OPEN", q) <=> Has(s.d, "OPEN", q)
       /\ \A a : Carries(t.d, "OPEN", q, a) <=> Carries(s.d, "OPEN", q, a)

\* A step on channel i and end r leaves the links of the others.
LEMMA ElsewhereLinks ==
  ASSUME NEW s, NEW t, NEW i, NEW r, Elsewhere(s, t, i, r), NEW j, j # i
  PROVE  /\ \A a, q : Links(t, j, a, q) <=> Links(s, j, a, q)
         /\ \A q : Joined(t, j, q) <=> Joined(s, j, q)
<1>1. j \in Ids => t.ch[j] = s.ch[j] /\ \A a : Carries(t.d, "CONFIRM", j, a) <=> Carries(s.d, "CONFIRM", j, a)
  BY DEF Elsewhere, Same
<1>2. \A a, q : Links(t, j, a, q) <=> Links(s, j, a, q)
  BY <1>1 DEF Links, Alive
<1> QED BY <1>2 DEF Joined

\* So it leaves what HereInv says of the other channels,
LEMMA ElsewhereHere ==
  ASSUME NEW s, NEW t, NEW i, NEW r, Elsewhere(s, t, i, r), NEW j \in Ids, j # i, HereInv(s, j)
  PROVE  HereInv(t, j)
<1>1. t.ch[j] = s.ch[j] /\ Same(s.d, t.d, j) /\ (Has(t.u, "OPEN", j) <=> Has(s.u, "OPEN", j))
  BY DEF Elsewhere
<1>2. Alive(t, j) <=> Alive(s, j)
  BY <1>1 DEF Alive
<1>3. /\ About(t.d, j) <=> About(s.d, j)
      /\ Has(t.d, "CONFIRM", j) <=> Has(s.d, "CONFIRM", j)
      /\ Has(t.d, "OPENFAIL", j) <=> Has(s.d, "OPENFAIL", j)
      /\ \A a : Carries(t.d, "CONFIRM", j, a) <=> Carries(s.d, "CONFIRM", j, a)
      /\ \A a : Carries(t.d, "REQ", j, a) <=> Carries(s.d, "REQ", j, a)
      /\ Expects(s.ch[j], t.d, j) <=> Expects(s.ch[j], s.d, j)
  BY <1>1 DEF Same, Expects
<1> QED BY <1>1, <1>2, <1>3 DEF HereInv

\* what ThereInv says of the other ends,
LEMMA ElsewhereThere ==
  ASSUME NEW s, NEW t, NEW i, NEW r, Elsewhere(s, t, i, r), NEW q \in Ids, q # r, ThereInv(s, q)
  PROVE  ThereInv(t, q)
<1>1. /\ t.sv[q] = s.sv[q] /\ Same(s.u, t.u, q)
      /\ \A a : Carries(t.d, "OPEN", q, a) <=> Carries(s.d, "OPEN", q, a)
  BY DEF Elsewhere
<1>2. /\ About(t.u, q) <=> About(s.u, q)
      /\ Has(t.u, "CONFIRM", q) <=> Has(s.u, "CONFIRM", q)
      /\ Has(t.u, "OPENFAIL", q) <=> Has(s.u, "OPENFAIL", q)
      /\ \A a : Carries(t.u, "CONFIRM", q, a) <=> Carries(s.u, "CONFIRM", q, a)
  BY <1>1 DEF Same
<1>3. EndOK(s.sv[q], s.u, q) => EndOK(s.sv[q], t.u, q)
  BY <1>1 DEF Same, EndOK
<1> QED BY <1>1, <1>2, <1>3 DEF ThereInv

\* what PeerInv says of them, as long as channel i keeps its end,
LEMMA ElsewherePeer ==
  ASSUME NEW s, NEW t, NEW i, NEW r, Elsewhere(s, t, i, r), NEW q \in Ids, q # r, PeerInv(s, q),
         Joined(s, i, q) => Joined(t, i, q)
  PROVE  PeerInv(t, q)
<1>1. /\ t.sv[q] = s.sv[q] /\ Same(s.u, t.u, q)
      /\ Has(t.d, "OPEN", q) <=> Has(s.d, "OPEN", q)
  BY DEF Elsewhere
<1>2. \A j : Joined(s, j, q) => Joined(t, j, q)
  BY ElsewhereLinks
<1>3. /\ About(t.u, q) <=> About(s.u, q)
      /\ Has(t.u, "CLOSE", q) <=> Has(s.u, "CLOSE", q)
      /\ Has(t.u, "OPENFAIL", q) <=> Has(s.u, "OPENFAIL", q)
      /\ \A a : Carries(t.u, "CONFIRM", q, a) <=> Carries(s.u, "CONFIRM", q, a)
  BY <1>1 DEF Same
<1> QED BY <1>1, <1>2, <1>3 DEF PeerInv

\* and what MeetInv says of another channel, unless that meets end r.
LEMMA ElsewhereMeet ==
  ASSUME NEW s \in Conns, NEW t, NEW i, NEW r, Elsewhere(s, t, i, r), NEW j \in Ids, j # i,
         MeetInv(s, j),
         r \in Ids /\ (Paired(s, j, r) \/ Paired(t, j, r)) => t.sv[r] = s.sv[r] /\ Same(s.u, t.u, r)
  PROVE  MeetInv(t, j)
<1> SUFFICES ASSUME NEW a, NEW q, Links(t, j, a, q)
             PROVE  Meets(t, j, a, q)
  BY DEF MeetInv
<1>1. Links(s, j, a, q)
  BY ElsewhereLinks
<1>2. Meets(s, j, a, q) /\ q \in Ids
  BY <1>1, LinksFields DEF MeetInv
<1>3. t.ch[j] = s.ch[j] /\ Same(s.d, t.d, j)
  BY DEF Elsewhere
<1>4. Has(t.d, "CLOSE", j) <=> Has(s.d, "CLOSE", j)
  BY <1>3 DEF Same
<1>5. CASE t.sv[q] = s.sv[q] /\ Same(s.u, t.u, q)
  <2>1. Paired(t, j, q) <=> Paired(s, j, q)
    BY <1>5 DEF Paired, Same
  <2>2. ASSUME Paired(s, j, q)
        PROVE  Conv(j, q, View(t.ch[j], a), t.u, EndView(t.sv[q], j), t.d)
    <3>1. Conv(j, q, View(s.ch[j], a), s.u, EndView(s.sv[q], j), s.d)
      BY <1>2, <2>2 DEF Meets
    <3>2. Conv(j, q, View(s.ch[j], a), t.u, EndView(s.sv[q], j), t.d)
      BY <1>3, <1>5, <3>1, ConvSame
    <3> QED BY <1>3, <1>5, <3>2
  <2> QED BY <1>2, <1>3, <1>4, <2>1, <2>2 DEF Meets
<1>6. CASE ~(t.sv[q] = s.sv[q] /\ Same(s.u, t.u, q))
  <2>1. ~Paired(s, j, q) /\ ~Paired(t, j, q)
    BY <1>2, <1>6 DEF Elsewhere
  <2> QED BY <1>2, <1>3, <1>4, <2>1 DEF Meets
<1> QED BY <1>5, <1>6

\* A step on channel i and end r keeps Core when it does so for these two.
LEMMA CoreStep ==
  ASSUME NEW s, NEW t, NEW i, NEW r, Core(s), Queues(t), Elsewhere(s, t, i, r),
         \A j \in Ids : j # i /\ r \in Ids /\ (Paired(s, j, r) \/ Paired(t, j, r)) =>
           t.sv[r] = s.sv[r] /\ Same(s.u, t.u, r),
         \A q \in Ids : q # r /\ Joined(s, i, q) => Joined(t, i, q),
         i \in Ids => HereInv(t, i) /\ MeetInv(t, i),
         r \in Ids => ThereInv(t, r) /\ PeerInv(t, r)
  PROVE  Core(t)
<1>0. s \in Conns
  BY DEF Core, Queues
<1>1. ASSUME NEW j \in Ids, j # i
      PROVE  HereInv(t, j) /\ MeetInv(t, j)
  BY <1>0, <1>1, ElsewhereHere, ElsewhereMeet DEF Core
<1>2. ASSUME NEW q \in Ids, q # r
      PROVE  ThereInv(t, q) /\ PeerInv(t, q)
  BY <1>2, ElsewhereThere, ElsewherePeer DEF Core
<1> QED BY <1>1, <1>2 DEF Core

-----------------------------------------------------------------------------
(* Steps of the client's on a channel that is open.                        *)

\* The context of a handler for channel i, whose other end is r.
Setting(s, i, r, h) ==
  /\ h \in Contexts /\ h.i = i /\ h.r = r /\ h.e = EndView(s.sv[r], i) /\ h.u = s.u
  /\ h.paired <=> Paired(s, i, r)

\* What holds of an end does not depend on how it is looked at.
LEMMA EndOKView ==
  ASSUME NEW e \in Ends, NEW i \in Ids, NEW u, NEW r,
         e.st = "opening" => e = [NoEnd EXCEPT !.st = "opening", !.rcvwin = e.rcvwin]
  PROVE  EndOK(EndView(e, i), u, r) <=> EndOK(e, u, r)
<1>1. CASE e.st # "opening"
  BY <1>1, EndViewFields
<1>2. CASE e.st = "opening"
  <2>1. e.closes = {} /\ e.got = 0 /\ e.asked = 0
    <3>1. e.rcvwin \in Nat
      BY DEF Ends
    <3> QED BY <1>2, <3>1, OpeningFields
  <2>2. /\ EndView(e, i).closes = {} /\ EndView(e, i).rcvwin = e.rcvwin
        /\ EndView(e, i).got = 0 /\ EndView(e, i).asked = 0
    BY <1>2, EndViewFields
  <2> QED BY <2>1, <2>2 DEF EndOK, Asked
<1> QED BY <1>1, <1>2

\* The other end of a channel has not been refused.
LEMMA PairedOpen ==
  ASSUME NEW s, Core(s), NEW i \in Ids, NEW r \in Ids, Paired(s, i, r)
  PROVE  ~Has(s.u, "OPENFAIL", r)
<1>1. CASE s.sv[r].st = "open"
  <2>1. Has(s.u, "OPENFAIL", r) => About(s.u, r)
    BY Seen
  <2> QED BY <1>1, <2>1 DEF Core, ThereInv
<1>2. CASE s.sv[r].st # "open"
  <2>1. Carries(s.u, "CONFIRM", r, i)
    BY <1>2 DEF Paired
  <2> QED BY <2>1, ConnFields, OneAnswer DEF Core, Queues
<1> QED BY <1>1, <1>2

\* A channel with another end is in order, in the context of that end.
LEMMA StartBody ==
  ASSUME NEW s, Core(s), NEW i, NEW a, NEW r, Links(s, i, a, r), NEW h, Setting(s, i, r, h), h.d = s.d
  PROVE  Body(View(s.ch[i], a), s.u, h)
<1> DEFINE c == s.ch[i]
           b == View(c, a)
<1>0. s \in Conns /\ Ord(s.u) /\ EofLast(s.u) /\ s.u \in Seq(Packets)
  BY ConnFields DEF Core, Queues
<1>1. i \in Ids /\ r \in Ids /\ a \in Ids \X Nat /\ c \in Chans /\ c.kind # "none" /\ b.remoteid = r
  BY <1>0, LinksFields
<1>2. HereInv(s, i) /\ MeetInv(s, i) /\ ThereInv(s, r) /\ s.sv[r] \in Ends
  BY <1>0, <1>1, ConnFields DEF Core
<1>3. ChanOK(c) /\ SocketOK(c) /\ Expects(c, s.d, i)
  BY <1>1, <1>2 DEF HereInv, Alive
<1>4. /\ b \in Chans /\ ~b.halfopen /\ b.closes = c.closes /\ b.kind = c.kind /\ b.chanreq = c.chanreq
      /\ b.locwindow = c.locwindow /\ b.sink = c.sink /\ b.locmaxwin = c.locmaxwin
      /\ b.pending_eof = c.pending_eof /\ b.localEof = c.localEof
  BY <1>1, ViewFields
<1>5. Meets(s, i, a, r)
  BY <1>2 DEF MeetInv
<1> HIDE DEF b
<1>6. Kept(b, h)
  <2>1. ChanOK(b) /\ SocketOK(b)
    BY <1>3, <1>4 DEF ChanOK, SocketOK
  <2>2. Expects(b, s.d, i)
    BY <1>3, <1>4 DEF Expects, Waits
  <2> QED BY <1>1, <1>4, <2>1, <2>2 DEF Kept, Setting
<1>7. Frame(s.u, h)
  BY SameSelf DEF Frame, Setting
<1>8. ASSUME h.paired
      PROVE  Conv(h.i, h.r, b, s.u, h.e, h.d) /\ EndOK(h.e, s.u, h.r) /\ ~Has(s.u, "OPENFAIL", h.r)
  <2>1. Paired(s, i, r)
    BY <1>8 DEF Setting
  <2>2. Conv(i, r, b, s.u, EndView(s.sv[r], i), s.d)
    BY <1>5, <2>1 DEF Meets, b
  <2>3. EndOK(EndView(s.sv[r], i), s.u, r)
    BY <1>1, <1>2, EndOKView DEF ThereInv
  <2>4. ~Has(s.u, "OPENFAIL", r)
    BY <1>1, <2>1, PairedOpen
  <2> QED BY <2>2, <2>3, <2>4 DEF Setting
<1>9. ~h.paired => "SENT_CLOSE" \in b.closes
  BY <1>4, <1>5 DEF Meets, Setting
<1>10. s.u = h.u /\ h \in Contexts
  BY DEF Setting
<1> QED BY <1>0, <1>4, <1>6, <1>7, <1>8, <1>9, <1>10 DEF Body, b

\* What such a step leaves alone, and what it does to the end r.
LEMMA ClientRest ==
  ASSUME NEW s, NEW t, NEW i, NEW a, NEW r, NEW h, NEW z, Core(s), Queues(t), Links(s, i, a, r),
         Setting(s, i, r, h), Body(z, t.u, h), t.sv = s.sv,
         \A j \in Ids : j # i => t.ch[j] = s.ch[j] /\ Same(s.d, t.d, j), SameOpens(s.d, t.d)
  PROVE  /\ i \in Ids /\ r \in Ids /\ Elsewhere(s, t, i, r)
         /\ \A j \in Ids : j # i /\ r \in Ids /\ (Paired(s, j, r) \/ Paired(t, j, r)) =>
              t.sv[r] = s.sv[r] /\ Same(s.u, t.u, r)
         /\ \A q \in Ids : q # r /\ Joined(s, i, q) => Joined(t, i, q)
         /\ Paired(t, i, r) <=> Paired(s, i, r)
         /\ ThereInv(t, r)
<1>0. s \in Conns /\ Ord(s.u) /\ Ord(s.d)
  BY DEF Core, Queues
<1>1. i \in Ids /\ r \in Ids /\ a \in Ids \X Nat
  BY <1>0, LinksFields
<1>2. ThereInv(s, r) /\ s.sv[r] \in Ends
  BY <1>0, <1>1, ConnFields DEF Core
<1>3. Frame(t.u, h) /\ h.r = r /\ h.u = s.u
  BY DEF Body, Setting
<1>4. /\ \A id : id # r => Same(s.u, t.u, id)
      /\ SameOpens(s.u, t.u)
      /\ \A b : Carries(t.u, "CONFIRM", r, b) <=> Carries(s.u, "CONFIRM", r, b)
      /\ Has(t.u, "CONFIRM", r) <=> Has(s.u, "CONFIRM", r)
      /\ Has(t.u, "OPENFAIL", r) <=> Has(s.u, "OPENFAIL", r)
  BY <1>3 DEF Frame
<1>5. Elsewhere(s, t, i, r)
  BY <1>4 DEF Elsewhere, SameOpens
<1>6. \A j : Paired(t, j, r) <=> Paired(s, j, r)
  BY <1>4 DEF Paired
<1>7. (~h.paired \/ "RCVD_CLOSE" \in h.e.closes) => t.u = s.u
  BY <1>3 DEF Body
<1>8. ASSUME NEW j \in Ids, j # i, Paired(s, j, r)
      PROVE  Same(s.u, t.u, r)
  <2>1. ~Paired(s, i, r)
    BY <1>0, <1>8, PairedOnce
  <2>2. t.u = s.u
    BY <1>7, <2>1 DEF Setting
  <2> QED BY <2>2, SameSelf
<1>9. ASSUME NEW q \in Ids, q # r, Joined(s, i, q)
      PROVE  FALSE
  <2>1. Joined(s, i, r)
    BY DEF Joined
  <2> QED BY <1>0, <1>9, <2>1, JoinedOnce
<1>10. \A b : Carries(t.d, "OPEN", r, b) <=> Carries(s.d, "OPEN", r, b)
  BY DEF SameOpens
<1>11. ThereInv(t, r)
  <2>1. CASE ~h.paired \/ "RCVD_CLOSE" \in h.e.closes
    <3>1. t.u = s.u
      BY <1>7, <2>1
    <3> QED BY <1>2, <1>10, <3>1 DEF ThereInv
  <2>2. CASE h.paired /\ "RCVD_CLOSE" \notin h.e.closes
    <3>1. Paired(s, i, r) /\ h.e = EndView(s.sv[r], i)
      BY <2>2 DEF Setting
    <3>2. EndOK(EndView(s.sv[r], i), t.u, r) /\ ~Has(t.u, "OPENFAIL", r)
      BY <1>3, <2>2, <3>1 DEF Body
    <3>3. EndOK(s.sv[r], t.u, r)
      BY <1>1, <1>2, <3>2, EndOKView DEF ThereInv
    <3>4. CASE s.sv[r].st = "open"
      <4>1. EndView(s.sv[r], i) = s.sv[r]
        BY <1>1, <1>2, <3>4, EndViewFields
      <4>2. "RCVD_CLOSE" \notin s.sv[r].closes
        BY <2>2, <3>1, <4>1
      <4>3. ~Has(s.u, "CONFIRM", r)
        <5>1. Has(s.u, "CONFIRM", r) => About(s.u, r)
          BY Seen
        <5> QED BY <1>2, <3>4, <5>1 DEF ThereInv
      <4> QED BY <1>2, <1>4, <1>10, <3>2, <3>3, <3>4, <4>2, <4>3 DEF ThereInv
    <3>5. CASE s.sv[r].st # "open"
      <4>1. s.sv[r].st = "opening" /\ Carries(t.u, "CONFIRM", r, i)
        BY <1>4, <3>1, <3>5 DEF Paired
      <4>2. Has(t.u, "CONFIRM", r)
        BY <4>1, Seen
      <4> QED BY <1>2, <1>4, <1>10, <3>3, <4>1, <4>2 DEF ThereInv
    <3> QED BY <3>4, <3>5
  <2> QED BY <2>1, <2>2
<1> QED BY <1>1, <1>5, <1>6, <1>8, <1>9, <1>11

\* The channel stays.
LEMMA ClientKeeps ==
  ASSUME NEW s, NEW t, NEW i, NEW a, NEW r, NEW h, Core(s), Queues(t), Links(s, i, a, r),
         Setting(s, i, r, h), Body(t.ch[i], t.u, h), t.sv = s.sv, h.d = t.d, h.strict,
         \A j \in Ids : j # i => t.ch[j] = s.ch[j] /\ Same(s.d, t.d, j), SameOpens(s.d, t.d),
         ~Has(t.d, "CONFIRM", i), ~Has(t.d, "OPENFAIL", i),
         Has(s.d, "CLOSE", i) => Has(t.d, "CLOSE", i),
         \A n, b : Carries(t.d, n, i, b) => Carries(s.d, n, i, b)
  PROVE  Core(t)
<1> DEFINE c == t.ch[i]
<1>1. /\ i \in Ids /\ r \in Ids /\ Elsewhere(s, t, i, r)
      /\ \A j \in Ids : j # i /\ r \in Ids /\ (Paired(s, j, r) \/ Paired(t, j, r)) =>
           t.sv[r] = s.sv[r] /\ Same(s.u, t.u, r)
      /\ \A q \in Ids : q # r /\ Joined(s, i, q) => Joined(t, i, q)
      /\ Paired(t, i, r) <=> Paired(s, i, r)
      /\ ThereInv(t, r)
  BY ClientRest
<1>2. /\ HereInv(s, i) /\ MeetInv(s, i) /\ PeerInv(s, r) /\ s \in Conns /\ Alive(s, i) /\ a \in Ids \X Nat
      /\ s.ch[i].halfopen => Carries(s.d, "CONFIRM", i, a)
  BY <1>1 DEF Core, Queues, Links
<1>3. /\ c \in Chans /\ c.remoteid = r /\ ~c.halfopen /\ ChanOK(c) /\ SocketOK(c) /\ Expects(c, t.d, i)
      /\ c.kind # "none"
  BY DEF Body, Kept, Setting, ChanOK
<1>4. Frame(t.u, h) /\ h.r = r /\ h.u = s.u /\ h.e = EndView(s.sv[r], i) /\ h.i = i
  BY DEF Body, Setting
<1>5. Meets(s, i, a, r)
  BY <1>2 DEF MeetInv
<1>6. HereInv(t, i)
  <2>1. ~Has(t.u, "OPEN", i)
    <3>1. Has(t.u, "OPEN", i) <=> Has(s.u, "OPEN", i)
      BY <1>4 DEF Frame, SameOpens
    <3>2. s.ch[i].halfopen => About(s.d, i)
      BY <1>2, Seen
    <3> QED BY <1>2, <3>1, <3>2 DEF HereInv
  <2>2. Alive(t, i)
    BY <1>3 DEF Alive
  <2>3. \A b : Carries(t.d, "REQ", i, b) => b # "window-change"
    BY <1>2 DEF HereInv
  <2>4. \A b : ~Carries(t.d, "CONFIRM", i, b)
    BY Seen
  <2> QED BY <1>3, <2>1, <2>2, <2>3, <2>4 DEF HereInv
<1>7. MeetInv(t, i)
  <2> SUFFICES ASSUME NEW b, NEW q, Links(t, i, b, q)
               PROVE  Meets(t, i, b, q)
    BY DEF MeetInv
  <2>1. View(c, b) = c /\ q = r
    BY <1>3 DEF Links, View
  <2>2. ASSUME Paired(t, i, r)
        PROVE  Conv(i, r, c, t.u, EndView(t.sv[r], i), t.d)
    BY <1>1, <1>4, <2>2 DEF Body, Setting
  <2>3. ASSUME ~Paired(t, i, r)
        PROVE  "SENT_CLOSE" \in c.closes /\ Has(t.d, "CLOSE", i)
    BY <1>1, <1>5, <2>3 DEF Body, Setting, Meets
  <2> QED BY <2>1, <2>2, <2>3 DEF Meets
<1>8. PeerInv(t, r)
  <2>1. Joined(t, i, r)
    <3>1. View(c, a) = c
      BY <1>3 DEF View
    <3>2. Links(t, i, a, r)
      BY <1>1, <1>2, <1>3, <3>1 DEF Links, Alive
    <3> QED BY <3>2 DEF Joined
  <2>2. \A j : Joined(s, j, r) => Joined(t, j, r)
    BY <1>1, <2>1, ElsewhereLinks
  <2>3. Has(s.u, "CLOSE", r) => Has(t.u, "CLOSE", r)
    BY <1>4 DEF Frame
  <2>4. Has(s.u, "OPENFAIL", r) => Has(t.u, "OPENFAIL", r)
    BY <1>4 DEF Frame
  <2>5. \A b : Carries(t.u, "CONFIRM", r, b) <=> Carries(s.u, "CONFIRM", r, b)
    BY <1>4 DEF Frame
  <2>6. Has(t.d, "OPEN", r) <=> Has(s.d, "OPEN", r)
    BY DEF SameOpens
  <2>7. s.sv[r].st = "opening" /\ ~About(s.u, r) => ~About(t.u, r)
    <3> SUFFICES ASSUME s.sv[r].st = "opening", ~About(s.u, r) PROVE ~About(t.u, r)
      OBVIOUS
    <3>1. ~Carries(s.u, "CONFIRM", r, i)
      BY Seen
    <3>2. ~Paired(s, i, r)
      BY <3>1 DEF Paired
    <3>3. t.u = s.u
      BY <1>4, <3>2 DEF Body, Setting
    <3> QED BY <3>3
  <2> QED BY <1>2, <2>2, <2>3, <2>4, <2>5, <2>6, <2>7 DEF PeerInv
<1> QED BY <1>1, <1>6, <1>7, <1>8, CoreStep

\* The channel goes: the server's CLOSE has come and ours is sent.
LEMMA ClientDrops ==
  ASSUME NEW s, NEW t, NEW i, NEW a, NEW r, NEW h, NEW z, Core(s), Queues(t), Links(s, i, a, r),
         Setting(s, i, r, h), Body(z, t.u, h), t.sv = s.sv, h.d = s.d,
         \A j \in Ids : j # i => t.ch[j] = s.ch[j] /\ Same(s.d, t.d, j), SameOpens(s.d, t.d),
         t.ch[i] = NoChannel, "SENT_CLOSE" \in z.closes, Has(s.d, "CLOSE", i), ~s.ch[i].halfopen,
         ~About(t.d, i)
  PROVE  Core(t)
<1>1. /\ i \in Ids /\ r \in Ids /\ Elsewhere(s, t, i, r)
      /\ \A j \in Ids : j # i /\ r \in Ids /\ (Paired(s, j, r) \/ Paired(t, j, r)) =>
           t.sv[r] = s.sv[r] /\ Same(s.u, t.u, r)
      /\ \A q \in Ids : q # r /\ Joined(s, i, q) => Joined(t, i, q)
      /\ Paired(t, i, r) <=> Paired(s, i, r)
      /\ ThereInv(t, r)
  BY ClientRest
<1>2. /\ HereInv(s, i) /\ PeerInv(s, r) /\ ThereInv(s, r) /\ s \in Conns /\ s.sv[r] \in Ends
      /\ MeetInv(s, i)
  BY <1>1, ConnFields DEF Core, Queues
<1>3. t.ch[i].kind = "none" /\ ~Alive(t, i)
  BY DEF Alive, NoChannel, NewChannel
<1>4. Frame(t.u, h) /\ h.r = r /\ h.u = s.u /\ h.e = EndView(s.sv[r], i) /\ h.i = i
  BY DEF Body, Setting
<1>5. HereInv(t, i)
  <2>1. ~Has(t.u, "OPEN", i)
    <3>1. Has(t.u, "OPEN", i) <=> Has(s.u, "OPEN", i)
      BY <1>4 DEF Frame, SameOpens
    <3> QED BY <1>2, <3>1 DEF HereInv
  <2>2. \A b : ~Carries(t.d, "CONFIRM", i, b) /\ ~Carries(t.d, "REQ", i, b)
    <3>1. ~Has(t.d, "CONFIRM", i) /\ ~Has(t.d, "REQ", i)
      BY Seen
    <3> QED BY <3>1, Seen
  <2> QED BY <1>3, <2>1, <2>2 DEF HereInv
<1>6. MeetInv(t, i)
  BY <1>3 DEF MeetInv, Links
<1>7. Paired(s, i, r) =>
        s.sv[r].st = "open" /\ "SENT_CLOSE" \in s.sv[r].closes /\ Has(t.u, "CLOSE", r)
  <2> SUFFICES ASSUME Paired(s, i, r)
               PROVE  s.sv[r].st = "open" /\ "SENT_CLOSE" \in s.sv[r].closes /\ Has(t.u, "CLOSE", r)
    OBVIOUS
  <2>1. Conv(i, r, z, t.u, EndView(s.sv[r], i), s.d)
    BY <1>4 DEF Body, Setting
  <2>2. /\ "SENT_CLOSE" \in EndView(s.sv[r], i).closes
        /\ Has(t.u, "CLOSE", r) \/ "RCVD_CLOSE" \in EndView(s.sv[r], i).closes
    BY <2>1 DEF Conv, Closings
  <2>3. s.sv[r].st # "opening"
    BY <1>1, <1>2, <2>2, EndViewFields
  <2>4. EndView(s.sv[r], i) = s.sv[r]
    BY <1>1, <1>2, <2>3, EndViewFields
  <2>5. ~("SENT_CLOSE" \in s.sv[r].closes /\ "RCVD_CLOSE" \in s.sv[r].closes)
    BY <1>2 DEF ThereInv
  <2> QED BY <2>2, <2>3, <2>4, <2>5 DEF Paired
<1>8. PeerInv(t, r)
  <2>2. \A j : j # i => (Joined(s, j, r) => Joined(t, j, r))
    BY <1>1, ElsewhereLinks
  <2>3. Has(s.u, "CLOSE", r) => Has(t.u, "CLOSE", r)
    BY <1>4 DEF Frame
  <2>4. Has(s.u, "OPENFAIL", r) => Has(t.u, "OPENFAIL", r)
    BY <1>4 DEF Frame
  <2>5. \A b : Carries(t.u, "CONFIRM", r, b) <=> Carries(s.u, "CONFIRM", r, b)
    BY <1>4 DEF Frame
  <2>6. Has(t.d, "OPEN", r) <=> Has(s.d, "OPEN", r)
    BY DEF SameOpens
  <2>7. CASE s.sv[r].st = "open"
    <3>1. CASE s.sv[r].peer = i
      <4>1. Paired(s, i, r)
        BY <2>7, <3>1 DEF Paired
      <4> QED BY <1>7, <2>7, <4>1 DEF PeerInv
    <3>2. CASE s.sv[r].peer # i
      BY <1>2, <2>2, <2>3, <2>7, <3>2 DEF PeerInv
    <3> QED BY <3>1, <3>2
  <2>8. CASE s.sv[r].st = "opening"
    <3>1. ~Paired(s, i, r)
      BY <1>7, <2>8
    <3>2. t.u = s.u
      BY <1>4, <3>1 DEF Body, Setting
    <3>3. ~Carries(s.u, "CONFIRM", r, i)
      BY <2>8, <3>1 DEF Paired
    <3> QED BY <1>2, <2>2, <2>6, <2>8, <3>2, <3>3 DEF PeerInv
  <2>9. CASE s.sv[r].st # "open" /\ s.sv[r].st # "opening"
    BY <2>9 DEF PeerInv
  <2> QED BY <2>7, <2>8, <2>9
<1> QED BY <1>1, <1>5, <1>6, <1>8, CoreStep

\* t is a connection as far as its shape goes.
Shaped(t) == t = [ch |-> t.ch, sv |-> t.sv, u |-> t.u, d |-> t.d]

\* A connection is made of its parts.
LEMMA ShapedConn ==
  ASSUME NEW t, Shaped(t), t.ch \in [Ids -> Chans], t.sv \in [Ids -> Ends],
         t.u \in Seq(Packets), t.d \in Seq(Packets)
  PROVE  t \in Conns
<1> DEFINE A == t.ch
           B == t.sv
           C == t.u
           D == t.d
<1>1. A \in [Ids -> Chans] /\ B \in [Ids -> Ends] /\ C \in Seq(Packets) /\ D \in Seq(Packets)
  OBVIOUS
<1>2. t = [ch |-> A, sv |-> B, u |-> C, d |-> D]
  BY DEF Shaped
<1> HIDE DEF A, B, C, D
<1> QED BY ONLY <1>1, <1>2 DEF Conns

\* There is a context for every channel and end.
LEMMA SettingExists ==
  ASSUME NEW s \in Conns, NEW i \in Ids, NEW r \in Ids, NEW d \in Seq(Packets), NEW strict \in BOOLEAN
  PROVE  \E h : Setting(s, i, r, h) /\ h.d = d /\ h.strict = strict
<1>1. PICK x \in BOOLEAN : x <=> Paired(s, i, r)
  OBVIOUS
<1>2. EndView(s.sv[r], i) \in Ends /\ s.u \in Seq(Packets)
  BY ConnFields, EndViewFields
<1> DEFINE e == EndView(s.sv[r], i)
           u == s.u
           h == [i |-> i, r |-> r, e |-> e, d |-> d, u |-> u, paired |-> x, strict |-> strict]
<1>3. e \in Ends /\ u \in Seq(Packets)
  BY <1>2
<1> HIDE DEF e, u
<1>4. h \in Contexts /\ h.i = i /\ h.r = r /\ h.e = e /\ h.u = u /\ h.paired = x /\ h.d = d /\ h.strict = strict
  BY <1>3 DEF Contexts
<1> HIDE DEF h
<1>5. Setting(s, i, r, h)
  BY <1>1, <1>4 DEF Setting, e, u
<1> QED BY <1>4, <1>5

\* A channel that is open, and its other end.
LEMMA OpenContext ==
  ASSUME NEW s, Core(s), NEW i \in Ids, Alive(s, i), ~s.ch[i].halfopen, NEW strict \in BOOLEAN
  PROVE  \E a, r, h : /\ Links(s, i, a, r) /\ Setting(s, i, r, h) /\ h.d = s.d /\ h.strict = strict
                      /\ Body(s.ch[i], h.u, h)
<1> DEFINE c == s.ch[i]
           a == <<0, 0>>
           r == c.remoteid
<1>1. s \in Conns /\ c \in Chans /\ s.d \in Seq(Packets)
  BY ConnFields DEF Core, Queues
<1>2. a \in Ids \X Nat
  BY ChannelAssumption DEF Ids
<1>3. View(c, a) = c /\ r \in Ids
  BY <1>1, ChanFields DEF View
<1> HIDE DEF a
<1>4. Links(s, i, a, r)
  BY <1>2, <1>3 DEF Links
<1>5. PICK h : Setting(s, i, r, h) /\ h.d = s.d /\ h.strict = strict
  BY <1>1, <1>3, SettingExists
<1>6. Body(View(c, a), s.u, h)
  BY <1>4, <1>5, StartBody
<1>7. Body(c, h.u, h)
  BY <1>3, <1>5, <1>6 DEF Setting
<1> QED BY <1>4, <1>5, <1>7

\* A packet is taken from the queue to us.
LEMMA TakePacket ==
  ASSUME NEW s, Core(s), s.d # <<>>, NEW m, m = Head(s.d)
  PROVE  /\ m \in Packets /\ m.id \in Ids /\ Tail(s.d) \in Seq(Packets) /\ Plus(s.d, Tail(s.d), m)
         /\ Ord(Tail(s.d))
         /\ \A j : j # m.id => Same(s.d, Tail(s.d), j)
         /\ m.type # "OPEN" =>
              /\ SameOpens(s.d, Tail(s.d)) /\ Alive(s, m.id)
              /\ s.ch[m.id].halfopen <=> m.type \in {"CONFIRM", "OPENFAIL"}
              /\ ~Has(Tail(s.d), "CONFIRM", m.id) /\ ~Has(Tail(s.d), "OPENFAIL", m.id)
         /\ m.type \in {"CLOSE", "OPENFAIL"} => ~About(Tail(s.d), m.id)
         /\ Has(s.d, m.type, m.id) /\ Carries(s.d, m.type, m.id, m.arg)
         /\ \A n, b : Carries(Tail(s.d), n, m.id, b) => Carries(s.d, n, m.id, b)
         /\ m.type # "CLOSE" => (Has(s.d, "CLOSE", m.id) => Has(Tail(s.d), "CLOSE", m.id))
<1> DEFINE q == s.d
           v == Tail(q)
<1>1. q \in Seq(Packets) /\ Ord(q) /\ q # <<>>
  BY ConnFields DEF Core, Queues
<1>2. m \in Packets /\ v \in Seq(Packets) /\ Plus(q, v, m)
  BY <1>1, TailPlus
<1>3. m.id \in Ids
  BY <1>2, PacketFields
<1>4. /\ Ord(v)
      /\ m.type # "OPEN" => ~Has(v, "CONFIRM", m.id) /\ ~Has(v, "OPENFAIL", m.id)
      /\ m.type \in {"CLOSE", "OPENFAIL"} => ~About(v, m.id)
  BY <1>1, HeadOrd
<1> HIDE DEF v
<1>5. ASSUME NEW j, j # m.id
      PROVE  Same(q, v, j)
  <2>1. Dat(v, j) \in Nat /\ Adj(v, j) \in Nat /\ Rsp(v, j) \in Nat /\ Rqs(v, j) \in Nat
    BY <1>2, Sums
  <2>2. /\ Dat(q, j) = Dat(v, j) + 0 /\ Adj(q, j) = Adj(v, j) + 0
        /\ Rsp(q, j) = Rsp(v, j) + 0 /\ Rqs(q, j) = Rqs(v, j) + 0
        /\ About(q, j) <=> About(v, j)
        /\ \A t : Has(q, t, j) <=> Has(v, t, j)
        /\ \A t, a : Carries(q, t, j, a) <=> Carries(v, t, j, a)
    BY ONLY <1>2, <1>5 DEF Plus
  <2> QED BY <2>1, <2>2 DEF Same
<1>6. ASSUME m.type # "OPEN"
      PROVE  SameOpens(q, v)
  <2>1. Opn(v) \in Nat
    BY <1>2, Sums
  <2>2. /\ Opn(q) = Opn(v) + 0
        /\ \A id : Has(q, "OPEN", id) <=> Has(v, "OPEN", id)
        /\ \A id, a : Carries(q, "OPEN", id, a) <=> Carries(v, "OPEN", id, a)
    BY ONLY <1>2, <1>6 DEF Plus
  <2> QED BY <2>1, <2>2 DEF SameOpens
<1>7. Has(q, m.type, m.id) /\ Carries(q, m.type, m.id, m.arg)
  BY <1>2 DEF Plus
<1>8. \A n, b : Carries(v, n, m.id, b) => Carries(q, n, m.id, b)
  BY <1>2 DEF Plus
<1>9. m.type # "CLOSE" => (Has(q, "CLOSE", m.id) => Has(v, "CLOSE", m.id))
  BY <1>2 DEF Plus
<1>10. ASSUME m.type # "OPEN"
       PROVE  Alive(s, m.id) /\ (s.ch[m.id].halfopen <=> m.type \in {"CONFIRM", "OPENFAIL"})
  <2>1. About(q, m.id)
    BY <1>7, <1>10, Seen
  <2>2. HereInv(s, m.id)
    BY <1>3 DEF Core
  <2>3. Alive(s, m.id) /\ (s.ch[m.id].halfopen <=> Has(s.d, "CONFIRM", m.id) \/ Has(s.d, "OPENFAIL", m.id))
    BY <2>1, <2>2 DEF HereInv
  <2>4. Has(q, "CONFIRM", m.id) => m.type = "CONFIRM"
    BY <1>2, <1>4, <1>10 DEF Plus
  <2>5. Has(q, "OPENFAIL", m.id) => m.type = "OPENFAIL"
    BY <1>2, <1>4, <1>10 DEF Plus
  <2> QED BY <1>7, <2>3, <2>4, <2>5
<1> QED BY <1>2, <1>3, <1>4, <1>5, <1>6, <1>7, <1>8, <1>9, <1>10 DEF v

\* There is a context for the handler of the packet that is taken.
LEMMA TakenContext ==
  ASSUME NEW s, Core(s), s.d # <<>>, NEW m, m = Head(s.d), m.type # "OPEN", NEW r,
         NEW k, Setting(s, m.id, r, k), k.d = s.d
  PROVE  \E h : Taken(m, k, h) /\ Setting(s, m.id, r, h) /\ h.d = Tail(s.d) /\ h.strict = k.strict
<1> DEFINE v == Tail(s.d)
           h == [k EXCEPT !.d = v]
<1>1. m \in Packets /\ v \in Seq(Packets) /\ Plus(s.d, v, m)
  BY TakePacket
<1> HIDE DEF v
<1>2. k \in Contexts
  BY DEF Setting
<1>3. /\ h \in Contexts /\ h.i = k.i /\ h.r = k.r /\ h.e = k.e /\ h.u = k.u
      /\ h.paired = k.paired /\ h.strict = k.strict /\ h.d = v
  BY <1>1, <1>2 DEF Contexts
<1> HIDE DEF h
<1>4. Setting(s, m.id, r, h)
  BY <1>3 DEF Setting
<1>5. Taken(m, k, h)
  BY <1>1, <1>3 DEF Taken, Setting
<1> QED BY <1>3, <1>4, <1>5 DEF v

\* The client changes channel i to c and sends out; the packets to us are then d.
Handles(s, t, i, c, out, d) ==
  Shaped(t) /\ t.ch = [s.ch EXCEPT ![i] = c] /\ t.sv = s.sv /\ t.u = s.u \o out /\ t.d = d

\* The queues after a handler of the client's.
LEMMA HandlesQueues ==
  ASSUME NEW s, Core(s), NEW i \in Ids, NEW t, NEW c \in Chans, NEW out, NEW d \in Seq(Packets), Ord(d),
         Handles(s, t, i, c, out, d), t.u \in Seq(Packets), Ord(t.u), EofLast(t.u)
  PROVE  Queues(t) /\ t.sv = s.sv /\ t.d = d /\ t.ch[i] = c /\ \A j \in Ids : j # i => t.ch[j] = s.ch[j]
<1>1. s.ch \in [Ids -> Chans] /\ s.sv \in [Ids -> Ends]
  BY DEF Core, Queues, Conns
<1>2. Shaped(t) /\ t.ch = [s.ch EXCEPT ![i] = c] /\ t.sv = s.sv /\ t.d = d
  BY DEF Handles
<1>3. t.ch \in [Ids -> Chans] /\ t.ch[i] = c /\ \A j \in Ids : j # i => t.ch[j] = s.ch[j]
  BY <1>1, <1>2
<1>4. t \in Conns
  BY <1>1, <1>2, <1>3, ShapedConn
<1> QED BY <1>2, <1>3, <1>4 DEF Queues

\* A handler that leaves its channel in order keeps Core.
LEMMA HandledCore ==
  ASSUME NEW s, Core(s), NEW i, NEW a, NEW r, Links(s, i, a, r), NEW h, Setting(s, i, r, h), h.strict,
         NEW p, Work(p, h), NEW t, Handles(s, t, i, p.c, p.out, h.d), Ord(h.d),
         \A j : j # i => Same(s.d, h.d, j), SameOpens(s.d, h.d),
         ~Has(h.d, "CONFIRM", i), ~Has(h.d, "OPENFAIL", i),
         Has(s.d, "CLOSE", i) => Has(h.d, "CLOSE", i),
         \A n, b : Carries(h.d, n, i, b) => Carries(s.d, n, i, b)
  PROVE  Core(t)
<1>1. i \in Ids
  BY DEF Links
<1>2. p.c \in Chans /\ h.d \in Seq(Packets) /\ h.u = s.u
  BY WorkFields, ContextFields DEF Setting
<1>3. t.u = Up(p, h)
  BY <1>2 DEF Handles, Up
<1>4. Body(p.c, t.u, h)
  BY <1>3, WorkFields
<1>5. t.u \in Seq(Packets) /\ Ord(t.u) /\ EofLast(t.u)
  BY <1>4 DEF Body
<1>6. Queues(t) /\ t.sv = s.sv /\ t.d = h.d /\ t.ch[i] = p.c /\ \A j \in Ids : j # i => t.ch[j] = s.ch[j]
  BY <1>1, <1>2, <1>5, HandlesQueues
<1>7. Body(t.ch[i], t.u, h)
  BY <1>4, <1>6
<1> QED BY <1>6, <1>7, ClientKeeps

\* What handler p leaves of its channel, and that it keeps Core.
Result(p) == IF p.gone THEN NoChannel ELSE p.c
Good(s, i, p, d) ==
  /\ p.err = "none"
  /\ \A t : Handles(s, t, i, Result(p), p.out, d) => Core(t) /\ SameOpens(s.u, t.u)

\* So does one that the user or the local socket calls,
LEMMA LocalGood ==
  ASSUME NEW s, Core(s), NEW i, NEW a, NEW r, Links(s, i, a, r), ~s.ch[i].halfopen,
         NEW h, Setting(s, i, r, h), h.strict, h.d = s.d, NEW p, Work(p, h)
  PROVE  Good(s, i, p, s.d)
<1>1. i \in Ids /\ ~p.gone /\ p.err = "none" /\ h.u = s.u
  BY WorkFields DEF Links, Setting
<1>2. HereInv(s, i) /\ Ord(s.d)
  BY <1>1 DEF Core, Queues
<1>3. ~Has(s.d, "CONFIRM", i) /\ ~Has(s.d, "OPENFAIL", i)
  BY <1>2, Seen DEF HereInv
<1>4. Result(p) = p.c
  BY <1>1 DEF Result
<1>5. ASSUME NEW t, Handles(s, t, i, p.c, p.out, s.d)
      PROVE  Core(t) /\ SameOpens(s.u, t.u)
  <2>1. Handles(s, t, i, p.c, p.out, h.d)
    BY <1>5
  <2>2. /\ \A j : j # i => Same(s.d, h.d, j)
        /\ SameOpens(s.d, h.d)
    BY SameSelf
  <2>3. Core(t)
    BY <1>2, <1>3, <2>1, <2>2, HandledCore
  <2>4. t.u = Up(p, h)
    BY <1>1, <1>5 DEF Handles, Up
  <2>5. SameOpens(h.u, Up(p, h))
    BY WorkFields DEF Body, Frame
  <2> QED BY <1>1, <2>3, <2>4, <2>5
<1> QED BY <1>1, <1>4, <1>5 DEF Good

\* and one that a packet calls, CLOSE apart.
LEMMA TakenGood ==
  ASSUME NEW s, Core(s), s.d # <<>>, NEW m, m = Head(s.d), m.type \notin {"OPEN", "CLOSE"},
         NEW a, NEW r, Links(s, m.id, a, r),
         NEW h, Setting(s, m.id, r, h), h.strict, h.d = Tail(s.d), NEW p, Work(p, h)
  PROVE  Good(s, m.id, p, Tail(s.d))
<1> DEFINE i == m.id
           v == Tail(s.d)
<1>1. ~p.gone /\ p.err = "none" /\ h.u = s.u
  BY WorkFields DEF Setting
<1>2. /\ Ord(v) /\ (\A j : j # i => Same(s.d, v, j)) /\ SameOpens(s.d, v)
      /\ ~Has(v, "CONFIRM", i) /\ ~Has(v, "OPENFAIL", i)
      /\ Has(s.d, "CLOSE", i) => Has(v, "CLOSE", i)
      /\ \A n, b : Carries(v, n, i, b) => Carries(s.d, n, i, b)
  BY TakePacket
<1>3. h.d = v /\ Setting(s, i, r, h) /\ Links(s, i, a, r)
  OBVIOUS
<1>4. Result(p) = p.c
  BY <1>1 DEF Result
<1> HIDE DEF i, v
<1>5. ASSUME NEW t, Handles(s, t, i, p.c, p.out, v)
      PROVE  Core(t) /\ SameOpens(s.u, t.u)
  <2>1. Handles(s, t, i, p.c, p.out, h.d)
    BY <1>3, <1>5
  <2>3. Core(t)
    BY <1>2, <1>3, <2>1, HandledCore
  <2>4. t.u = Up(p, h)
    BY <1>1, <1>5 DEF Handles, Up
  <2>5. SameOpens(h.u, Up(p, h))
    BY WorkFields DEF Body, Frame
  <2> QED BY <1>1, <2>3, <2>4, <2>5
<1> QED BY <1>1, <1>4, <1>5 DEF Good, i, v

\* Packets of an open channel, but for CLOSE.
LEMMA OpenPacketGood ==
  ASSUME NEW s, Core(s), s.d # <<>>, NEW m, m = Head(s.d),
         m.type \in {"DATA", "ADJUST", "REQ", "RESP", "EOF"}, NEW alt \in BOOLEAN
  PROVE  LET p == P(s.ch[m.id]) IN
         /\ m.type = "DATA" => Good(s, m.id, GotData(p, m.arg, alt), Tail(s.d))
         /\ m.type = "ADJUST" => Good(s, m.id, GotAdjust(p, m.arg), Tail(s.d))
         /\ m.type = "REQ" => Good(s, m.id, GotRequest(p), Tail(s.d))
         /\ m.type = "RESP" => Good(s, m.id, GotResponse(p, m.arg, alt), Tail(s.d))
         /\ m.type = "EOF" => Good(s, m.id, GotEof(p), Tail(s.d))
<1> DEFINE i == m.id
           c == s.ch[i]
<1>1. m.type \notin {"OPEN", "CLOSE", "CONFIRM", "OPENFAIL"}
  OBVIOUS
<1>2. i \in Ids /\ Alive(s, i) /\ ~c.halfopen /\ Carries(s.d, m.type, i, m.arg)
  BY <1>1, TakePacket
<1>3. PICK a, r, k : Links(s, i, a, r) /\ Setting(s, i, r, k) /\ k.d = s.d /\ k.strict = TRUE /\ Body(c, k.u, k)
  BY <1>2, OpenContext
<1>4. PICK h : Taken(m, k, h) /\ Setting(s, i, r, h) /\ h.d = Tail(s.d) /\ h.strict = k.strict
  BY <1>1, <1>3, TakenContext
<1>5. \A p : Work(p, h) => Good(s, i, p, Tail(s.d))
  BY <1>1, <1>3, <1>4, TakenGood
<1>6. m.type = "REQ" => m.arg # "window-change"
  <2>1. HereInv(s, i)
    BY <1>2 DEF Core
  <2> QED BY <1>2, <2>1 DEF HereInv
<1> HIDE DEF i, c
<1>7. m.type = "DATA" => Work(GotData(P(c), m.arg, alt), h)
  BY <1>3, <1>4, GotDataWork
<1>8. m.type = "ADJUST" => Work(GotAdjust(P(c), m.arg), h)
  BY <1>3, <1>4, GotAdjustWork
<1>9. m.type = "REQ" => Work(GotRequest(P(c)), h)
  BY <1>3, <1>4, <1>6, GotRequestWork
<1>10. m.type = "RESP" => Work(GotResponse(P(c), m.arg, alt), h)
  BY <1>3, <1>4, GotResponseWork
<1>11. m.type = "EOF" => Work(GotEof(P(c)), h)
  BY <1>3, <1>4, GotEofWork
<1> QED BY <1>5, <1>7, <1>8, <1>9, <1>10, <1>11 DEF i, c

\* CLOSE: the handler answers with its own CLOSE, unless that was sent, and the channel
\* is gone; the end has then CLOSE coming to it, or is gone too.
LEMMA ClosePacketGood ==
  ASSUME NEW s, Core(s), s.d # <<>>, NEW m, m = Head(s.d), m.type = "CLOSE", NEW alt \in BOOLEAN
  PROVE  Good(s, m.id, GotClose(P(s.ch[m.id]), alt), Tail(s.d))
<1> DEFINE i == m.id
           c == s.ch[i]
           v == Tail(s.d)
           g == GotClose(P(c), alt)
<1>1. m.type \notin {"OPEN", "CONFIRM", "OPENFAIL"}
  OBVIOUS
<1>2. /\ i \in Ids /\ Alive(s, i) /\ ~c.halfopen /\ Has(s.d, "CLOSE", i)
      /\ v \in Seq(Packets) /\ Ord(v) /\ (\A j : j # i => Same(s.d, v, j)) /\ SameOpens(s.d, v)
      /\ ~About(v, i) /\ Plus(s.d, v, m)
  BY <1>1, TakePacket
<1>3. PICK a, r, k : Links(s, i, a, r) /\ Setting(s, i, r, k) /\ k.d = s.d /\ k.strict = FALSE /\ Body(c, k.u, k)
  BY <1>2, OpenContext
<1>4. Rsp(s.d, i) = 0
  <2>1. ~Has(v, "RESP", i)
    BY <1>2, Seen
  <2>2. Rsp(v, i) = 0
    BY <1>2, <2>1, Sums
  <2>3. Rsp(s.d, i) = Rsp(v, i) + 0
    BY <1>1, <1>2 DEF Plus
  <2> QED BY <2>2, <2>3
<1>5. k.i = i /\ k.u = s.u
  BY <1>3 DEF Setting
<1> HIDE DEF i, c, v
<1>6. /\ g.gone /\ g.err = "none"
      /\ \E z : Work(z, k) /\ "SENT_CLOSE" \in z.c.closes /\ g.out = z.out
  BY <1>2, <1>3, <1>4, <1>5, GotCloseWork
<1> HIDE DEF g
<1>7. PICK z : Work(z, k) /\ "SENT_CLOSE" \in z.c.closes /\ g.out = z.out
  BY <1>6
<1>8. Result(g) = NoChannel
  BY <1>6 DEF Result
<1>9. ASSUME NEW t, Handles(s, t, i, NoChannel, g.out, v)
      PROVE  Core(t) /\ SameOpens(s.u, t.u)
  <2>1. t.u = Up(z, k)
    BY <1>5, <1>7, <1>9 DEF Handles, Up
  <2>2. Body(z.c, t.u, k)
    BY <1>7, <2>1, WorkFields
  <2>3. t.u \in Seq(Packets) /\ Ord(t.u) /\ EofLast(t.u) /\ SameOpens(k.u, t.u)
    BY <2>2 DEF Body, Frame
  <2>4. NoChannel \in Chans
    <3>1. 0 \in Ids
      BY ChannelAssumption DEF Ids
    <3> QED BY <3>1, NewChannelFields DEF NoChannel
  <2>5. Queues(t) /\ t.sv = s.sv /\ t.d = v /\ t.ch[i] = NoChannel /\ \A j \in Ids : j # i => t.ch[j] = s.ch[j]
    BY <1>2, <1>9, <2>3, <2>4, HandlesQueues
  <2>6. Core(t)
    BY <1>2, <1>3, <1>7, <2>2, <2>5, ClientDrops DEF c
  <2> QED BY <1>5, <2>3, <2>6
<1> QED BY <1>6, <1>8, <1>9 DEF Good, i, c, v, g

\* The confirmation of the main channel.
LEMMA ConfirmPacketGood ==
  ASSUME NEW s, Core(s), s.d # <<>>, NEW m, m = Head(s.d), m.type = "CONFIRM", NEW alt \in BOOLEAN
  PROVE  Good(s, m.id, GotConfirmation(P(s.ch[m.id]), m.arg[1], m.arg[2], alt), Tail(s.d))
<1> DEFINE i == m.id
           c == s.ch[i]
           v == Tail(s.d)
           a == m.arg
           r == a[1]
           b == View(c, a)
<1>1. m.type \notin {"OPEN", "CLOSE"}
  OBVIOUS
<1>2. /\ i \in Ids /\ Alive(s, i) /\ c.halfopen /\ Carries(s.d, "CONFIRM", i, a) /\ m \in Packets
      /\ v \in Seq(Packets) /\ Plus(s.d, v, m)
  BY <1>1, TakePacket
<1>3. /\ HereInv(s, i) /\ s \in Conns /\ c \in Chans /\ s.d \in Seq(Packets)
  BY <1>2, ConnFields DEF Core, Queues
<1>4. a \in Ids \X Nat /\ c = NewChannel("main", 0, TRUE, 0)
  BY <1>2, <1>3 DEF HereInv
<1>12. m.id = i
  OBVIOUS
<1> DEFINE x == a[2]
<1>11. b = [c EXCEPT !.remoteid = r, !.halfopen = FALSE, !.remwindow = x]
  BY <1>2 DEF View
<1>4a. a \in Ids \X Nat /\ r \in Ids
  BY <1>4
<1> HIDE DEF i, c, v, a, x
<1>5. /\ b \in Chans /\ ~b.halfopen /\ b.closes = c.closes /\ b.kind = c.kind /\ b.remoteid = r
      /\ b.pending_eof = c.pending_eof /\ r \in Ids
  BY <1>2, <1>3, <1>4a, ViewFields
<1>6. c.kind = "main" /\ c.closes = {} /\ ~c.pending_eof
  <2>1. 0 \in Ids
    BY ChannelAssumption DEF Ids
  <2> DEFINE n == NewChannel("main", 0, TRUE, 0)
  <2>2. n.kind = "main" /\ n.closes = {} /\ ~n.pending_eof
    BY <2>1 DEF NewChannel
  <2> HIDE DEF n
  <2>3. c = n
    BY <1>4 DEF n
  <2> QED BY <2>2, <2>3
<1>7. Links(s, i, a, r)
  BY <1>2, <1>4a, <1>5 DEF Links, c
<1> HIDE DEF r, b
<1>8. PICK k : Setting(s, i, r, k) /\ k.d = s.d /\ k.strict = TRUE
  BY <1>2, <1>3, <1>5, SettingExists
<1>9. Body(b, s.u, k)
  BY <1>7, <1>8, StartBody DEF b, c
<1>10. PICK h : Taken(m, k, h) /\ Setting(s, i, r, h) /\ h.d = v /\ h.strict = k.strict
  BY <1>1, <1>8, TakenContext DEF v, i
<1>13. Kept(b, h)
  <2>1. Kept(b, k) /\ k \in Contexts
    BY <1>9 DEF Body
  <2>2. Expects(b, k.d, k.i)
    BY <2>1 DEF Kept
  <2>3. h.i = k.i /\ h.r = k.r /\ h.strict = k.strict /\ Expects(b, h.d, h.i)
    BY <1>1, <1>5, <1>10, <2>1, <2>2, TakenExpects
  <2> QED BY <2>1, <2>3 DEF Kept
<1>14. Conv(i, r, b, s.u, k.e, s.d) => Conv(i, r, b, s.u, k.e, v)
  <2>1. /\ k.e \in Ends /\ s.u \in Seq(Packets) /\ Waits(b) \in Nat
        /\ b.locwindow \in Nat /\ b.remwindow \in Nat
    BY <1>3, <1>5, <1>8, ContextFields, ConnFields, ChanFields DEF Setting
  <2>2. /\ b.locwindow = b.locwindow - 0 /\ b.remwindow = b.remwindow + 0 /\ Waits(b) = Waits(b) - 0
    BY <2>1
  <2>3. m.type \in {"DATA", "ADJUST", "RESP", "EOF", "CONFIRM"} /\ m.type # "DATA" /\ m.type # "ADJUST" /\ m.type # "RESP"
    OBVIOUS
  <2>4. /\ b.locwindow = b.locwindow - (IF m.type = "DATA" THEN m.arg ELSE 0)
        /\ b.remwindow = b.remwindow + (IF m.type = "ADJUST" THEN m.arg ELSE 0)
        /\ Waits(b) = Waits(b) - (IF m.type = "RESP" THEN 1 ELSE 0)
    BY ONLY <2>2, <2>3
  <2> QED BY ONLY <1>2, <1>3, <1>5, <1>12, <2>1, <2>3, <2>4, ConvTake
<1>15. Body(b, h.u, h)
  <2>1. /\ h \in Contexts /\ h.i = k.i /\ h.r = k.r /\ h.e = k.e /\ h.u = k.u /\ h.paired = k.paired
        /\ k.u = s.u /\ k.i = i /\ k.r = r
    BY <1>8, <1>10 DEF Taken, Setting
  <2>2. Frame(s.u, h)
    BY <1>9, <2>1 DEF Body, Frame
  <2>3. s.u \in Seq(Packets) /\ Ord(s.u) /\ EofLast(s.u)
    BY <1>9 DEF Body
  <2>4. h.paired => Conv(i, r, b, s.u, k.e, s.d) /\ EndOK(k.e, s.u, r) /\ ~Has(s.u, "OPENFAIL", r)
    BY <1>8, <1>9, <2>1 DEF Body
  <2>5. h.paired => Conv(h.i, h.r, b, s.u, h.e, h.d) /\ EndOK(h.e, s.u, h.r) /\ ~Has(s.u, "OPENFAIL", h.r)
    BY <1>10, <1>14, <2>1, <2>4
  <2>6. ~h.paired => "SENT_CLOSE" \in b.closes
    BY <1>9, <2>1 DEF Body
  <2>7. Body(b, s.u, h)
    BY <1>5, <1>13, <2>1, <2>2, <2>3, <2>5, <2>6 DEF Body
  <2> QED BY <2>1, <2>7
<1>16. Work(GotConfirmation(P(c), r, x, alt), h)
  BY <1>3, <1>5, <1>6, <1>11, <1>15, GotConfirmationWork
<1>17. Good(s, m.id, GotConfirmation(P(c), r, x, alt), Tail(s.d))
  BY <1>1, <1>7, <1>8, <1>10, <1>12, <1>16, TakenGood DEF v
<1> QED BY <1>17 DEF c, r, x, a, i

-----------------------------------------------------------------------------
(* The local side.                                                         *)

\* What a half-open channel, which is as it was created, cannot have.
LEMMA OpenIfUsed ==
  ASSUME NEW s, Core(s), NEW i \in Ids, Alive(s, i),
         \/ s.ch[i].kind # "main" \/ s.ch[i].wanted \/ s.ch[i].got_pty
         \/ s.ch[i].chanreq # <<>> \/ s.ch[i].sink > 0
  PROVE  ~s.ch[i].halfopen
<1> SUFFICES ASSUME s.ch[i].halfopen PROVE FALSE
  OBVIOUS
<1> DEFINE n == NewChannel("main", 0, TRUE, 0)
<1>1. HereInv(s, i)
  BY DEF Core
<1>2. n.kind = "main" /\ ~n.wanted /\ ~n.got_pty /\ n.chanreq = <<>> /\ n.sink = 0
  BY DEF NewChannel
<1> HIDE DEF n
<1>3. s.ch[i] = n
  BY <1>1 DEF HereInv, n
<1> QED BY <1>2, <1>3

\* What the user and the local socket do finds the channel in order: one that is half-
\* open has nothing to call its handlers.
LEMMA LocalContext ==
  ASSUME NEW s, Core(s), NEW i \in Ids, Alive(s, i),
         \/ s.ch[i].kind # "main" \/ s.ch[i].wanted \/ s.ch[i].got_pty
         \/ s.ch[i].chanreq # <<>> \/ s.ch[i].sink > 0
  PROVE  \E h : /\ Body(s.ch[i], h.u, h) /\ h.strict
                /\ \A p : Work(p, h) => Good(s, i, p, s.d)
<1>1. ~s.ch[i].halfopen
  BY OpenIfUsed
<1>2. PICK a, r, h : /\ Links(s, i, a, r) /\ Setting(s, i, r, h) /\ h.d = s.d /\ h.strict = TRUE
                     /\ Body(s.ch[i], h.u, h)
  BY <1>1, OpenContext
<1>3. \A p : Work(p, h) => Good(s, i, p, s.d)
  BY <1>1, <1>2, LocalGood
<1> QED BY <1>2, <1>3

\* What UserTypes, UserEof and UserResizes call.
LEMMA UserGood ==
  ASSUME NEW s, Core(s), NEW i \in Ids, NEW c, c = s.ch[i], c.kind = "main",
         c.wanted \/ c.got_pty \/ c.chanreq # <<>>
  PROVE  /\ "SENT_EOF" \notin c.closes => Good(s, i, ssh2channel_write(P(c), 1), s.d)
         /\ Good(s, i, mainchan_eof(P(c)), s.d)
         /\ "SENT_CLOSE" \notin c.closes => Good(s, i, ssh2_chanreq_init(P(c), "window-change", 0), s.d)
<1>1. Alive(s, i)
  BY DEF Alive
<1>2. PICK h : Body(c, h.u, h) /\ h.strict /\ \A p : Work(p, h) => Good(s, i, p, s.d)
  BY <1>1, LocalContext
<1>3. Work(P(c), h) /\ P(c).c = c
  BY <1>2, StartWork
<1> DEFINE p == P(c)
<1> HIDE DEF p
<1>4. Work(p, h) /\ p.c.kind = "main" /\ p.c.closes = c.closes
  BY <1>3 DEF p
<1>5. "SENT_EOF" \notin c.closes => Work(ssh2channel_write(p, 1), h)
  BY <1>2, <1>4, WriteWork
<1>6. Work(mainchan_eof(p), h)
  BY <1>4, MainchanEof
<1>7. "SENT_CLOSE" \notin c.closes => Work(ssh2_chanreq_init(p, "window-change", 0), h)
  <2>1. "window-change" \in Requests
    BY DEF Requests
  <2> QED BY <1>4, <2>1, ChanreqInit
<1> QED BY <1>2, <1>5, <1>6, <1>7 DEF p

\* The terminal, or a socket, has taken what was held.
LEMMA SinkGood ==
  ASSUME NEW s, Core(s), NEW i \in Ids, NEW c, c = s.ch[i], Alive(s, i), c.sink > 0
  PROVE  /\ Good(s, i, P([c EXCEPT !.sink = 0]), s.d)
         /\ Good(s, i, ssh2channel_unthrottle(P([c EXCEPT !.sink = 0])), s.d)
<1>1. PICK h : Body(c, h.u, h) /\ h.strict /\ \A p : Work(p, h) => Good(s, i, p, s.d)
  BY LocalContext
<1> DEFINE b == [c EXCEPT !.sink = 0]
<1>2. c \in Chans /\ Kept(c, h)
  BY <1>1 DEF Body
<1>3. /\ b \in Chans /\ b.kind = c.kind /\ b.remoteid = c.remoteid /\ b.halfopen = c.halfopen
      /\ b.closes = c.closes /\ b.pending_eof = c.pending_eof /\ b.outbuffer = c.outbuffer
      /\ b.written = c.written /\ b.remwindow = c.remwindow /\ b.locwindow = c.locwindow
      /\ b.locmaxwin = c.locmaxwin /\ b.chanreq = c.chanreq /\ b.sink = 0 /\ b.localEof = c.localEof
  BY <1>2 DEF Chans
<1> HIDE DEF b
<1>4. Kept(b, h)
  <2>1. ChanOK(c) /\ c.sink \in Nat /\ c.locwindow \in Nat /\ c.locmaxwin \in Nat
    BY <1>2, ChanFields DEF Kept
  <2>2. 0 + c.locwindow <= c.locmaxwin
    BY <2>1 DEF ChanOK
  <2>3. ChanOK(b)
    BY <1>3, <2>1, <2>2 DEF ChanOK
  <2> QED BY <1>2, <1>3, <2>3 DEF Kept, SocketOK, Expects, Waits
<1>5. Body(b, h.u, h)
  BY <1>1, <1>3, <1>4, BodyQuiet
<1>6. Work(P(b), h)
  BY <1>5, StartWork
<1>7. Work(ssh2channel_unthrottle(P(b)), h)
  BY <1>6, Unthrottle
<1> QED BY <1>1, <1>6, <1>7 DEF b

\* What SocketReads and SocketEnds call.
LEMMA SocketGood ==
  ASSUME NEW s, Core(s), NEW i \in Ids, NEW c, c = s.ch[i], c.kind = "fwd", ~c.localEof
  PROVE  /\ Good(s, i, ssh2channel_write(P(c), 1), s.d)
         /\ Good(s, i, ssh2channel_write_eof(P([c EXCEPT !.localEof = TRUE])), s.d)
         /\ Good(s, i, ssh2channel_initiate_close(P([c EXCEPT !.localEof = TRUE])), s.d)
<1>0. Alive(s, i)
  BY DEF Alive
<1>1. PICK h : Body(c, h.u, h) /\ h.strict /\ \A p : Work(p, h) => Good(s, i, p, s.d)
  BY <1>0, LocalContext
<1> DEFINE b == [c EXCEPT !.localEof = TRUE]
<1>2. c \in Chans /\ Kept(c, h) /\ SocketOK(c)
  BY <1>1 DEF Body, Kept
<1>3. /\ b \in Chans /\ b.kind = c.kind /\ b.remoteid = c.remoteid /\ b.halfopen = c.halfopen
      /\ b.closes = c.closes /\ b.pending_eof = c.pending_eof /\ b.outbuffer = c.outbuffer
      /\ b.written = c.written /\ b.remwindow = c.remwindow /\ b.locwindow = c.locwindow
      /\ b.locmaxwin = c.locmaxwin /\ b.chanreq = c.chanreq /\ b.sink = c.sink /\ b.localEof
  BY <1>2 DEF Chans
<1> HIDE DEF b
<1>4. Kept(b, h)
  <2>1. ChanOK(b)
    BY <1>2, <1>3 DEF Kept, ChanOK
  <2> QED BY <1>2, <1>3, <2>1 DEF Kept, SocketOK, Expects, Waits
<1>5. Body(b, h.u, h)
  BY <1>1, <1>3, <1>4, BodyQuiet
<1> DEFINE p == P(b)
           o == P(c)
<1>6. Work(p, h) /\ p.c = b /\ Work(o, h) /\ o.c = c
  BY <1>1, <1>5, StartWork
<1> HIDE DEF p, o
<1>7. Work(ssh2channel_write_eof(p), h)
  BY <1>3, <1>6, WriteEof
<1>8. Work(ssh2channel_initiate_close(p), h)
  BY <1>3, <1>6, InitiateClose
<1>9. "SENT_EOF" \notin c.closes
  BY <1>2 DEF SocketOK
<1>10. Work(ssh2channel_write(o, 1), h)
  BY <1>1, <1>6, <1>9, WriteWork
<1> QED BY <1>1, <1>7, <1>8, <1>10 DEF p, o, b

-----------------------------------------------------------------------------
(* The client answers OPEN, or its own has failed.                         *)

\* -1 stands for no channel and no end.
LEMMA NotAnId ==
  -1 \notin Ids
BY ChannelAssumption DEF Ids

\* An end no packet is on its way to.
LEMMA Silent ==
  ASSUME NEW q \in Seq(Packets), NEW id, ~About(q, id)
  PROVE  /\ Dat(q, id) = 0 /\ Adj(q, id) = 0 /\ Rsp(q, id) = 0 /\ Rqs(q, id) = 0
         /\ \A t : t # "OPEN" => ~Has(q, t, id)
         /\ \A t, a : t # "OPEN" => ~Carries(q, t, id, a)
<1>1. \A t : t # "OPEN" => ~Has(q, t, id)
  BY Seen
<1>2. ~Has(q, "DATA", id) /\ ~Has(q, "ADJUST", id) /\ ~Has(q, "RESP", id) /\ ~Has(q, "REQ", id)
  BY <1>1
<1> QED BY <1>1, <1>2, Sums, Seen

\* One packet more is nothing to the other ends, OPEN is nothing to any.
LEMMA PlusSame ==
  ASSUME NEW q \in Seq(Packets), NEW v \in Seq(Packets), NEW m, Plus(v, q, m)
  PROVE  /\ \A j : j # m.id \/ m.type = "OPEN" => Same(q, v, j)
         /\ m.type # "OPEN" => SameOpens(q, v)
         /\ \A j : j # m.id => /\ Has(v, "OPEN", j) <=> Has(q, "OPEN", j)
                               /\ \A a : Carries(v, "OPEN", j, a) <=> Carries(q, "OPEN", j, a)
<1>1. ASSUME NEW j, j # m.id \/ m.type = "OPEN"
      PROVE  Same(q, v, j)
  <2>1. Dat(q, j) \in Nat /\ Adj(q, j) \in Nat /\ Rsp(q, j) \in Nat /\ Rqs(q, j) \in Nat
    BY Sums
  <2>2. /\ Dat(v, j) = Dat(q, j) + 0 /\ Adj(v, j) = Adj(q, j) + 0
        /\ Rsp(v, j) = Rsp(q, j) + 0 /\ Rqs(v, j) = Rqs(q, j) + 0
        /\ About(v, j) <=> About(q, j)
        /\ \A t : t # "OPEN" => (Has(v, t, j) <=> Has(q, t, j))
        /\ \A t, a : t # "OPEN" => (Carries(v, t, j, a) <=> Carries(q, t, j, a))
    BY <1>1 DEF Plus
  <2> QED BY <2>1, <2>2 DEF Same
<1>2. ASSUME m.type # "OPEN"
      PROVE  SameOpens(q, v)
  <2>1. Opn(q) \in Nat
    BY Sums
  <2>2. /\ Opn(v) = Opn(q) + 0
        /\ \A id : Has(v, "OPEN", id) <=> Has(q, "OPEN", id)
        /\ \A id, a : Carries(v, "OPEN", id, a) <=> Carries(q, "OPEN", id, a)
    BY <1>2 DEF Plus
  <2> QED BY <2>1, <2>2 DEF SameOpens
<1>3. \A j : j # m.id => /\ Has(v, "OPEN", j) <=> Has(q, "OPEN", j)
                         /\ \A a : Carries(v, "OPEN", j, a) <=> Carries(q, "OPEN", j, a)
  BY DEF Plus
<1> QED BY <1>1, <1>2, <1>3

\* The client answers the server's OPEN with packet n, and the channels are then ch.
Answers(s, t, ch, n) ==
  Shaped(t) /\ t.ch = ch /\ t.sv = s.sv /\ t.u = Append(s.u, n) /\ t.d = Tail(s.d)

\* What is then known of the connection.
Answered(s, t, ch, r, w, n) ==
  /\ Queues(t) /\ t.ch = ch /\ t.sv = s.sv /\ r \in Ids /\ w \in Nat
  /\ s.sv[r].st = "opening" /\ s.sv[r].rcvwin = w
  /\ Plus(t.u, s.u, n) /\ ~About(s.u, r)
  /\ \A j : Same(s.d, t.d, j)
  /\ ~Has(t.d, "OPEN", r)
  /\ \A j : Has(t.u, "OPEN", j) <=> Has(s.u, "OPEN", j)
  /\ \A q : q # r => /\ Same(s.u, t.u, q) /\ (Has(t.d, "OPEN", q) <=> Has(s.d, "OPEN", q))
                     /\ \A a : Carries(t.d, "OPEN", q, a) <=> Carries(s.d, "OPEN", q, a)

\* The connection after the client has answered OPEN.
LEMMA AnswersOpen ==
  ASSUME NEW s, Core(s), s.d # <<>>, NEW m, m = Head(s.d), m.type = "OPEN",
         NEW t, NEW ch \in [Ids -> Chans], NEW n \in Packets, Answers(s, t, ch, n), n.id = m.id,
         n.type \in {"CONFIRM", "OPENFAIL"}
  PROVE  Answered(s, t, ch, m.id, m.arg, n)
<1> DEFINE r == m.id
           v == Tail(s.d)
<1>1. /\ s \in Conns /\ s.u \in Seq(Packets) /\ s.d \in Seq(Packets) /\ Ord(s.u) /\ EofLast(s.u) /\ Ord(s.d)
      /\ s.sv \in [Ids -> Ends] /\ s.ch \in [Ids -> Chans]
  BY ConnFields DEF Core, Queues, Conns
<1>2. m \in Packets /\ r \in Ids /\ v \in Seq(Packets) /\ Plus(s.d, v, m) /\ Ord(v) /\ Has(s.d, "OPEN", r)
      /\ Carries(s.d, "OPEN", r, m.arg)
  BY TakePacket
<1>3. ~Has(v, "OPEN", r)
  BY <1>1, HeadOrd
<1>4. ThereInv(s, r) /\ PeerInv(s, r) /\ s.sv[r] \in Ends
  BY <1>1, <1>2 DEF Core
<1>5. s.sv[r].st = "opening" /\ s.sv[r].rcvwin = m.arg
  BY <1>2, <1>4 DEF ThereInv
<1>6. ~About(s.u, r)
  BY <1>2, <1>4, <1>5 DEF PeerInv
<1>7. m.arg \in Nat
  BY <1>4, <1>5 DEF Ends
<1>8. /\ Shaped(t) /\ t.ch = ch /\ t.sv = s.sv /\ t.u = Append(s.u, n) /\ t.d = v
  BY DEF Answers
<1>9. t.u \in Seq(Packets) /\ Plus(t.u, s.u, n)
  BY <1>1, <1>8, AppendPlus
<1>10. Ord(t.u) /\ EofLast(t.u)
  <2>1. ~Has(s.u, "CLOSE", n.id) /\ ~Has(s.u, "OPENFAIL", n.id) /\ ~About(s.u, n.id)
    BY <1>6, Seen
  <2>2. Ord(Append(s.u, n))
    BY <1>1, <2>1, OrdAppend
  <2>3. EofLast(Append(s.u, n))
    BY <1>1, EofAppend
  <2> QED BY <1>8, <2>2, <2>3
<1>11. t \in Conns
  BY <1>1, <1>2, <1>8, <1>9, ShapedConn
<1> HIDE DEF v, r
<1>12. \A j : Same(s.d, v, j)
  <2>1. \A j : Same(v, s.d, j)
    BY <1>1, <1>2, PlusSame
  <2> QED BY <2>1 DEF Same
<1>13. \A q : q # r => /\ Has(v, "OPEN", q) <=> Has(s.d, "OPEN", q)
                       /\ \A a : Carries(v, "OPEN", q, a) <=> Carries(s.d, "OPEN", q, a)
  BY <1>1, <1>2, PlusSame DEF r
<1>14. /\ \A q : q # r => Same(s.u, t.u, q)
       /\ SameOpens(s.u, t.u)
  <2>1. n.id = r /\ n.type # "OPEN"
    BY DEF r
  <2> QED BY <1>1, <1>9, <2>1, PlusSame
<1>15. Queues(t)
  BY <1>2, <1>8, <1>10, <1>11 DEF Queues
<1>16. \A j : Has(t.u, "OPEN", j) <=> Has(s.u, "OPEN", j)
  BY <1>14 DEF SameOpens
<1>17. \A j : Same(s.d, t.d, j)
  BY <1>8, <1>12
<1>18. ~Has(t.d, "OPEN", r)
  BY <1>3, <1>8
<1>19. \A q : q # r => /\ Has(t.d, "OPEN", q) <=> Has(s.d, "OPEN", q)
                       /\ \A a : Carries(t.d, "OPEN", q, a) <=> Carries(s.d, "OPEN", q, a)
  BY <1>8, <1>13
<1>20. t.ch = ch /\ t.sv = s.sv /\ \A q : q # r => Same(s.u, t.u, q)
  BY <1>8, <1>14
<1>21. r \in Ids
  BY <1>2
<1>22. Answered(s, t, ch, r, m.arg, n)
  BY ONLY <1>5, <1>6, <1>7, <1>9, <1>15, <1>16, <1>17, <1>18, <1>19, <1>20, <1>21 DEF Answered
<1> QED BY ONLY <1>22 DEF r

\* The client refuses OPEN.
LEMMA OpenRefused ==
  ASSUME NEW s, Core(s), s.d # <<>>, NEW m, m = Head(s.d), m.type = "OPEN",
         NEW t, Answers(s, t, s.ch, Packet("OPENFAIL", m.id, 0))
  PROVE  Core(t)
<1> DEFINE n == Packet("OPENFAIL", m.id, 0)
           r == m.id
<1>1. r \in Ids /\ s.ch \in [Ids -> Chans] /\ s \in Conns /\ s.u \in Seq(Packets)
  BY TakePacket, ConnFields DEF Core, Queues, Conns
<1>2. n \in Packets /\ n.id = r /\ n.type = "OPENFAIL"
  BY <1>1, PacketTyped, PacketIs
<1> DEFINE C == s.ch
<1>3. Answers(s, t, C, n) /\ C \in [Ids -> Chans] /\ n \in Packets /\ n.type \in {"CONFIRM", "OPENFAIL"} /\ n.id = m.id
  BY <1>1, <1>2
<1> HIDE DEF n, C
<1>4a. Answered(s, t, C, m.id, m.arg, n)
  BY <1>3, AnswersOpen
<1>4. /\ Queues(t) /\ t.ch = C /\ t.sv = s.sv
      /\ s.sv[r].st = "opening"
      /\ Plus(t.u, s.u, n) /\ ~About(s.u, r)
      /\ \A j : Same(s.d, t.d, j)
      /\ ~Has(t.d, "OPEN", r)
      /\ \A j : Has(t.u, "OPEN", j) <=> Has(s.u, "OPEN", j)
      /\ \A q : q # r => /\ Same(s.u, t.u, q) /\ (Has(t.d, "OPEN", q) <=> Has(s.d, "OPEN", q))
                         /\ \A a : Carries(t.d, "OPEN", q, a) <=> Carries(s.d, "OPEN", q, a)
  BY ONLY <1>4a DEF Answered
<1> HIDE DEF r
<1>5. Elsewhere(s, t, -1, r)
  BY <1>4 DEF Elsewhere, C
<1>6. /\ \A x : x # "OPEN" => ~Has(s.u, x, r)
      /\ \A x, a : x # "OPEN" => ~Carries(s.u, x, r, a)
      /\ Dat(s.u, r) = 0 /\ Rsp(s.u, r) = 0
  BY <1>1, <1>4, Silent
<1>7. /\ Has(t.u, "OPENFAIL", r) /\ ~Has(t.u, "EOF", r) /\ ~Has(t.u, "DATA", r) /\ ~Has(t.u, "CONFIRM", r)
      /\ \A a : ~Carries(t.u, "CONFIRM", r, a) /\ ~Carries(t.u, "EOF", r, a)
      /\ Dat(t.u, r) = Dat(s.u, r) + 0 /\ Rsp(t.u, r) = Rsp(s.u, r) + 0
  BY <1>2, <1>4, <1>6 DEF Plus
<1>8. ASSUME NEW j, Paired(s, j, r) \/ Paired(t, j, r)
      PROVE  FALSE
  BY <1>4, <1>6, <1>7, <1>8 DEF Paired
<1>9. ThereInv(s, r) /\ PeerInv(s, r)
  BY <1>1 DEF Core
<1>10. ThereInv(t, r)
  <2>1. EndOK(s.sv[r], t.u, r)
    <3>1. Dat(t.u, r) = Dat(s.u, r) /\ Rsp(t.u, r) = Rsp(s.u, r)
      BY <1>6, <1>7
    <3> QED BY <1>7, <1>9, <3>1 DEF ThereInv, EndOK
  <2>2. \A a : ~Carries(t.d, "OPEN", r, a)
    BY <1>4, Seen
  <2> QED BY <1>4, <1>7, <1>9, <2>1, <2>2 DEF ThereInv
<1>11. PeerInv(t, r)
  BY <1>4, <1>7 DEF PeerInv
<1>12. \A q : ~Joined(s, -1, q)
  BY NotAnId DEF Joined, Links
<1> QED BY <1>4, <1>5, <1>8, <1>10, <1>11, <1>12, NotAnId, CoreStep

\* The client confirms OPEN, with an id that is free: no packet to an earlier channel
\* of that id is left on its way.
LEMMA OpenConfirmed ==
  ASSUME NEW s, Core(s), s.d # <<>>, NEW m, m = Head(s.d), m.type = "OPEN", NEW i \in Ids, ~Alive(s, i),
         NEW t, Answers(s, t, [s.ch EXCEPT ![i] = NewChannel("fwd", m.id, FALSE, m.arg)],
                        Packet("CONFIRM", m.id, i))
  PROVE  Core(t)
<1> DEFINE n == Packet("CONFIRM", m.id, i)
           r == m.id
           w == m.arg
           c == NewChannel("fwd", r, FALSE, w)
           C == [s.ch EXCEPT ![i] = c]
<1>1. r \in Ids /\ s.ch \in [Ids -> Chans] /\ s \in Conns /\ s.u \in Seq(Packets) /\ s.d \in Seq(Packets)
      /\ Carries(s.d, "OPEN", r, w)
  BY TakePacket, ConnFields DEF Core, Queues, Conns
<1>0. Answers(s, t, C, n) /\ m.id = r
  OBVIOUS
<1> HIDE DEF r, w
<1>2. n \in Packets /\ n.id = r /\ n.type = "CONFIRM" /\ n.arg = i
  <2>1. i \in Nat
    BY DEF Ids
  <2>2. n = Packet("CONFIRM", r, i)
    BY DEF r
  <2>3. n \in Packets
    BY <1>1, <2>1, <2>2, PacketTyped
  <2>4. n.id = r /\ n.type = "CONFIRM" /\ n.arg = i
    BY <2>2, PacketIs
  <2> QED BY <2>3, <2>4
<1>3. w \in Nat
  <2>1. ThereInv(s, r) /\ s.sv[r] \in Ends
    BY <1>1, ConnFields DEF Core
  <2>2. s.sv[r].rcvwin = w
    BY <1>1, <2>1 DEF ThereInv
  <2> QED BY <2>1, <2>2 DEF Ends
<1>4. n \in Packets /\ n.type \in {"CONFIRM", "OPENFAIL"} /\ n.id = m.id
  BY <1>0, <1>2
<1> HIDE DEF n
<1>5. /\ c \in Chans /\ c.kind = "fwd" /\ c.remoteid = r /\ ~c.halfopen /\ c.closes = {}
      /\ ~c.pending_eof /\ c.outbuffer = 0 /\ c.written = 0 /\ c.remwindow = w
      /\ c.locwindow = WinSize /\ c.locmaxwin = WinSize /\ c.chanreq = <<>> /\ c.sink = 0
      /\ Waits(c) = 0
  <2>1. WinSize \in Nat /\ WinSize \in Int /\ <<>> \in Seq(Awaited)
    BY ChannelAssumption
  <2>2. /\ c \in Chans /\ c.kind = "fwd" /\ c.remoteid = r /\ ~c.halfopen /\ c.closes = {}
        /\ ~c.pending_eof /\ c.outbuffer = 0 /\ c.written = 0 /\ c.remwindow = w
        /\ c.locwindow = WinSize /\ c.locmaxwin = WinSize /\ c.chanreq = <<>> /\ c.sink = 0
    BY <1>1, <1>3, <2>1 DEF NewChannel, Chans
  <2> HIDE DEF c
  <2>3. Waits(c) = 0
    BY <2>2 DEF Waits
  <2> QED BY <2>2, <2>3
<1> HIDE DEF c
<1>6. C \in [Ids -> Chans] /\ C[i] = c /\ \A j \in Ids : j # i => C[j] = s.ch[j]
  BY <1>1, <1>5
<1> HIDE DEF C
<1>7a. Answered(s, t, C, m.id, m.arg, n)
  BY <1>0, <1>4, <1>6, AnswersOpen
<1>7b. Answered(s, t, C, r, w, n)
  BY ONLY <1>7a DEF r, w
<1>7. /\ Queues(t) /\ t.ch = C /\ t.sv = s.sv
      /\ s.sv[r].st = "opening" /\ s.sv[r].rcvwin = w
      /\ Plus(t.u, s.u, n) /\ ~About(s.u, r)
      /\ \A j : Same(s.d, t.d, j)
      /\ ~Has(t.d, "OPEN", r)
      /\ \A j : Has(t.u, "OPEN", j) <=> Has(s.u, "OPEN", j)
      /\ \A q : q # r => /\ Same(s.u, t.u, q) /\ (Has(t.d, "OPEN", q) <=> Has(s.d, "OPEN", q))
                         /\ \A a : Carries(t.d, "OPEN", q, a) <=> Carries(s.d, "OPEN", q, a)
  BY ONLY <1>7b DEF Answered
<1>8. t.ch[i] = c /\ \A j \in Ids : j # i => t.ch[j] = s.ch[j]
  BY <1>6, <1>7
<1>9. Elsewhere(s, t, i, r)
  BY <1>7, <1>8 DEF Elsewhere
<1>10. /\ \A x : x # "OPEN" => ~Has(s.u, x, r)
       /\ \A x, a : x # "OPEN" => ~Carries(s.u, x, r, a)
       /\ Dat(s.u, r) = 0 /\ Rsp(s.u, r) = 0 /\ Adj(s.u, r) = 0 /\ Rqs(s.u, r) = 0
  BY <1>1, <1>7, Silent
<1>11. /\ Has(t.u, "CONFIRM", r) /\ ~Has(t.u, "EOF", r) /\ ~Has(t.u, "DATA", r) /\ ~Has(t.u, "CLOSE", r)
       /\ Carries(t.u, "CONFIRM", r, i)
       /\ \A a : Carries(t.u, "CONFIRM", r, a) => a = i
       /\ \A a : ~Carries(t.u, "EOF", r, a)
       /\ Dat(t.u, r) = Dat(s.u, r) + 0 /\ Rsp(t.u, r) = Rsp(s.u, r) + 0
       /\ Adj(t.u, r) = Adj(s.u, r) + 0 /\ Rqs(t.u, r) = Rqs(s.u, r) + 0
  BY <1>2, <1>7, <1>10 DEF Plus
<1>12. Dat(t.u, r) = 0 /\ Rsp(t.u, r) = 0 /\ Adj(t.u, r) = 0 /\ Rqs(t.u, r) = 0
  BY <1>10, <1>11
<1>13. HereInv(s, i) /\ ThereInv(s, r) /\ PeerInv(s, r) /\ s.sv[r] \in Ends
  BY <1>1, ConnFields DEF Core
<1>14. ~About(s.d, i) /\ ~Has(s.u, "OPEN", i)
  BY <1>13 DEF HereInv
<1>15. /\ \A x : x # "OPEN" => ~Has(t.d, x, i)
       /\ \A x, a : x # "OPEN" => ~Carries(t.d, x, i, a)
       /\ Dat(t.d, i) = 0 /\ Rsp(t.d, i) = 0 /\ Adj(t.d, i) = 0 /\ Rqs(t.d, i) = 0 /\ ~About(t.d, i)
  <2>1. ~About(t.d, i) /\ t.d \in Seq(Packets)
    BY <1>7, <1>14, ConnFields DEF Same, Queues
  <2> QED BY <2>1, Silent
<1>16. HereInv(t, i)
  <2>1. ChanOK(c) /\ SocketOK(c)
    <3>1. WinSize \in Nat /\ 0 + WinSize <= WinSize
      BY ChannelAssumption
    <3>2. c.chanreq \in Seq(Winadjs)
      BY <1>5
    <3> QED BY <1>5, <3>1, <3>2 DEF ChanOK, SocketOK
  <2>2. Expects(c, t.d, i)
    <3>1. WinSize \in Nat
      BY ChannelAssumption
    <3> QED BY <1>5, <1>15, <3>1 DEF Expects
  <2>3. ~Has(t.u, "OPEN", i)
    BY <1>7, <1>14
  <2>4. \A a : ~Carries(t.d, "CONFIRM", i, a) /\ ~Carries(t.d, "REQ", i, a)
    BY <1>15
  <2> QED BY <1>5, <1>8, <1>15, <2>1, <2>2, <2>3, <2>4 DEF HereInv
<1>17. Paired(t, i, r)
  BY <1>7, <1>11 DEF Paired
<1>18. MeetInv(t, i)
  <2> SUFFICES ASSUME NEW b, NEW q, Links(t, i, b, q)
               PROVE  Meets(t, i, b, q)
    BY DEF MeetInv
  <2>1. View(t.ch[i], b) = c /\ q = r
    BY <1>5, <1>8 DEF Links, View
  <2> DEFINE e == EndView(s.sv[r], i)
  <2>2. e.closes = {} /\ e.rcvwin = w /\ e.got = 0 /\ e.asked = 0 /\ e.sndwin = WinSize
    BY <1>7, <1>13, EndViewFields
  <2> HIDE DEF e
  <2>3. Conv(i, r, c, t.u, e, t.d)
    <3>1. Windows(i, r, c, t.u, e, t.d)
      <4>1. WinSize \in Nat /\ WinSize = WinSize + 0 + 0 /\ w = w + 0 + 0
        BY <1>3, ChannelAssumption
      <4> QED BY <1>5, <1>12, <1>15, <2>2, <4>1 DEF Windows
    <3>2. Streams(r, c, t.u, e)
      BY <1>5, <1>11, <1>12, <2>2 DEF Streams
    <3>3. Replies(i, r, c, t.u, e, t.d)
      BY <1>5, <1>12, <1>15, <2>2 DEF Replies, Asked
    <3>4. Closings(i, r, c, t.u, e, t.d)
      BY <1>5, <1>11, <1>15, <2>2 DEF Closings
    <3> QED BY <3>1, <3>2, <3>3, <3>4 DEF Conv
  <2> QED BY <1>7, <1>17, <2>1, <2>3 DEF Meets, e
<1>19. ThereInv(t, r)
  <2>1. EndOK(s.sv[r], t.u, r)
    <3>1. Dat(t.u, r) = Dat(s.u, r) /\ Rsp(t.u, r) = Rsp(s.u, r)
      BY <1>10, <1>12
    <3> QED BY <1>11, <1>13, <3>1 DEF ThereInv, EndOK
  <2>2. \A a : ~Carries(t.d, "OPEN", r, a)
    BY <1>7, Seen
  <2> QED BY <1>7, <1>11, <1>13, <2>1, <2>2 DEF ThereInv
<1>20. PeerInv(t, r)
  <2> DEFINE b == <<0, 0>>
  <2>1. b \in Ids \X Nat
    BY ChannelAssumption DEF Ids
  <2> HIDE DEF b
  <2>2. Links(t, i, b, r)
    BY <1>5, <1>8, <2>1 DEF Links, Alive, View
  <2>3. Joined(t, i, r)
    BY <2>2 DEF Joined
  <2> QED BY <1>7, <1>11, <2>3 DEF PeerInv
<1>21. \A j : j # i => ~Paired(s, j, r) /\ ~Paired(t, j, r)
  BY <1>7, <1>10, <1>11 DEF Paired
<1>22. \A q : ~Joined(s, i, q)
  BY DEF Joined, Links
<1> QED BY <1>7, <1>9, <1>16, <1>18, <1>19, <1>20, <1>21, <1>22, CoreStep

\* The main channel could not be opened.
LEMMA OpenFailed ==
  ASSUME NEW s, Core(s), s.d # <<>>, NEW m, m = Head(s.d), m.type = "OPENFAIL",
         NEW t, Handles(s, t, m.id, NoChannel, <<>>, Tail(s.d))
  PROVE  Core(t)
<1> DEFINE i == m.id
           v == Tail(s.d)
<1>1. m.type # "OPEN"
  OBVIOUS
<1>2. /\ i \in Ids /\ Alive(s, i) /\ s.ch[i].halfopen /\ Has(s.d, "OPENFAIL", i)
      /\ v \in Seq(Packets) /\ Ord(v) /\ (\A j : j # i => Same(s.d, v, j)) /\ SameOpens(s.d, v)
      /\ ~About(v, i)
  BY <1>1, TakePacket
<1>3. /\ s.u \in Seq(Packets) /\ Ord(s.u) /\ EofLast(s.u) /\ Ord(s.d) /\ s.d \in Seq(Packets)
  BY ConnFields DEF Core, Queues
<1>4. s.u \o <<>> = s.u
  BY <1>3
<1>5. t.u = s.u
  BY <1>4 DEF Handles
<1>6. NoChannel \in Chans
  <2>1. 0 \in Ids
    BY ChannelAssumption DEF Ids
  <2> QED BY <2>1, NewChannelFields DEF NoChannel
<1>7. Handles(s, t, i, NoChannel, <<>>, v)
  OBVIOUS
<1> HIDE DEF i, v
<1>8. Queues(t) /\ t.sv = s.sv /\ t.d = v /\ t.ch[i] = NoChannel /\ \A j \in Ids : j # i => t.ch[j] = s.ch[j]
  BY <1>2, <1>3, <1>5, <1>6, <1>7, HandlesQueues
<1>9. ~Alive(t, i)
  BY <1>8 DEF Alive, NoChannel, NewChannel
<1>10. Elsewhere(s, t, i, -1)
  <2>1. \A q : Same(s.u, t.u, q)
    BY <1>5, SameSelf
  <2> QED BY <1>2, <1>5, <1>8, <2>1 DEF Elsewhere, SameOpens
<1>11. HereInv(s, i)
  BY <1>2 DEF Core
<1>12. HereInv(t, i)
  <2>1. ~Has(t.u, "OPEN", i)
    <3>1. About(s.d, i)
      BY <1>2, Seen
    <3> QED BY <1>2, <1>5, <1>11, <3>1 DEF HereInv
  <2>2. \A b : ~Carries(t.d, "CONFIRM", i, b) /\ ~Carries(t.d, "REQ", i, b)
    BY <1>2, <1>8, Silent
  <2> QED BY <1>2, <1>8, <1>9, <2>1, <2>2 DEF HereInv
<1>13. MeetInv(t, i)
  BY <1>9 DEF MeetInv, Links
<1>14. \A q : ~Joined(s, i, q)
  <2>1. \A a : ~Carries(s.d, "CONFIRM", i, a)
    BY <1>2, <1>3, OneAnswer
  <2> QED BY <1>2, <2>1 DEF Joined, Links
<1> QED BY <1>8, <1>10, <1>12, <1>13, <1>14, NotAnId, CoreStep

-----------------------------------------------------------------------------
(* Steps of the server's on an end that is open.                           *)

\* What end r may have said to channel i: nothing, or a packet of an open channel before
\* CLOSE.
Says(s, t, i, r) ==
  /\ SameOpens(s.d, t.d)
  /\ \A j : j # i => Same(s.d, t.d, j)
  /\ \A a : Carries(t.d, "CONFIRM", i, a) <=> Carries(s.d, "CONFIRM", i, a)
  /\ Has(t.d, "CONFIRM", i) <=> Has(s.d, "CONFIRM", i)
  /\ Has(t.d, "OPENFAIL", i) <=> Has(s.d, "OPENFAIL", i)
  /\ Has(s.d, "CLOSE", i) => Has(t.d, "CLOSE", i)
  /\ About(s.d, i) => About(t.d, i)
  /\ \A a : Carries(t.d, "REQ", i, a) => Carries(s.d, "REQ", i, a) \/ a # "window-change"
  /\ Same(s.d, t.d, i) \/ "SENT_CLOSE" \notin s.sv[r].closes

\* Before the server has sent CLOSE the end has its channel, and that has not got one.
LEMMA OpenEnd ==
  ASSUME NEW s, Core(s), NEW r \in Ids, NEW i, s.sv[r].st = "open", s.sv[r].peer = i
  PROVE  /\ i \in Ids /\ s.sv[r] \in Ends /\ Paired(s, i, r) /\ s \in Conns
         /\ \A a : Links(s, i, a, r) => Conv(i, r, View(s.ch[i], a), s.u, s.sv[r], s.d)
         /\ "SENT_CLOSE" \notin s.sv[r].closes =>
              /\ Joined(s, i, r) /\ Alive(s, i) /\ ~Has(s.d, "OPENFAIL", i) /\ ~Has(s.d, "CLOSE", i)
              /\ s.ch[i].halfopen <=> Has(s.d, "CONFIRM", i)
<1> DEFINE e == s.sv[r]
<1>1. s \in Conns /\ e \in Ends /\ PeerInv(s, r) /\ ThereInv(s, r) /\ Ord(s.d) /\ s.d \in Seq(Packets)
  BY ConnFields DEF Core, Queues
<1>2. i \in Ids
  BY <1>1 DEF Ends
<1>3. Paired(s, i, r)
  BY DEF Paired
<1>4. HereInv(s, i) /\ MeetInv(s, i)
  BY <1>2 DEF Core
<1>5. ASSUME NEW a, Links(s, i, a, r)
      PROVE  Conv(i, r, View(s.ch[i], a), s.u, e, s.d)
  <2>1. EndView(e, i) = e
    BY DEF EndView
  <2>2. Meets(s, i, a, r)
    BY <1>4, <1>5 DEF MeetInv
  <2> QED BY <1>3, <2>1, <2>2 DEF Meets
<1>6. ASSUME "SENT_CLOSE" \notin e.closes
      PROVE  /\ Joined(s, i, r) /\ Alive(s, i) /\ ~Has(s.d, "OPENFAIL", i) /\ ~Has(s.d, "CLOSE", i)
             /\ s.ch[i].halfopen <=> Has(s.d, "CONFIRM", i)
  <2>1. Joined(s, i, r)
    BY <1>1, <1>6 DEF PeerInv
  <2>2. PICK a : Links(s, i, a, r)
    BY <2>1 DEF Joined
  <2>3. Conv(i, r, View(s.ch[i], a), s.u, e, s.d)
    BY <1>5, <2>2
  <2>4. ~Has(s.d, "CLOSE", i)
    BY <1>6, <2>3 DEF Conv, Closings
  <2>5. Alive(s, i) /\ (s.ch[i].halfopen => Carries(s.d, "CONFIRM", i, a))
    BY <2>2 DEF Links
  <2>6. s.ch[i].halfopen => Has(s.d, "CONFIRM", i) /\ ~Has(s.d, "OPENFAIL", i)
    BY <1>1, <2>5, Seen, OneAnswer
  <2>7. ~s.ch[i].halfopen => ~Has(s.d, "CONFIRM", i) /\ ~Has(s.d, "OPENFAIL", i)
    BY <1>4, Seen DEF HereInv
  <2> QED BY <2>1, <2>4, <2>5, <2>6, <2>7
<1> QED BY <1>1, <1>2, <1>3, <1>5, <1>6

\* A channel that agrees with end r has expected what that has said.
Fits(s, t, i, r) ==
  \A c \in Chans : Conv(i, r, c, s.u, s.sv[r], s.d) /\ Expects(c, s.d, i) => Expects(c, t.d, i)

\* What end r says keeps what HereInv says of its channel.
LEMMA ServerHere ==
  ASSUME NEW s, Core(s), NEW t, NEW r \in Ids, NEW i, s.sv[r].st = "open", s.sv[r].peer = i,
         t.ch = s.ch, Says(s, t, i, r),
         \A j : Has(t.u, "OPEN", j) <=> Has(s.u, "OPEN", j),
         Fits(s, t, i, r)
  PROVE  /\ \A a, q : Links(t, i, a, q) <=> Links(s, i, a, q)
         /\ \A q : Joined(t, i, q) <=> Joined(s, i, q)
         /\ HereInv(t, i)
         /\ \A a, q : Links(s, i, a, q) /\ q # r => Same(s.d, t.d, i)
<1> DEFINE c == s.ch[i]
           e == s.sv[r]
<1>1. /\ i \in Ids /\ e \in Ends /\ s \in Conns /\ Ord(s.d)
      /\ \A a : Links(s, i, a, r) => Conv(i, r, View(c, a), s.u, e, s.d)
      /\ "SENT_CLOSE" \notin e.closes =>
           /\ Joined(s, i, r) /\ Alive(s, i) /\ ~Has(s.d, "OPENFAIL", i)
           /\ c.halfopen <=> Has(s.d, "CONFIRM", i)
  BY OpenEnd DEF Core, Queues
<1>2. HereInv(s, i) /\ c \in Chans
  BY <1>1, ConnFields DEF Core
<1>3. \A a : Carries(t.d, "CONFIRM", i, a) <=> Carries(s.d, "CONFIRM", i, a)
  BY DEF Says
<1>4. \A a, q : Links(t, i, a, q) <=> Links(s, i, a, q)
  BY <1>3 DEF Links, Alive
<1>5. \A q : Joined(t, i, q) <=> Joined(s, i, q)
  BY <1>4 DEF Joined
<1>6. ASSUME NEW a, NEW q, Links(s, i, a, q), q # r
      PROVE  Same(s.d, t.d, i)
  <2>1. Joined(s, i, q)
    BY <1>6 DEF Joined
  <2>2. ~Joined(s, i, r)
    BY <1>1, <1>6, <2>1, JoinedOnce
  <2> QED BY <1>1, <2>2 DEF Says
<1>7. HereInv(t, i)
  <2>1. CASE Same(s.d, t.d, i)
    <3>1. /\ About(t.d, i) <=> About(s.d, i)
          /\ Has(t.d, "CONFIRM", i) <=> Has(s.d, "CONFIRM", i)
          /\ Has(t.d, "OPENFAIL", i) <=> Has(s.d, "OPENFAIL", i)
          /\ \A a : Carries(t.d, "REQ", i, a) <=> Carries(s.d, "REQ", i, a)
          /\ Expects(c, t.d, i) <=> Expects(c, s.d, i)
      BY <2>1 DEF Same, Expects
    <3> QED BY <1>2, <1>3, <3>1 DEF HereInv, Alive
  <2>2. CASE ~Same(s.d, t.d, i)
    <3>1. "SENT_CLOSE" \notin e.closes
      BY <2>2 DEF Says
    <3>2. Joined(s, i, r) /\ Alive(s, i) /\ ~Has(s.d, "OPENFAIL", i) /\ (c.halfopen <=> Has(s.d, "CONFIRM", i))
      BY <1>1, <3>1
    <3>3. PICK a : Links(s, i, a, r)
      BY <3>2 DEF Joined
    <3>4. Conv(i, r, View(c, a), s.u, e, s.d) /\ a \in Ids \X Nat
      BY <1>1, <3>3 DEF Links
    <3>5. /\ View(c, a) \in Chans /\ View(c, a).locwindow = c.locwindow /\ View(c, a).chanreq = c.chanreq
      BY <1>2, <3>4, ViewFields
    <3>6. Expects(View(c, a), s.d, i)
      BY <1>2, <3>2, <3>5 DEF HereInv, Expects, Waits
    <3>7. Expects(View(c, a), t.d, i)
      BY <3>4, <3>5, <3>6 DEF Fits
    <3>8. Expects(c, t.d, i)
      BY <3>5, <3>7 DEF Expects, Waits
    <3>9. c.halfopen <=> Has(t.d, "CONFIRM", i) \/ Has(t.d, "OPENFAIL", i)
      BY <3>2 DEF Says
    <3>10. Alive(t, i)
      BY <3>2 DEF Alive
    <3>11. c.halfopen => About(s.d, i) /\ About(t.d, i)
      BY <3>2, Seen DEF Says
    <3>12. \A b : Carries(t.d, "REQ", i, b) => b # "window-change"
      BY <1>2 DEF HereInv, Says
    <3> QED BY <1>2, <1>3, <3>2, <3>8, <3>9, <3>10, <3>11, <3>12 DEF HereInv
  <2> QED BY <2>1, <2>2
<1> QED BY <1>4, <1>5, <1>6, <1>7

\* How end r and the packets to it change.
Turns(s, t, r, e) ==
  /\ Queues(t) /\ t.ch = s.ch /\ t.sv[r] = e
  /\ \A q \in Ids : q # r => t.sv[q] = s.sv[q] /\ Same(s.u, t.u, q)
  /\ \A j : Has(t.u, "OPEN", j) <=> Has(s.u, "OPEN", j)

\* A step of end r concerns no other end and no channel but its own.
LEMMA TurnsElsewhere ==
  ASSUME NEW s, NEW t, NEW i, NEW r \in Ids, NEW e, Turns(s, t, r, e), Says(s, t, i, r)
  PROVE  Elsewhere(s, t, i, r)
BY DEF Turns, Says, Elsewhere, SameOpens

\* The channel's side of another end.
LEMMA MeetsElse ==
  ASSUME NEW s, NEW t, NEW i, NEW r, NEW e, Turns(s, t, r, e), NEW a, NEW q \in Ids, q # r,
         Meets(s, i, a, q), Same(s.d, t.d, i)
  PROVE  Meets(t, i, a, q)
<1>1. t.ch = s.ch /\ t.sv[q] = s.sv[q] /\ Same(s.u, t.u, q)
  BY DEF Turns
<1>2. Paired(t, i, q) <=> Paired(s, i, q)
  BY <1>1 DEF Paired, Same
<1>3. Has(t.d, "CLOSE", i) <=> Has(s.d, "CLOSE", i)
  BY DEF Same
<1>4. Conv(i, q, View(s.ch[i], a), s.u, EndView(s.sv[q], i), s.d) =>
        Conv(i, q, View(s.ch[i], a), t.u, EndView(s.sv[q], i), t.d)
  BY <1>1, ConvSame
<1> QED BY <1>1, <1>2, <1>3, <1>4 DEF Meets

\* No channel sends CLOSE before EOF.
ClosedLast(c) == "SENT_CLOSE" \in c.closes => "SENT_EOF" \in c.closes

\* A step of end r that keeps the agreement with its channel keeps Core.
LEMMA ServerKeeps ==
  ASSUME NEW s, Core(s), NEW t, NEW r \in Ids, NEW i, s.sv[r].st = "open", s.sv[r].peer = i,
         NEW e, Turns(s, t, r, e), Says(s, t, i, r), e \in Ends, e.st = "open", e.peer = i,
         Fits(s, t, i, r),
         \A c \in Chans : Conv(i, r, c, s.u, s.sv[r], s.d) /\ ClosedLast(c) => Conv(i, r, c, t.u, e, t.d),
         EndOK(e, t.u, r),
         "RCVD_CLOSE" \in e.closes => ~About(t.u, r) /\ "SENT_CLOSE" \notin e.closes,
         \A n, a : n # "OPEN" /\ Carries(t.u, n, r, a) => Carries(s.u, n, r, a),
         "SENT_CLOSE" \in s.sv[r].closes /\ Has(s.u, "CLOSE", r) =>
           "SENT_CLOSE" \in e.closes /\ Has(t.u, "CLOSE", r)
  PROVE  Core(t)
<1>1. /\ i \in Ids /\ s \in Conns
      /\ \A a : Links(s, i, a, r) => Conv(i, r, View(s.ch[i], a), s.u, s.sv[r], s.d)
  BY OpenEnd
<1>2. /\ Queues(t) /\ t.ch = s.ch /\ t.sv[r] = e
      /\ \A j : Has(t.u, "OPEN", j) <=> Has(s.u, "OPEN", j)
  BY DEF Turns
<1>3. /\ \A a, q : Links(t, i, a, q) <=> Links(s, i, a, q)
      /\ \A q : Joined(t, i, q) <=> Joined(s, i, q)
      /\ HereInv(t, i)
      /\ \A a, q : Links(s, i, a, q) /\ q # r => Same(s.d, t.d, i)
  BY <1>2, ServerHere
<1>4. Elsewhere(s, t, i, r)
  BY TurnsElsewhere
<1>5. \A j : j # i => ~Paired(s, j, r) /\ ~Paired(t, j, r)
  BY <1>2 DEF Paired
<1>6. MeetInv(s, i) /\ ThereInv(s, r) /\ PeerInv(s, r)
  BY <1>1 DEF Core
<1>7. MeetInv(t, i)
  <2> SUFFICES ASSUME NEW a, NEW q, Links(t, i, a, q)
               PROVE  Meets(t, i, a, q)
    BY DEF MeetInv
  <2>1. Links(s, i, a, q) /\ q \in Ids /\ s.ch[i] \in Chans /\ a \in Ids \X Nat
    BY <1>1, <1>3, LinksFields
  <2>2. CASE q = r
    <3>1. Paired(t, i, r) /\ EndView(t.sv[r], i) = e
      BY <1>2 DEF Paired, EndView
    <3>2. View(s.ch[i], a) \in Chans /\ View(s.ch[i], a).closes = s.ch[i].closes
      BY <2>1, ViewFields
    <3>4. ChanOK(s.ch[i])
      <4>1. HereInv(s, i) /\ Alive(s, i)
        BY <1>1, <2>1 DEF Core, Links
      <4> QED BY <4>1 DEF HereInv
    <3>5. ClosedLast(View(s.ch[i], a))
      BY <3>2, <3>4 DEF ChanOK, ClosedLast
    <3>3. Conv(i, r, View(s.ch[i], a), t.u, e, t.d)
      BY <1>1, <2>1, <2>2, <3>2, <3>5
    <3> QED BY <1>2, <2>2, <3>1, <3>3 DEF Meets
  <2>3. CASE q # r
    <3>1. Meets(s, i, a, q) /\ Same(s.d, t.d, i)
      BY <1>3, <1>6, <2>1, <2>3 DEF MeetInv
    <3> QED BY <2>1, <2>3, <3>1, MeetsElse
  <2> QED BY <2>2, <2>3
<1>8. ThereInv(t, r)
  <2>1. About(t.u, r) => About(s.u, r)
    <3>1. About(t.u, r) => \E n : n # "OPEN" /\ Has(t.u, n, r)
      BY Seen
    <3>2. \A n : n # "OPEN" /\ Has(t.u, n, r) => Has(s.u, n, r)
      BY Seen
    <3> QED BY <3>1, <3>2, Seen
  <2>2. /\ Has(t.u, "CONFIRM", r) => Has(s.u, "CONFIRM", r)
        /\ Has(t.u, "OPENFAIL", r) => Has(s.u, "OPENFAIL", r)
    BY Seen
  <2>3. \A a : ~Carries(t.d, "OPEN", r, a)
    BY <1>6 DEF ThereInv, Says, SameOpens
  <2>4. \A a : Carries(t.u, "CONFIRM", r, a) => a \in Ids
    BY <1>6 DEF ThereInv
  <2> QED BY <1>2, <1>6, <2>1, <2>2, <2>3, <2>4 DEF ThereInv
<1>9. PeerInv(t, r)
  BY <1>2, <1>3, <1>6 DEF PeerInv
<1> QED BY <1>2, <1>3, <1>4, <1>5, <1>7, <1>8, <1>9, CoreStep

\* The end goes: both sides have sent CLOSE.
LEMMA ServerDrops ==
  ASSUME NEW s, Core(s), NEW t, NEW r \in Ids, NEW i, s.sv[r].st = "open", s.sv[r].peer = i,
         Turns(s, t, r, NoEnd), Says(s, t, i, r),
         Fits(s, t, i, r),
         \A c \in Chans : Conv(i, r, c, s.u, s.sv[r], s.d) => "SENT_CLOSE" \in c.closes /\ Has(t.d, "CLOSE", i),
         ~About(t.u, r)
  PROVE  Core(t)
<1>1. /\ i \in Ids /\ s \in Conns
      /\ \A a : Links(s, i, a, r) => Conv(i, r, View(s.ch[i], a), s.u, s.sv[r], s.d)
  BY OpenEnd
<1>2. /\ Queues(t) /\ t.ch = s.ch /\ t.sv[r] = NoEnd /\ t.u \in Seq(Packets)
      /\ \A j : Has(t.u, "OPEN", j) <=> Has(s.u, "OPEN", j)
  BY ConnFields DEF Turns, Queues
<1>3. /\ \A a, q : Links(t, i, a, q) <=> Links(s, i, a, q)
      /\ \A q : Joined(t, i, q) <=> Joined(s, i, q)
      /\ HereInv(t, i)
      /\ \A a, q : Links(s, i, a, q) /\ q # r => Same(s.d, t.d, i)
  <2>1. t.ch = s.ch /\ \A j : Has(t.u, "OPEN", j) <=> Has(s.u, "OPEN", j)
    BY DEF Turns
  <2>2. /\ Core(s) /\ s.sv[r].st = "open" /\ s.sv[r].peer = i /\ Says(s, t, i, r) /\ r \in Ids
        /\ Fits(s, t, i, r)
    OBVIOUS
  <2> QED BY ONLY <2>1, <2>2, ServerHere
<1>4. Elsewhere(s, t, i, r)
  BY TurnsElsewhere
<1>5. t.sv[r].st = "none"
  BY <1>2, NoEndFields
<1>6. \A j : j # i => ~Paired(s, j, r) /\ ~Paired(t, j, r)
  BY <1>5 DEF Paired
<1>7. MeetInv(s, i) /\ ThereInv(s, r)
  BY <1>1 DEF Core
<1>8. MeetInv(t, i)
  <2> SUFFICES ASSUME NEW a, NEW q, Links(t, i, a, q)
               PROVE  Meets(t, i, a, q)
    BY DEF MeetInv
  <2>1. Links(s, i, a, q) /\ q \in Ids /\ s.ch[i] \in Chans /\ a \in Ids \X Nat
    BY <1>1, <1>3, LinksFields
  <2>2. CASE q = r
    <3>1. ~Paired(t, i, r)
      BY <1>5 DEF Paired
    <3>2. View(s.ch[i], a) \in Chans /\ View(s.ch[i], a).closes = s.ch[i].closes
      BY <2>1, ViewFields
    <3>3. "SENT_CLOSE" \in s.ch[i].closes /\ Has(t.d, "CLOSE", i)
      BY <1>1, <2>1, <2>2, <3>2
    <3> QED BY <1>2, <2>2, <3>1, <3>3 DEF Meets
  <2>3. CASE q # r
    <3>1. Meets(s, i, a, q) /\ Same(s.d, t.d, i)
      BY <1>3, <1>7, <2>1, <2>3 DEF MeetInv
    <3> QED BY <2>1, <2>3, <3>1, MeetsElse
  <2> QED BY <2>2, <2>3
<1>9. ThereInv(t, r)
  <2>1. /\ Dat(t.u, r) = 0 /\ Rsp(t.u, r) = 0
        /\ ~Has(t.u, "EOF", r) /\ ~Has(t.u, "DATA", r)
        /\ \A a : ~Carries(t.u, "EOF", r, a) /\ ~Carries(t.u, "CONFIRM", r, a)
    BY <1>2, Silent
  <2>2. \A a : ~Carries(t.d, "OPEN", r, a)
    BY <1>7 DEF ThereInv, Says, SameOpens
  <2>3. EndOK(NoEnd, t.u, r)
    BY <2>1, NoEndFields DEF EndOK, Asked
  <2> QED BY <1>2, <1>5, <2>1, <2>2, <2>3, NoEndFields DEF ThereInv
<1>10. PeerInv(t, r)
  BY <1>5 DEF PeerInv
<1> QED BY <1>2, <1>3, <1>4, <1>6, <1>8, <1>9, <1>10, CoreStep

-----------------------------------------------------------------------------
(* The server sends.                                                       *)

\* End r becomes e, n is sent to its channel.
Speaks(s, t, r, e, n) ==
  /\ Shaped(t) /\ t.ch = s.ch /\ t.sv = [s.sv EXCEPT ![r] = e] /\ t.u = s.u
  /\ t.d = Append(s.d, n)

\* A packet that end r sends before CLOSE is one Says allows.
LEMMA SpeaksSays ==
  ASSUME NEW s, Core(s), NEW t, NEW r \in Ids, NEW i, s.sv[r].st = "open", s.sv[r].peer = i,
         "SENT_CLOSE" \notin s.sv[r].closes, NEW e \in Ends, NEW n \in Packets, Speaks(s, t, r, e, n),
         n.id = i, n.type \in {"DATA", "ADJUST", "REQ", "RESP", "EOF", "CLOSE"},
         n.type = "REQ" => n.arg # "window-change"
  PROVE  /\ Turns(s, t, r, e) /\ Says(s, t, i, r) /\ Plus(t.d, s.d, n) /\ t.u = s.u
         /\ s.u \in Seq(Packets) /\ s.d \in Seq(Packets) /\ i \in Ids /\ s.sv[r] \in Ends
<1>1. /\ i \in Ids /\ s \in Conns /\ s.sv[r] \in Ends
      /\ ~Has(s.d, "OPENFAIL", i) /\ ~Has(s.d, "CLOSE", i)
  BY OpenEnd
<1>2. /\ s.u \in Seq(Packets) /\ s.d \in Seq(Packets) /\ Ord(s.u) /\ EofLast(s.u) /\ Ord(s.d)
      /\ s.ch \in [Ids -> Chans] /\ s.sv \in [Ids -> Ends]
  BY ConnFields DEF Core, Queues, Conns
<1>3. /\ Shaped(t) /\ t.ch = s.ch /\ t.sv = [s.sv EXCEPT ![r] = e] /\ t.u = s.u
      /\ t.d = Append(s.d, n)
  BY DEF Speaks
<1>4. t.sv \in [Ids -> Ends] /\ t.sv[r] = e /\ \A q \in Ids : q # r => t.sv[q] = s.sv[q]
  BY <1>2, <1>3
<1>5. t.d \in Seq(Packets) /\ Plus(t.d, s.d, n)
  BY <1>2, <1>3, AppendPlus
<1>6. Ord(t.d)
  <2>1. ~Has(s.d, "CLOSE", n.id) /\ ~Has(s.d, "OPENFAIL", n.id) /\ n.type # "OPEN" /\ n.type \notin {"CONFIRM", "OPENFAIL"}
    BY <1>1
  <2>2. Ord(Append(s.d, n))
    BY <1>2, <2>1, OrdAppend
  <2> QED BY <1>3, <2>2
<1>7. t \in Conns
  BY <1>2, <1>3, <1>4, <1>5, ShapedConn
<1>8. Turns(s, t, r, e)
  <2>1. Queues(t)
    BY <1>2, <1>3, <1>6, <1>7 DEF Queues
  <2> QED BY <1>3, <1>4, <2>1, SameSelf DEF Turns
<1>9. n.type # "OPEN" /\ n.type # "CONFIRM" /\ n.type # "OPENFAIL"
  OBVIOUS
<1>10. (\A j : j # i => Same(s.d, t.d, j)) /\ SameOpens(s.d, t.d)
  BY <1>2, <1>5, <1>9, PlusSame
<1>11. /\ \A a : Carries(t.d, "CONFIRM", i, a) <=> Carries(s.d, "CONFIRM", i, a)
       /\ Has(t.d, "CONFIRM", i) <=> Has(s.d, "CONFIRM", i)
       /\ Has(t.d, "OPENFAIL", i) <=> Has(s.d, "OPENFAIL", i)
       /\ Has(s.d, "CLOSE", i) => Has(t.d, "CLOSE", i)
       /\ About(s.d, i) => About(t.d, i)
       /\ \A a : Carries(t.d, "REQ", i, a) => Carries(s.d, "REQ", i, a) \/ a # "window-change"
  BY <1>5, <1>9 DEF Plus
<1>12. Says(s, t, i, r)
  BY <1>10, <1>11 DEF Says
<1> QED BY <1>1, <1>2, <1>3, <1>5, <1>8, <1>12

\* End e becomes f by sending n.
Moves(e, f, n) ==
  /\ f.st = e.st /\ f.peer = e.peer /\ f.got = e.got
  /\ f.sndwin = e.sndwin - (IF n.type = "DATA" THEN n.arg ELSE 0)
  /\ f.rcvwin = e.rcvwin + (IF n.type = "ADJUST" THEN n.arg ELSE 0)
  /\ Asked(f) = Asked(e) + (IF n.type = "REQ" THEN 1 ELSE 0)
  /\ "RCVD_EOF" \in f.closes <=> "RCVD_EOF" \in e.closes
  /\ "RCVD_CLOSE" \in f.closes <=> "RCVD_CLOSE" \in e.closes
  /\ "SENT_CLOSE" \in f.closes <=> "SENT_CLOSE" \in e.closes \/ n.type = "CLOSE"

\* The types of the fields of an end.
LEMMA EndFields ==
  ASSUME NEW e \in Ends
  PROVE  /\ e.sndwin \in Nat /\ e.rcvwin \in Nat /\ e.got \in Nat /\ e.tosend \in Nat
         /\ Asked(e) \in Nat /\ e.peer \in Ids
         /\ e.asked \in 0..2 /\ e.started \in BOOLEAN /\ e.closes \subseteq Closes
BY DEF Ends, Asked

\* The agreement survives a packet from the server.
LEMMA ConvSend ==
  ASSUME NEW i, NEW r, NEW c \in Chans, NEW u \in Seq(Packets), NEW e \in Ends, NEW f \in Ends,
         NEW d \in Seq(Packets), NEW b \in Seq(Packets), NEW n \in Packets,
         Conv(i, r, c, u, e, d), Plus(b, d, n), n.id = i, Moves(e, f, n),
         n.type \in {"DATA", "ADJUST", "REQ", "EOF", "CLOSE"}, n.type = "REQ" => n.arg # "window-change"
  PROVE  Conv(i, r, c, u, f, b)
<1> DEFINE x == IF n.type = "DATA" THEN n.arg ELSE 0
           y == IF n.type = "ADJUST" THEN n.arg ELSE 0
           z == IF n.type = "REQ" THEN 1 ELSE 0
<1>0. n.type \in {"DATA", "ADJUST", "EOF"} => n.arg \in Nat
  BY PacketFields
<1>1. x \in Nat /\ y \in Nat /\ z \in Nat
  BY <1>0
<1>2. /\ f.got = e.got /\ f.sndwin = e.sndwin - x /\ f.rcvwin = e.rcvwin + y /\ Asked(f) = Asked(e) + z
      /\ "RCVD_EOF" \in f.closes <=> "RCVD_EOF" \in e.closes
      /\ "RCVD_CLOSE" \in f.closes <=> "RCVD_CLOSE" \in e.closes
      /\ "SENT_CLOSE" \in f.closes <=> "SENT_CLOSE" \in e.closes \/ n.type = "CLOSE"
  BY DEF Moves
<1>3. /\ Dat(b, i) = Dat(d, i) + x /\ Adj(b, i) = Adj(d, i) + y /\ Rqs(b, i) = Rqs(d, i) + z
      /\ Rsp(b, i) = Rsp(d, i) + 0
      /\ Has(b, "CLOSE", i) <=> Has(d, "CLOSE", i) \/ n.type = "CLOSE"
  BY DEF Plus
<1>4. /\ Dat(d, i) \in Nat /\ Adj(d, i) \in Nat /\ Rqs(d, i) \in Nat /\ Rsp(d, i) \in Nat
      /\ Dat(u, r) \in Nat /\ Adj(u, r) \in Nat /\ Rqs(u, r) \in Nat /\ Rsp(u, r) \in Nat
  BY Sums
<1>5. /\ e.sndwin \in Nat /\ e.rcvwin \in Nat /\ e.got \in Nat /\ Asked(e) \in Nat
      /\ c.locwindow \in Nat /\ c.remwindow \in Nat /\ c.outbuffer \in Nat /\ c.written \in Nat /\ Waits(c) \in Nat
  BY EndFields, ChanFields
<1> HIDE DEF x, y, z
<1>6. Windows(i, r, c, u, f, b)
  <2>1. Windows(i, r, c, u, e, d)
    BY DEF Conv
  <2>2. f.sndwin + Adj(u, r) + Dat(b, i) = e.sndwin + Adj(u, r) + Dat(d, i)
    <3>1. /\ f.sndwin = e.sndwin - x /\ Dat(b, i) = Dat(d, i) + x /\ x \in Nat /\ e.sndwin \in Nat
          /\ Adj(u, r) \in Nat /\ Dat(d, i) \in Nat
      BY <1>1, <1>2, <1>3, <1>4, <1>5
    <3> QED BY ONLY <3>1
  <2>3. e.rcvwin = c.remwindow + Dat(u, r) + Adj(d, i) => f.rcvwin = c.remwindow + Dat(u, r) + Adj(b, i)
    <3>1. /\ f.rcvwin = e.rcvwin + y /\ Adj(b, i) = Adj(d, i) + y /\ y \in Nat /\ e.rcvwin \in Nat
          /\ Dat(u, r) \in Nat /\ Adj(d, i) \in Nat /\ c.remwindow \in Nat
      BY <1>1, <1>2, <1>3, <1>4, <1>5
    <3> QED BY ONLY <3>1
  <2> QED BY <2>1, <2>2, <2>3 DEF Windows
<1>7. Streams(r, c, u, f)
  <2>1. Streams(r, c, u, e)
    BY DEF Conv
  <2> QED BY <1>2, <2>1 DEF Streams
<1>8. Replies(i, r, c, u, f, b)
  <2>1. Replies(i, r, c, u, e, d)
    BY DEF Conv
  <2>2. Rsp(b, i) = Rsp(d, i)
    BY <1>3, <1>4
  <2>3. Rsp(u, r) + Rqs(d, i) = Asked(e) => Rsp(u, r) + Rqs(b, i) = Asked(f)
    BY <1>1, <1>2, <1>3, <1>4, <1>5
  <2> QED BY <1>2, <2>1, <2>2, <2>3 DEF Replies
<1>9. Closings(i, r, c, u, f, b)
  <2>1. Closings(i, r, c, u, e, d)
    BY DEF Conv
  <2> QED BY <1>2, <1>3, <2>1 DEF Closings
<1> QED BY <1>6, <1>7, <1>8, <1>9 DEF Conv

\* The channel expects a packet the server may send.
LEMMA SpeaksFits ==
  ASSUME NEW s, NEW t, NEW i, NEW r, NEW n \in Packets, s.u \in Seq(Packets), s.d \in Seq(Packets),
         s.sv[r] \in Ends, Plus(t.d, s.d, n), n.id = i,
         n.type \in {"DATA", "ADJUST", "REQ", "EOF", "CLOSE"},
         n.type = "DATA" => n.arg <= s.sv[r].sndwin
  PROVE  Fits(s, t, i, r)
<1> DEFINE d == s.d
           u == s.u
           e == s.sv[r]
           b == t.d
           x == IF n.type = "DATA" THEN n.arg ELSE 0
<1>0. n.type \in {"DATA", "ADJUST", "EOF"} => n.arg \in Nat
  BY PacketFields
<1>1. e.sndwin \in Nat
  BY EndFields
<1>2. x \in Nat /\ x <= e.sndwin
  BY <1>0, <1>1
<1>3. Dat(b, i) = Dat(d, i) + x /\ Rsp(b, i) = Rsp(d, i) + 0
  BY DEF Plus
<1>4. Dat(d, i) \in Nat /\ Rsp(d, i) \in Nat /\ Adj(u, r) \in Nat
  BY Sums
<1> HIDE DEF d, u, e, b, x
<1>5. ASSUME NEW c \in Chans, Conv(i, r, c, u, e, d), Expects(c, d, i)
      PROVE  Expects(c, b, i)
  <2>1. c.locwindow = e.sndwin + Adj(u, r) + Dat(d, i)
    BY <1>5 DEF Conv, Windows
  <2>2. c.locwindow \in Nat
    BY ChanFields
  <2>3. Dat(b, i) <= c.locwindow
    BY <1>1, <1>2, <1>3, <1>4, <2>1, <2>2
  <2>4. Rsp(b, i) = Rsp(d, i)
    BY <1>3, <1>4
  <2> QED BY <1>5, <2>3, <2>4 DEF Expects
<1> QED BY <1>5 DEF Fits, d, u, e, b

\* A packet the server sends on its own keeps Core.
LEMMA SpeaksCore ==
  ASSUME NEW s, Core(s), NEW t, NEW r \in Ids, NEW i, s.sv[r].st = "open", s.sv[r].peer = i,
         "SENT_CLOSE" \notin s.sv[r].closes, NEW f \in Ends, NEW n \in Packets, Speaks(s, t, r, f, n),
         n.id = i, n.type \in {"DATA", "ADJUST", "REQ", "EOF", "CLOSE"},
         n.type = "REQ" => n.arg # "window-change", n.type = "DATA" => n.arg <= s.sv[r].sndwin,
         n.type = "CLOSE" => "RCVD_CLOSE" \notin s.sv[r].closes, Moves(s.sv[r], f, n)
  PROVE  Core(t)
<1> DEFINE e == s.sv[r]
<1>0. n.type \in {"DATA", "ADJUST", "REQ", "RESP", "EOF", "CLOSE"}
  OBVIOUS
<1>1. /\ Turns(s, t, r, f) /\ Says(s, t, i, r) /\ Plus(t.d, s.d, n) /\ t.u = s.u
      /\ s.u \in Seq(Packets) /\ s.d \in Seq(Packets) /\ i \in Ids /\ e \in Ends
  BY <1>0, SpeaksSays
<1>2. Fits(s, t, i, r)
  BY <1>1, SpeaksFits
<1>3. t.d \in Seq(Packets)
  BY <1>1, ConnFields DEF Turns, Queues
<1>4. ASSUME NEW c \in Chans, Conv(i, r, c, s.u, s.sv[r], s.d)
      PROVE  Conv(i, r, c, t.u, f, t.d)
  <2>1. Conv(i, r, c, s.u, f, t.d)
    BY <1>1, <1>3, <1>4, ConvSend
  <2> QED BY <1>1, <2>1
<1>5. ThereInv(s, r)
  BY DEF Core
<1>6. EndOK(f, t.u, r)
  <2>1. EndOK(e, s.u, r)
    BY <1>5 DEF ThereInv
  <2>2. /\ e.rcvwin \in Nat /\ f.rcvwin \in Nat /\ Asked(e) \in Nat /\ Asked(f) \in Nat
        /\ Dat(s.u, r) \in Nat /\ Rsp(s.u, r) \in Nat
    BY <1>1, EndFields, Sums
  <2>3. e.rcvwin <= f.rcvwin /\ Asked(e) <= Asked(f)
    <3>1. n.type \in {"DATA", "ADJUST", "EOF"} => n.arg \in Nat
      BY PacketFields
    <3>2. /\ f.rcvwin = e.rcvwin + (IF n.type = "ADJUST" THEN n.arg ELSE 0)
          /\ Asked(f) = Asked(e) + (IF n.type = "REQ" THEN 1 ELSE 0)
      BY DEF Moves
    <3> QED BY <2>2, <3>1, <3>2
  <2>4. Dat(s.u, r) <= f.rcvwin /\ Rsp(s.u, r) <= Asked(f)
    <3>1. Dat(s.u, r) <= e.rcvwin /\ Rsp(s.u, r) <= Asked(e)
      BY <2>1 DEF EndOK
    <3> QED BY <2>2, <2>3, <3>1
  <2>5. EndOK(f, s.u, r)
    BY <2>1, <2>4 DEF EndOK, Moves
  <2> QED BY <1>1, <2>5
<1>7. "RCVD_CLOSE" \in f.closes => ~About(t.u, r) /\ "SENT_CLOSE" \notin f.closes
  BY <1>1, <1>5 DEF ThereInv, Moves
<1>8. f.st = "open" /\ f.peer = i
  BY DEF Moves
<1>9. \A x, a : x # "OPEN" /\ Carries(t.u, x, r, a) => Carries(s.u, x, r, a)
  BY <1>1
<1> QED BY <1>1, <1>2, <1>4, <1>6, <1>7, <1>8, <1>9, ServerKeeps

\* CLOSE, when the client's has come.
LEMMA SpeaksLast ==
  ASSUME NEW s, Core(s), NEW t, NEW r \in Ids, NEW i, s.sv[r].st = "open", s.sv[r].peer = i,
         "SENT_CLOSE" \notin s.sv[r].closes, NEW n \in Packets, Speaks(s, t, r, NoEnd, n),
         n.id = i, n.type = "CLOSE", "RCVD_CLOSE" \in s.sv[r].closes
  PROVE  Core(t)
<1> DEFINE e == s.sv[r]
<1>0. n.type \in {"DATA", "ADJUST", "REQ", "RESP", "EOF", "CLOSE"} /\ n.type # "REQ" /\ n.type # "DATA"
      /\ n.type \in {"DATA", "ADJUST", "REQ", "EOF", "CLOSE"}
  OBVIOUS
<1>1. /\ Turns(s, t, r, NoEnd) /\ Says(s, t, i, r) /\ Plus(t.d, s.d, n) /\ t.u = s.u
      /\ s.u \in Seq(Packets) /\ s.d \in Seq(Packets) /\ i \in Ids /\ e \in Ends
  BY <1>0, SpeaksSays, NoEndFields
<1>2. Fits(s, t, i, r)
  BY <1>0, <1>1, SpeaksFits
<1>3. Has(t.d, "CLOSE", i)
  BY <1>1 DEF Plus
<1>4. \A c \in Chans : Conv(i, r, c, s.u, s.sv[r], s.d) => "SENT_CLOSE" \in c.closes /\ Has(t.d, "CLOSE", i)
  BY <1>3 DEF Conv, Closings
<1>5. ThereInv(s, r)
  BY DEF Core
<1>6. ~About(t.u, r)
  BY <1>1, <1>5 DEF ThereInv
<1> QED BY <1>1, <1>2, <1>4, <1>6, ServerDrops

-----------------------------------------------------------------------------
(* The server takes packets.                                               *)

\* m is taken from the queue to the server, which leaves v.
Received(s, m, v) ==
  /\ m \in Packets /\ m.id \in Ids /\ v \in Seq(Packets) /\ Plus(s.u, v, m) /\ Ord(v) /\ EofLast(v)
  /\ m.type \in {"CLOSE", "OPENFAIL"} => ~About(v, m.id)
  /\ m.type = "EOF" => ~Has(v, "DATA", m.id) /\ ~Has(v, "EOF", m.id)
  /\ m.type # "OPEN" => ~Has(v, "CONFIRM", m.id) /\ ~Has(v, "OPENFAIL", m.id)

\* The first packet to the server is one Received describes.
LEMMA TakeReceived ==
  ASSUME NEW s, Core(s), s.u # <<>>
  PROVE  Received(s, Head(s.u), Tail(s.u))
<1> DEFINE q == s.u
<1>1. q \in Seq(Packets) /\ Ord(q) /\ EofLast(q) /\ q # <<>>
  BY ConnFields DEF Core, Queues
<1>2. Head(q) \in Packets /\ Tail(q) \in Seq(Packets) /\ Plus(q, Tail(q), Head(q))
  BY <1>1, TailPlus
<1>3. Head(q).id \in Ids
  BY <1>2, PacketFields
<1>4. /\ Ord(Tail(q))
      /\ Head(q).type # "OPEN" => /\ ~Has(Tail(q), "CONFIRM", Head(q).id)
                                  /\ ~Has(Tail(q), "OPENFAIL", Head(q).id)
      /\ Head(q).type \in {"CLOSE", "OPENFAIL"} => ~About(Tail(q), Head(q).id)
  BY <1>1, HeadOrd
<1>5. /\ EofLast(Tail(q))
      /\ Head(q).type = "EOF" => ~Has(Tail(q), "DATA", Head(q).id) /\ ~Has(Tail(q), "EOF", Head(q).id)
  BY <1>1, HeadEof
<1> QED BY ONLY <1>2, <1>3, <1>4, <1>5 DEF Received

\* The end is open, and what it gets is no surprise to it.
LEMMA ReceivedLegal ==
  ASSUME NEW s, Core(s), NEW m, NEW v, Received(s, m, v), NEW r, r = m.id,
         m.type \in {"DATA", "ADJUST", "REQ", "RESP", "EOF", "CLOSE"}
  PROVE  /\ s.sv[r].st = "open" /\ "RCVD_CLOSE" \notin s.sv[r].closes
         /\ m.type = "DATA" => "RCVD_EOF" \notin s.sv[r].closes /\ m.arg <= s.sv[r].rcvwin
         /\ m.type = "EOF" => "RCVD_EOF" \notin s.sv[r].closes
         /\ m.type = "RESP" => s.sv[r].asked = 1
         /\ m.type = "EOF" => "SENT_CLOSE" \in s.sv[r].closes \/ s.sv[r].got = m.arg
<1> DEFINE e == s.sv[r]
<1>1. /\ r \in Ids /\ m \in Packets /\ v \in Seq(Packets) /\ Plus(s.u, v, m)
      /\ m.type = "EOF" => ~Has(v, "DATA", r) /\ ~Has(v, "EOF", r)
      /\ ~Has(v, "CONFIRM", r) /\ ~Has(v, "OPENFAIL", r)
  BY DEF Received
<1>2. ThereInv(s, r) /\ e \in Ends
  BY <1>1, ConnFields DEF Core, Queues
<1>3. m.id = r
  OBVIOUS
<1>4. About(s.u, r) /\ ~Has(s.u, "CONFIRM", r) /\ ~Has(s.u, "OPENFAIL", r)
  BY <1>1, <1>3 DEF Plus
<1>5. e.st = "open" /\ "RCVD_CLOSE" \notin e.closes
  BY <1>2, <1>4 DEF ThereInv
<1>6. EndOK(e, s.u, r)
  BY <1>2 DEF ThereInv
<1>7. /\ Dat(v, r) \in Nat /\ Rsp(v, r) \in Nat /\ e.rcvwin \in Nat /\ e.got \in Nat /\ e.asked \in 0..2
      /\ m.type = "EOF" => Dat(v, r) = 0
  BY <1>1, <1>2, Sums, EndFields
<1>8. ASSUME m.type = "DATA"
      PROVE  "RCVD_EOF" \notin e.closes /\ m.arg <= e.rcvwin
  <2>1. m.arg \in Nat
    BY <1>1, <1>8, PacketFields
  <2>2. Dat(s.u, r) = Dat(v, r) + m.arg /\ Has(s.u, "DATA", r)
    BY <1>1, <1>3, <1>8 DEF Plus
  <2>3. Dat(s.u, r) <= e.rcvwin /\ "RCVD_EOF" \notin e.closes
    BY <1>6, <2>2 DEF EndOK
  <2> QED BY <1>7, <2>1, <2>2, <2>3
<1>9. ASSUME m.type = "EOF"
      PROVE  "RCVD_EOF" \notin e.closes /\ ("SENT_CLOSE" \in e.closes \/ e.got = m.arg)
  <2>1. Carries(s.u, "EOF", r, m.arg) /\ Has(s.u, "EOF", r) /\ Dat(s.u, r) = Dat(v, r) + 0
    BY <1>1, <1>3, <1>9 DEF Plus
  <2>2. "RCVD_EOF" \notin e.closes /\ ("SENT_CLOSE" \in e.closes \/ e.got + Dat(s.u, r) = m.arg)
    BY <1>6, <2>1 DEF EndOK
  <2>3. e.got + Dat(s.u, r) = e.got
    BY <1>7, <1>9, <2>1
  <2> QED BY <2>2, <2>3
<1>10. ASSUME m.type = "RESP"
       PROVE  e.asked = 1
  <2>1. Rsp(s.u, r) = Rsp(v, r) + 1
    BY <1>1, <1>3, <1>10 DEF Plus
  <2>2. Rsp(s.u, r) <= Asked(e)
    BY <1>6 DEF EndOK
  <2> QED BY <1>7, <2>1, <2>2 DEF Asked
<1> QED BY <1>5, <1>8, <1>9, <1>10

\* End e becomes f by taking m.
Becomes(e, f, m) ==
  /\ f.st = e.st /\ f.peer = e.peer
  /\ f.got = e.got + (IF m.type = "DATA" THEN m.arg ELSE 0)
  /\ f.rcvwin = e.rcvwin - (IF m.type = "DATA" THEN m.arg ELSE 0)
  /\ f.sndwin = e.sndwin + (IF m.type = "ADJUST" THEN m.arg ELSE 0)
  /\ Asked(f) = Asked(e) - (IF m.type = "RESP" THEN 1 ELSE 0)
  /\ "RCVD_EOF" \in f.closes <=> "RCVD_EOF" \in e.closes \/ m.type \in {"EOF", "CLOSE"}
  /\ "RCVD_CLOSE" \in f.closes <=> "RCVD_CLOSE" \in e.closes \/ m.type = "CLOSE"
  /\ "SENT_CLOSE" \in f.closes <=> "SENT_CLOSE" \in e.closes

\* b is d with the answer to request m, if one is due.
Replied(i, d, b, e, m) ==
  /\ Dat(b, i) = Dat(d, i) /\ Adj(b, i) = Adj(d, i) /\ Rqs(b, i) = Rqs(d, i)
  /\ Has(b, "CLOSE", i) <=> Has(d, "CLOSE", i)
  /\ "SENT_CLOSE" \notin e.closes =>
       Rsp(b, i) = Rsp(d, i) + (IF m.type = "REQ" /\ m.arg # "window-change" THEN 1 ELSE 0)

\* The agreement survives the taking of a packet by the server.
LEMMA ConvReceive ==
  ASSUME NEW i, NEW r, NEW c \in Chans, NEW u \in Seq(Packets), NEW v \in Seq(Packets),
         NEW e \in Ends, NEW f \in Ends, NEW d \in Seq(Packets), NEW b \in Seq(Packets), NEW m \in Packets,
         Conv(i, r, c, u, e, d), ClosedLast(c), Plus(u, v, m), m.id = r, Becomes(e, f, m), Replied(i, d, b, e, m),
         m.type \in {"DATA", "ADJUST", "REQ", "RESP", "EOF", "CLOSE"}
  PROVE  Conv(i, r, c, v, f, b)
<1> DEFINE x == IF m.type = "DATA" THEN m.arg ELSE 0
           y == IF m.type = "ADJUST" THEN m.arg ELSE 0
           z == IF m.type = "RESP" THEN 1 ELSE 0
           w == IF m.type = "REQ" /\ m.arg # "window-change" THEN 1 ELSE 0
<1>0. m.type \in {"DATA", "ADJUST", "EOF"} => m.arg \in Nat
  BY PacketFields
<1>1. x \in Nat /\ y \in Nat /\ z \in Nat /\ w \in Nat
  BY <1>0
<1>2. /\ f.got = e.got + x /\ f.rcvwin = e.rcvwin - x /\ f.sndwin = e.sndwin + y /\ Asked(f) = Asked(e) - z
  BY DEF Becomes
<1>3. /\ "RCVD_EOF" \in f.closes <=> "RCVD_EOF" \in e.closes \/ m.type \in {"EOF", "CLOSE"}
      /\ "RCVD_CLOSE" \in f.closes <=> "RCVD_CLOSE" \in e.closes \/ m.type = "CLOSE"
      /\ "SENT_CLOSE" \in f.closes <=> "SENT_CLOSE" \in e.closes
  BY DEF Becomes
<1>4. /\ Dat(u, r) = Dat(v, r) + x /\ Adj(u, r) = Adj(v, r) + y /\ Rsp(u, r) = Rsp(v, r) + z
      /\ Rqs(u, r) = Rqs(v, r) + w
  BY DEF Plus
<1>5. /\ Has(u, "CLOSE", r) <=> Has(v, "CLOSE", r) \/ m.type = "CLOSE"
      /\ Has(u, "EOF", r) <=> Has(v, "EOF", r) \/ m.type = "EOF"
  BY DEF Plus
<1>6. /\ Dat(b, i) = Dat(d, i) /\ Adj(b, i) = Adj(d, i) /\ Rqs(b, i) = Rqs(d, i)
      /\ Has(b, "CLOSE", i) <=> Has(d, "CLOSE", i)
      /\ "SENT_CLOSE" \notin e.closes => Rsp(b, i) = Rsp(d, i) + w
  BY DEF Replied
<1>7. /\ Dat(d, i) \in Nat /\ Adj(d, i) \in Nat /\ Rqs(d, i) \in Nat /\ Rsp(d, i) \in Nat
      /\ Dat(v, r) \in Nat /\ Adj(v, r) \in Nat /\ Rqs(v, r) \in Nat /\ Rsp(v, r) \in Nat
  BY Sums
<1>8. /\ e.sndwin \in Nat /\ e.rcvwin \in Nat /\ e.got \in Nat /\ Asked(e) \in Nat
      /\ c.locwindow \in Nat /\ c.remwindow \in Nat /\ c.outbuffer \in Nat /\ c.written \in Nat /\ Waits(c) \in Nat
  BY EndFields, ChanFields
<1> HIDE DEF x, y, z, w
<1>9. Windows(i, r, c, v, f, b)
  <2>1. Windows(i, r, c, u, e, d)
    BY DEF Conv
  <2>2. f.sndwin + Adj(v, r) + Dat(b, i) = e.sndwin + Adj(u, r) + Dat(d, i)
    <3>1. /\ f.sndwin = e.sndwin + y /\ Adj(u, r) = Adj(v, r) + y /\ Dat(b, i) = Dat(d, i) /\ y \in Nat
          /\ e.sndwin \in Nat /\ Adj(v, r) \in Nat /\ Dat(d, i) \in Nat
      BY <1>1, <1>2, <1>4, <1>6, <1>7, <1>8
    <3> QED BY ONLY <3>1
  <2>3. e.rcvwin = c.remwindow + Dat(u, r) + Adj(d, i) => f.rcvwin = c.remwindow + Dat(v, r) + Adj(b, i)
    <3>1. /\ f.rcvwin = e.rcvwin - x /\ Dat(u, r) = Dat(v, r) + x /\ Adj(b, i) = Adj(d, i) /\ x \in Nat
          /\ e.rcvwin \in Nat /\ Dat(v, r) \in Nat /\ Adj(d, i) \in Nat /\ c.remwindow \in Nat
      BY <1>1, <1>2, <1>4, <1>6, <1>7, <1>8
    <3> QED BY ONLY <3>1
  <2> QED BY <2>1, <2>2, <2>3 DEF Windows
<1>10. Closings(i, r, c, u, e, d)
  BY DEF Conv
<1>11. Streams(r, c, v, f)
  <2>1. Streams(r, c, u, e)
    BY DEF Conv
  <2>2. f.got + Dat(v, r) + c.outbuffer = e.got + Dat(u, r) + c.outbuffer
    <3>1. /\ f.got = e.got + x /\ Dat(u, r) = Dat(v, r) + x /\ x \in Nat
          /\ e.got \in Nat /\ Dat(v, r) \in Nat /\ c.outbuffer \in Nat
      BY <1>1, <1>2, <1>4, <1>7, <1>8
    <3> QED BY ONLY <3>1
  <2>3. "SENT_EOF" \notin c.closes => ~Has(v, "EOF", r) /\ "RCVD_EOF" \notin f.closes
    <3> SUFFICES ASSUME "SENT_EOF" \notin c.closes
                 PROVE  ~Has(v, "EOF", r) /\ "RCVD_EOF" \notin f.closes
      OBVIOUS
    <3>1. ~Has(u, "EOF", r) /\ "RCVD_EOF" \notin e.closes
      BY <2>1 DEF Streams
    <3>2. "SENT_CLOSE" \notin c.closes
      BY DEF ClosedLast
    <3>3. m.type # "CLOSE"
      BY <1>5, <1>10, <3>2 DEF Closings
    <3> QED BY <1>3, <1>5, <3>1, <3>3
  <2> QED BY <1>3, <2>1, <2>2, <2>3 DEF Streams
<1>12. Replies(i, r, c, v, f, b)
  <2>1. Replies(i, r, c, u, e, d)
    BY DEF Conv
  <2>2. "SENT_CLOSE" \notin e.closes => Rsp(b, i) + Rqs(v, r) = Rsp(d, i) + Rqs(u, r)
    <3>1. /\ Rqs(u, r) = Rqs(v, r) + w /\ w \in Nat /\ Rqs(v, r) \in Nat /\ Rsp(d, i) \in Nat
          /\ "SENT_CLOSE" \notin e.closes => Rsp(b, i) = Rsp(d, i) + w
      BY <1>1, <1>4, <1>6, <1>7
    <3> QED BY ONLY <3>1
  <2>3. Rsp(u, r) + Rqs(d, i) = Asked(e) => Rsp(v, r) + Rqs(b, i) = Asked(f)
    <3>1. /\ Rsp(u, r) = Rsp(v, r) + z /\ Rqs(b, i) = Rqs(d, i) /\ Asked(f) = Asked(e) - z
          /\ z \in Nat /\ Rsp(v, r) \in Nat /\ Rqs(d, i) \in Nat /\ Asked(e) \in Nat
      BY <1>1, <1>2, <1>4, <1>6, <1>7, <1>8
    <3> QED BY ONLY <3>1
  <2> QED BY <1>3, <2>1, <2>2, <2>3 DEF Replies
<1>13. Closings(i, r, c, v, f, b)
  BY <1>3, <1>5, <1>6, <1>10 DEF Closings
<1> QED BY <1>9, <1>11, <1>12, <1>13 DEF Conv

\* So does what holds of the end itself: EOF comes with all the data.
LEMMA EndOKReceive ==
  ASSUME NEW r, NEW u \in Seq(Packets), NEW v \in Seq(Packets), NEW e \in Ends, NEW f \in Ends,
         NEW m \in Packets, EndOK(e, u, r), Plus(u, v, m), m.id = r, Becomes(e, f, m),
         m.type \in {"DATA", "ADJUST", "REQ", "RESP", "EOF", "CLOSE"},
         m.type = "CLOSE" => ~About(v, r),
         m.type = "EOF" => ~Has(v, "DATA", r) /\ ~Has(v, "EOF", r)
  PROVE  EndOK(f, v, r)
<1> DEFINE x == IF m.type = "DATA" THEN m.arg ELSE 0
           z == IF m.type = "RESP" THEN 1 ELSE 0
<1>0. m.type \in {"DATA", "ADJUST", "EOF"} => m.arg \in Nat
  BY PacketFields
<1>1. x \in Nat /\ z \in Nat
  BY <1>0
<1>2. /\ f.got = e.got + x /\ f.rcvwin = e.rcvwin - x /\ Asked(f) = Asked(e) - z
      /\ "RCVD_EOF" \in f.closes <=> "RCVD_EOF" \in e.closes \/ m.type \in {"EOF", "CLOSE"}
      /\ "SENT_CLOSE" \in f.closes <=> "SENT_CLOSE" \in e.closes
  BY DEF Becomes
<1>3. /\ Dat(u, r) = Dat(v, r) + x /\ Rsp(u, r) = Rsp(v, r) + z
      /\ Has(v, "EOF", r) => Has(u, "EOF", r)
      /\ Has(v, "DATA", r) => Has(u, "DATA", r)
      /\ \A a : Carries(v, "EOF", r, a) => Carries(u, "EOF", r, a)
  BY DEF Plus
<1>4. /\ Dat(v, r) \in Nat /\ Rsp(v, r) \in Nat /\ e.rcvwin \in Nat /\ e.got \in Nat /\ Asked(e) \in Nat
  BY Sums, EndFields
<1>5. m.type \in {"EOF", "CLOSE"} => ~Has(v, "EOF", r) /\ ~Has(v, "DATA", r)
  BY Seen
<1> HIDE DEF x, z
<1>6. Dat(u, r) <= e.rcvwin /\ Rsp(u, r) <= Asked(e)
  BY DEF EndOK
<1>7. Dat(v, r) <= f.rcvwin /\ Rsp(v, r) <= Asked(f)
  BY <1>1, <1>2, <1>3, <1>4, <1>6
<1>8. f.got + Dat(v, r) = e.got + Dat(u, r)
  BY <1>1, <1>2, <1>3, <1>4
<1>9. Has(v, "EOF", r) \/ Has(v, "DATA", r) => "RCVD_EOF" \notin f.closes
  BY <1>2, <1>3, <1>5 DEF EndOK
<1>10. \A a : Carries(v, "EOF", r, a) => "SENT_CLOSE" \in f.closes \/ f.got + Dat(v, r) = a
  BY <1>2, <1>3, <1>8 DEF EndOK
<1> QED BY <1>7, <1>9, <1>10 DEF EndOK

\* The server takes the first packet, which makes f of end r, and the packets to us are d.
Hears(s, t, r, f, d) ==
  /\ Shaped(t) /\ t.ch = s.ch /\ t.sv = [s.sv EXCEPT ![r] = f] /\ t.u = Tail(s.u) /\ t.d = d

\* The taking of a packet by end r is one of its steps.
LEMMA HearsTurns ==
  ASSUME NEW s, Core(s), NEW t, NEW r \in Ids, NEW m, Received(s, m, Tail(s.u)), m.id = r, m.type # "OPEN",
         NEW f \in Ends, NEW d \in Seq(Packets), Ord(d), Hears(s, t, r, f, d)
  PROVE  /\ Turns(s, t, r, f) /\ Plus(s.u, t.u, m) /\ t.d = d /\ t.u = Tail(s.u)
         /\ s.u \in Seq(Packets) /\ t.u \in Seq(Packets) /\ s.d \in Seq(Packets)
<1> DEFINE v == Tail(s.u)
<1>1. m \in Packets /\ v \in Seq(Packets) /\ Plus(s.u, v, m) /\ Ord(v) /\ EofLast(v)
  BY DEF Received
<1>2. /\ s.u \in Seq(Packets) /\ s.d \in Seq(Packets)
      /\ s.ch \in [Ids -> Chans] /\ s.sv \in [Ids -> Ends]
  BY ConnFields DEF Core, Queues, Conns
<1>3. /\ Shaped(t) /\ t.ch = s.ch /\ t.sv = [s.sv EXCEPT ![r] = f] /\ t.u = v /\ t.d = d
  BY DEF Hears
<1> HIDE DEF v
<1>4. t.sv \in [Ids -> Ends] /\ t.sv[r] = f /\ \A q \in Ids : q # r => t.sv[q] = s.sv[q]
  BY <1>2, <1>3
<1>5. t \in Conns
  BY <1>1, <1>2, <1>3, <1>4, ShapedConn
<1>6. Queues(t)
  BY <1>1, <1>3, <1>5 DEF Queues
<1>7. /\ \A q : q # r => Same(v, s.u, q)
      /\ SameOpens(v, s.u)
  BY <1>1, <1>2, PlusSame
<1>8. /\ \A q : q # r => Same(s.u, v, q)
      /\ \A j : Has(v, "OPEN", j) <=> Has(s.u, "OPEN", j)
  BY <1>7 DEF Same, SameOpens
<1>9. Turns(s, t, r, f)
  BY <1>3, <1>4, <1>6, <1>8 DEF Turns
<1> QED BY <1>1, <1>2, <1>3, <1>9 DEF v

\* A step that says nothing.
LEMMA QuietSays ==
  ASSUME NEW s, NEW t, NEW i, NEW r, t.d = s.d
  PROVE  Says(s, t, i, r) /\ Fits(s, t, i, r)
BY SameSelf DEF Says, Fits

\* A packet of an open channel that the server takes keeps Core.
LEMMA HearsKeeps ==
  ASSUME NEW s, Core(s), NEW t, NEW r \in Ids, NEW i, s.sv[r].st = "open", s.sv[r].peer = i,
         NEW m, Received(s, m, Tail(s.u)), m.id = r,
         m.type \in {"DATA", "ADJUST", "REQ", "RESP", "EOF", "CLOSE"},
         m.type = "CLOSE" => "SENT_CLOSE" \notin s.sv[r].closes,
         NEW f \in Ends, Turns(s, t, r, f), t.u = Tail(s.u), Says(s, t, i, r), Fits(s, t, i, r),
         Becomes(s.sv[r], f, m), Replied(i, s.d, t.d, s.sv[r], m)
  PROVE  Core(t)
<1> DEFINE e == s.sv[r]
           v == Tail(s.u)
<1>1. /\ m \in Packets /\ v \in Seq(Packets) /\ Plus(s.u, v, m)
      /\ m.type = "CLOSE" => ~About(v, r)
      /\ m.type = "EOF" => ~Has(v, "DATA", r) /\ ~Has(v, "EOF", r)
  BY DEF Received
<1>2. /\ s.u \in Seq(Packets) /\ s.d \in Seq(Packets) /\ t.d \in Seq(Packets) /\ e \in Ends
  BY ConnFields DEF Core, Queues, Turns
<1>3. "RCVD_CLOSE" \notin e.closes
  BY ReceivedLegal
<1>4. t.u = v
  OBVIOUS
<1> HIDE DEF v
<1>5. ASSUME NEW c \in Chans, Conv(i, r, c, s.u, s.sv[r], s.d), ClosedLast(c)
      PROVE  Conv(i, r, c, t.u, f, t.d)
  <2>1. Conv(i, r, c, v, f, t.d)
    BY <1>1, <1>2, <1>5, ConvReceive
  <2> QED BY <1>4, <2>1
<1>6. ThereInv(s, r)
  BY DEF Core
<1>7. EndOK(f, t.u, r)
  <2>1. EndOK(f, v, r)
    BY <1>1, <1>2, <1>6, EndOKReceive DEF ThereInv
  <2> QED BY <1>4, <2>1
<1>8. "RCVD_CLOSE" \in f.closes => ~About(t.u, r) /\ "SENT_CLOSE" \notin f.closes
  BY <1>1, <1>3, <1>4 DEF Becomes
<1>9. f.st = "open" /\ f.peer = i
  BY DEF Becomes
<1>10. \A n, a : n # "OPEN" /\ Carries(t.u, n, r, a) => Carries(s.u, n, r, a)
  BY <1>1, <1>4 DEF Plus
<1>11. "SENT_CLOSE" \in e.closes /\ Has(s.u, "CLOSE", r) => "SENT_CLOSE" \in f.closes /\ Has(t.u, "CLOSE", r)
  <2>1. m.type # "CLOSE" => (Has(s.u, "CLOSE", r) => Has(v, "CLOSE", r))
    BY <1>1 DEF Plus
  <2> QED BY <1>4, <2>1 DEF Becomes
<1> QED BY <1>5, <1>7, <1>8, <1>9, <1>10, <1>11, ServerKeeps

\* Every packet but a request that is answered, and CLOSE when the server's was sent.
LEMMA HearsCore ==
  ASSUME NEW s, Core(s), NEW t, NEW r \in Ids,
         NEW m, Received(s, m, Tail(s.u)), m.id = r,
         m.type \in {"DATA", "ADJUST", "REQ", "RESP", "EOF", "CLOSE"},
         m.type = "CLOSE" => "SENT_CLOSE" \notin s.sv[r].closes,
         m.type = "REQ" => m.arg = "window-change" \/ "SENT_CLOSE" \in s.sv[r].closes,
         NEW f \in Ends, Hears(s, t, r, f, s.d), Becomes(s.sv[r], f, m)
  PROVE  Core(t)
<1> DEFINE i == s.sv[r].peer
<1>1. s.sv[r].st = "open"
  BY ReceivedLegal
<1>2. s.d \in Seq(Packets) /\ Ord(s.d)
  BY ConnFields DEF Core, Queues
<1>3. Turns(s, t, r, f) /\ t.d = s.d /\ t.u = Tail(s.u)
  BY <1>2, HearsTurns
<1>4. Says(s, t, i, r) /\ Fits(s, t, i, r)
  BY <1>3, QuietSays
<1>5. Replied(i, s.d, s.d, s.sv[r], m)
  <2>1. Rsp(s.d, i) \in Nat
    BY <1>2, Sums
  <2>2. Rsp(s.d, i) = Rsp(s.d, i) + 0
    BY <2>1
  <2> QED BY <2>2 DEF Replied
<1>6. Replied(i, s.d, t.d, s.sv[r], m)
  BY <1>3, <1>5
<1> HIDE DEF i
<1>7. s.sv[r].peer = i
  BY DEF i
<1> QED BY <1>1, <1>3, <1>4, <1>6, <1>7, HearsKeeps

\* The client's CLOSE after the server's: the end is gone, and nothing is left on its
\* way to it.
LEMMA HearsLast ==
  ASSUME NEW s, Core(s), NEW t, NEW r \in Ids,
         NEW m, Received(s, m, Tail(s.u)), m.id = r, m.type = "CLOSE", "SENT_CLOSE" \in s.sv[r].closes,
         Hears(s, t, r, NoEnd, s.d)
  PROVE  Core(t)
<1> DEFINE i == s.sv[r].peer
<1>0. m.type \in {"DATA", "ADJUST", "REQ", "RESP", "EOF", "CLOSE"} /\ m.type # "OPEN"
  OBVIOUS
<1>1. s.sv[r].st = "open"
  BY <1>0, ReceivedLegal
<1>2. s.d \in Seq(Packets) /\ Ord(s.d)
  BY ConnFields DEF Core, Queues
<1>3. Turns(s, t, r, NoEnd) /\ t.d = s.d /\ t.u = Tail(s.u) /\ Plus(s.u, t.u, m)
  BY <1>0, <1>2, HearsTurns, NoEndFields
<1>4. Says(s, t, i, r) /\ Fits(s, t, i, r)
  BY <1>3, QuietSays
<1>5. ~About(t.u, r)
  BY <1>3 DEF Received
<1>6. Has(s.u, "CLOSE", r)
  BY <1>3 DEF Plus
<1>7. \A c \in Chans : Conv(i, r, c, s.u, s.sv[r], s.d) => "SENT_CLOSE" \in c.closes /\ Has(t.d, "CLOSE", i)
  BY <1>3, <1>6 DEF Conv, Closings
<1> HIDE DEF i
<1>8. s.sv[r].peer = i
  BY DEF i
<1> QED BY <1>1, <1>3, <1>4, <1>5, <1>7, <1>8, ServerDrops

\* A request is answered.
LEMMA HearsRequest ==
  ASSUME NEW s, Core(s), NEW t, NEW r \in Ids, NEW i, s.sv[r].peer = i,
         NEW m, Received(s, m, Tail(s.u)), m.id = r, m.type = "REQ", m.arg # "window-change",
         "SENT_CLOSE" \notin s.sv[r].closes, NEW n \in Packets, n.id = i, n.type = "RESP",
         NEW f \in Ends, Hears(s, t, r, f, Append(s.d, n)), Becomes(s.sv[r], f, m)
  PROVE  Core(t)
<1> DEFINE e == s.sv[r]
           b == Append(s.d, n)
<1>0. m.type \in {"DATA", "ADJUST", "REQ", "RESP", "EOF", "CLOSE"} /\ m.type # "OPEN" /\ m.type # "CLOSE"
  OBVIOUS
<1>1. e.st = "open"
  BY <1>0, ReceivedLegal
<1>2. s.d \in Seq(Packets) /\ Ord(s.d) /\ s.u \in Seq(Packets)
  BY ConnFields DEF Core, Queues
<1>3. /\ i \in Ids /\ s \in Conns /\ e \in Ends
      /\ ~Has(s.d, "OPENFAIL", i) /\ ~Has(s.d, "CLOSE", i)
  BY <1>1, OpenEnd
<1>4. b \in Seq(Packets) /\ Plus(b, s.d, n)
  BY <1>2, AppendPlus
<1>5. Ord(b)
  <2>1. ~Has(s.d, "CLOSE", n.id) /\ ~Has(s.d, "OPENFAIL", n.id) /\ n.type # "OPEN" /\ n.type \notin {"CONFIRM", "OPENFAIL"}
    BY <1>3
  <2> QED BY <1>2, <2>1, OrdAppend
<1>6. Hears(s, t, r, f, b)
  OBVIOUS
<1> HIDE DEF b
<1>7. Turns(s, t, r, f) /\ t.d = b /\ t.u = Tail(s.u) /\ Plus(s.u, t.u, m) /\ t.u \in Seq(Packets)
  BY <1>0, <1>4, <1>5, <1>6, HearsTurns
<1>8. Plus(t.d, s.d, n) /\ t.d \in Seq(Packets)
  BY <1>4, <1>7
<1>9. n.type # "OPEN" /\ n.type # "CONFIRM" /\ n.type # "OPENFAIL" /\ n.type # "CLOSE" /\ n.type # "REQ"
  OBVIOUS
<1>10. (\A j : j # i => Same(s.d, t.d, j)) /\ SameOpens(s.d, t.d)
  BY <1>2, <1>8, <1>9, PlusSame
<1>11. /\ \A a : Carries(t.d, "CONFIRM", i, a) <=> Carries(s.d, "CONFIRM", i, a)
       /\ Has(t.d, "CONFIRM", i) <=> Has(s.d, "CONFIRM", i)
       /\ Has(t.d, "OPENFAIL", i) <=> Has(s.d, "OPENFAIL", i)
       /\ Has(s.d, "CLOSE", i) <=> Has(t.d, "CLOSE", i)
       /\ About(s.d, i) => About(t.d, i)
       /\ \A a : Carries(t.d, "REQ", i, a) <=> Carries(s.d, "REQ", i, a)
  BY <1>8, <1>9 DEF Plus
<1>12. Says(s, t, i, r)
  BY <1>10, <1>11 DEF Says
<1>13. /\ Dat(t.d, i) = Dat(s.d, i) + 0 /\ Adj(t.d, i) = Adj(s.d, i) + 0 /\ Rqs(t.d, i) = Rqs(s.d, i) + 0
       /\ Rsp(t.d, i) = Rsp(s.d, i) + 1
  BY <1>8, <1>9 DEF Plus
<1>14. Dat(s.d, i) \in Nat /\ Adj(s.d, i) \in Nat /\ Rqs(s.d, i) \in Nat /\ Rsp(s.d, i) \in Nat
  BY <1>2, Sums
<1>15. Dat(t.d, i) = Dat(s.d, i) /\ Adj(t.d, i) = Adj(s.d, i) /\ Rqs(t.d, i) = Rqs(s.d, i)
  BY <1>13, <1>14
<1>16. Replied(i, s.d, t.d, s.sv[r], m)
  BY <1>11, <1>13, <1>15 DEF Replied
<1>17. Fits(s, t, i, r)
  <2> SUFFICES ASSUME NEW c \in Chans, Conv(i, r, c, s.u, e, s.d), Expects(c, s.d, i)
               PROVE  Expects(c, t.d, i)
    BY DEF Fits
  <2>1. Rqs(s.u, r) = Rqs(t.u, r) + 1
    BY <1>7 DEF Plus
  <2>2. Rqs(t.u, r) \in Nat /\ Waits(c) \in Nat
    BY <1>7, Sums, ChanFields
  <2>3. Rsp(s.d, i) + Rqs(s.u, r) = Waits(c)
    BY DEF Conv, Replies
  <2>4. Rsp(t.d, i) <= Waits(c)
    BY <1>13, <1>14, <2>1, <2>2, <2>3
  <2> QED BY <1>15, <2>4 DEF Expects
<1> QED BY <1>0, <1>1, <1>7, <1>12, <1>16, <1>17, HearsKeeps

-----------------------------------------------------------------------------
(* The server has its OPEN answered, answers ours, or opens a channel.     *)

\* An end that waits for the answer, which has come.
LEMMA AnswerComes ==
  ASSUME NEW s, Core(s), NEW r \in Ids, NEW m, Received(s, m, Tail(s.u)), m.id = r,
         m.type \in {"CONFIRM", "OPENFAIL"}
  PROVE  /\ s.sv[r].st = "opening" /\ s.sv[r] \in Ends /\ ~Has(s.d, "OPEN", r)
         /\ m.type = "CONFIRM" => m.arg \in Ids /\ Carries(s.u, "CONFIRM", r, m.arg) /\ Joined(s, m.arg, r)
<1> DEFINE e == s.sv[r]
           v == Tail(s.u)
<1>1. Plus(s.u, v, m) /\ s.u \in Seq(Packets) /\ Ord(s.u) /\ e \in Ends /\ ThereInv(s, r) /\ PeerInv(s, r)
  BY ConnFields DEF Received, Core, Queues
<1> HIDE DEF v
<1>2. About(s.u, r) /\ Has(s.u, m.type, r) /\ Carries(s.u, m.type, r, m.arg)
  BY <1>1 DEF Plus
<1>3. e.st = "opening"
  BY <1>1, <1>2 DEF ThereInv
<1>4. ~Has(s.d, "OPEN", r)
  BY <1>1, <1>2, <1>3 DEF PeerInv
<1>5. ASSUME m.type = "CONFIRM"
      PROVE  m.arg \in Ids /\ Carries(s.u, "CONFIRM", r, m.arg) /\ Joined(s, m.arg, r)
  <2>1. Carries(s.u, "CONFIRM", r, m.arg)
    BY <1>2, <1>5
  <2>2. m.arg \in Ids
    BY <1>1, <2>1 DEF ThereInv
  <2>3. ~Has(s.u, "OPENFAIL", r) /\ \A b : Carries(s.u, "CONFIRM", r, b) => m.arg = b
    BY <1>1, <2>1, OneAnswer
  <2>4. PICK j : Carries(s.u, "CONFIRM", r, j) /\ Joined(s, j, r)
    BY <1>1, <1>2, <1>3, <2>3 DEF PeerInv
  <2>5. m.arg = j
    BY <2>3, <2>4
  <2> QED BY <2>1, <2>2, <2>4, <2>5
<1> QED BY <1>1, <1>3, <1>4, <1>5

\* The client's refusal: the end is gone.
LEMMA HearsRefusal ==
  ASSUME NEW s, Core(s), NEW t, NEW r \in Ids,
         NEW m, Received(s, m, Tail(s.u)), m.id = r, m.type = "OPENFAIL", Hears(s, t, r, NoEnd, s.d)
  PROVE  Core(t)
<1>0. m.type \in {"CONFIRM", "OPENFAIL"} /\ m.type # "OPEN"
  OBVIOUS
<1>1. s.sv[r].st = "opening" /\ ~Has(s.d, "OPEN", r)
  BY <1>0, AnswerComes
<1>2. s.d \in Seq(Packets) /\ Ord(s.d) /\ s \in Conns /\ Ord(s.u) /\ s.u \in Seq(Packets)
  BY ConnFields DEF Core, Queues
<1>3. Turns(s, t, r, NoEnd) /\ t.d = s.d /\ t.u = Tail(s.u) /\ Plus(s.u, t.u, m) /\ t.u \in Seq(Packets)
  BY <1>0, <1>2, HearsTurns, NoEndFields
<1>4. ~About(t.u, r)
  BY <1>3 DEF Received
<1>5. t.sv[r] = NoEnd /\ Queues(t)
  BY <1>3 DEF Turns
<1>6. Says(s, t, -1, r)
  BY <1>3, QuietSays
<1>7. Elsewhere(s, t, -1, r)
  BY <1>3, <1>6, TurnsElsewhere
<1>8. \A j : ~Paired(s, j, r) /\ ~Paired(t, j, r)
  <2>1. Has(s.u, "OPENFAIL", r)
    BY <1>3 DEF Plus
  <2>2. \A j : ~Carries(s.u, "CONFIRM", r, j)
    BY <1>2, <2>1, OneAnswer
  <2> QED BY <1>1, <1>5, <2>2, NoEndFields DEF Paired
<1>9. ThereInv(t, r)
  <2>1. /\ Dat(t.u, r) = 0 /\ Rsp(t.u, r) = 0
        /\ ~Has(t.u, "EOF", r) /\ ~Has(t.u, "DATA", r)
        /\ \A a : ~Carries(t.u, "EOF", r, a) /\ ~Carries(t.u, "CONFIRM", r, a)
    BY <1>3, <1>4, Silent
  <2>2. \A a : ~Carries(t.d, "OPEN", r, a)
    BY <1>1, <1>3, Seen
  <2>3. EndOK(NoEnd, t.u, r)
    BY <2>1, NoEndFields DEF EndOK, Asked
  <2> QED BY <1>4, <1>5, <2>1, <2>2, <2>3, NoEndFields DEF ThereInv
<1>10. PeerInv(t, r)
  BY <1>5, NoEndFields DEF PeerInv
<1>11. \A q : ~Joined(s, -1, q)
  BY NotAnId DEF Joined, Links
<1> QED BY <1>5, <1>7, <1>8, <1>9, <1>10, <1>11, NotAnId, CoreStep

\* The client's confirmation: the end is as it was looked at before.
LEMMA HearsConfirmView ==
  ASSUME NEW s, Core(s), NEW t, NEW r \in Ids,
         NEW m, Received(s, m, Tail(s.u)), m.id = r, m.type = "CONFIRM",
         NEW f, f = EndView(s.sv[r], m.arg), Hears(s, t, r, f, s.d)
  PROVE  Core(t)
<1> DEFINE i == m.arg
           e == s.sv[r]
<1>0. m.type \in {"CONFIRM", "OPENFAIL"} /\ m.type # "OPEN"
  OBVIOUS
<1>1. e.st = "opening" /\ e \in Ends /\ ~Has(s.d, "OPEN", r) /\ i \in Ids /\ Carries(s.u, "CONFIRM", r, i) /\ Joined(s, i, r)
  BY <1>0, AnswerComes
<1>2. s.d \in Seq(Packets) /\ Ord(s.d) /\ s \in Conns /\ Ord(s.u) /\ s.u \in Seq(Packets)
  BY ConnFields DEF Core, Queues
<1>3. f = EndView(e, i)
  OBVIOUS
<1>4. f \in Ends /\ f.st = "open" /\ f.peer = i /\ f.closes = {}
  <2>1. e.rcvwin \in Nat
    BY <1>1, EndFields
  <2> QED BY <1>1, <1>3, <2>1, OpenedFields DEF EndView
<1> HIDE DEF i
<1>5. Turns(s, t, r, f) /\ t.d = s.d /\ t.u = Tail(s.u) /\ Plus(s.u, t.u, m) /\ t.u \in Seq(Packets)
  BY <1>0, <1>2, <1>4, HearsTurns
<1>6. Says(s, t, i, r)
  BY <1>5, QuietSays
<1>7. Elsewhere(s, t, i, r)
  BY <1>5, <1>6, TurnsElsewhere
<1>8. t.sv[r] = f /\ Queues(t) /\ t.ch = s.ch /\ (\A j : Has(t.u, "OPEN", j) <=> Has(s.u, "OPEN", j))
      /\ \A q \in Ids : q # r => t.sv[q] = s.sv[q] /\ Same(s.u, t.u, q)
  BY <1>5 DEF Turns
<1>9. \A j : j # i => ~Paired(s, j, r) /\ ~Paired(t, j, r)
  <2>1. \A b : Carries(s.u, "CONFIRM", r, b) => i = b
    BY <1>1, <1>2, OneAnswer
  <2> QED BY <1>1, <1>4, <1>8, <2>1 DEF Paired
<1>10. HereInv(s, i) /\ MeetInv(s, i) /\ ThereInv(s, r)
  BY <1>1 DEF Core
<1>11. HereInv(t, i)
  BY <1>5, <1>8, <1>10 DEF HereInv, Alive
<1>12. \A a, q : Links(t, i, a, q) <=> Links(s, i, a, q)
  BY <1>5, <1>8 DEF Links, Alive
<1>13. \A q : Joined(t, i, q) <=> Joined(s, i, q)
  BY <1>12 DEF Joined
<1>14. /\ Dat(t.u, r) = Dat(s.u, r) /\ Adj(t.u, r) = Adj(s.u, r) /\ Rsp(t.u, r) = Rsp(s.u, r)
       /\ Rqs(t.u, r) = Rqs(s.u, r)
       /\ \A x : x # "CONFIRM" => (Has(t.u, x, r) <=> Has(s.u, x, r))
       /\ \A x, a : x # "CONFIRM" => (Carries(t.u, x, r, a) <=> Carries(s.u, x, r, a))
  <2>1. Dat(t.u, r) \in Nat /\ Adj(t.u, r) \in Nat /\ Rsp(t.u, r) \in Nat /\ Rqs(t.u, r) \in Nat
    BY <1>5, Sums
  <2>2. /\ Dat(s.u, r) = Dat(t.u, r) + 0 /\ Adj(s.u, r) = Adj(t.u, r) + 0
        /\ Rsp(s.u, r) = Rsp(t.u, r) + 0 /\ Rqs(s.u, r) = Rqs(t.u, r) + 0
        /\ \A x : x # "CONFIRM" => (Has(t.u, x, r) <=> Has(s.u, x, r))
        /\ \A x, a : x # "CONFIRM" => (Carries(t.u, x, r, a) <=> Carries(s.u, x, r, a))
    BY <1>5 DEF Plus
  <2> QED BY <2>1, <2>2
<1>15. MeetInv(t, i)
  <2> SUFFICES ASSUME NEW a, NEW q, Links(t, i, a, q)
               PROVE  Meets(t, i, a, q)
    BY DEF MeetInv
  <2>1. Links(s, i, a, q) /\ Meets(s, i, a, q) /\ q \in Ids
    BY <1>2, <1>10, <1>12, LinksFields DEF MeetInv
  <2>2. CASE q = r
    <3>1. Paired(s, i, r) /\ Paired(t, i, r)
      BY <1>1, <1>4, <1>8 DEF Paired
    <3>2. EndView(t.sv[r], i) = f
      BY <1>4, <1>8 DEF EndView
    <3>3. Conv(i, r, View(s.ch[i], a), s.u, f, s.d)
      BY <1>3, <2>1, <2>2, <3>1 DEF Meets
    <3>4. Conv(i, r, View(s.ch[i], a), t.u, f, s.d)
      BY <1>14, <3>3 DEF Conv, Windows, Streams, Replies, Closings
    <3> QED BY <1>5, <1>8, <2>2, <3>1, <3>2, <3>4 DEF Meets
  <2>3. CASE q # r
    <3>1. Same(s.d, t.d, i)
      BY <1>5, SameSelf
    <3> QED BY <1>5, <2>1, <2>3, <3>1, MeetsElse
  <2> QED BY <2>2, <2>3
<1>16. ThereInv(t, r)
  <2>1. EndOK(f, s.u, r)
    <3>1. EndOK(e, s.u, r) /\ e = [NoEnd EXCEPT !.st = "opening", !.rcvwin = e.rcvwin]
      BY <1>1, <1>10 DEF ThereInv
    <3>2. i \in Ids /\ e \in Ends
      BY <1>1
    <3>3. EndOK(EndView(e, i), s.u, r) <=> EndOK(e, s.u, r)
      <4> HIDE DEF e
      <4> QED BY ONLY <3>1, <3>2, EndOKView
    <3> QED BY ONLY <1>3, <3>1, <3>3
  <2>2. EndOK(f, t.u, r)
    BY <1>14, <2>1 DEF EndOK
  <2>3. ~Has(t.u, "CONFIRM", r) /\ ~Has(t.u, "OPENFAIL", r)
    BY <1>0, <1>5 DEF Received
  <2>4. \A a : ~Carries(t.u, "CONFIRM", r, a) /\ ~Carries(t.d, "OPEN", r, a)
    BY <1>1, <1>5, <2>3, Seen
  <2> QED BY <1>4, <1>8, <2>2, <2>3, <2>4 DEF ThereInv
<1>17. PeerInv(t, r)
  BY <1>1, <1>4, <1>8, <1>13 DEF PeerInv
<1> QED BY <1>8, <1>7, <1>9, <1>11, <1>13, <1>15, <1>16, <1>17, CoreStep

\* So the end is open.
LEMMA HearsConfirm ==
  ASSUME NEW s, Core(s), NEW t, NEW r \in Ids,
         NEW m, Received(s, m, Tail(s.u)), m.id = r, m.type = "CONFIRM",
         NEW f, f = [Opened(m.arg, s.sv[r].rcvwin) EXCEPT !.started = TRUE], Hears(s, t, r, f, s.d)
  PROVE  Core(t)
<1>1. s.sv[r].st = "opening"
  BY AnswerComes
<1>2. f = EndView(s.sv[r], m.arg)
  BY <1>1 DEF EndView
<1> QED BY <1>2, HearsConfirmView

\* An id the server does not use.
LEMMA FreeEnd ==
  ASSUME NEW s, Core(s), NEW r \in Ids, s.sv[r].st = "none"
  PROVE  /\ s.sv[r] = NoEnd /\ ~About(s.u, r) /\ (\A a : ~Carries(s.d, "OPEN", r, a))
         /\ ~Has(s.d, "OPEN", r) /\ \A j : ~Paired(s, j, r)
<1>1. ThereInv(s, r)
  BY DEF Core
<1>2. s.sv[r] = NoEnd /\ ~About(s.u, r) /\ \A a : ~Carries(s.d, "OPEN", r, a)
  BY <1>1 DEF ThereInv
<1> QED BY <1>2, Seen DEF Paired

\* The server has taken our OPEN of channel i off the queue and answered n.
Heard(s, t, i, n) ==
  /\ Queues(t) /\ i \in Ids /\ Alive(s, i) /\ s.ch[i].halfopen /\ ~About(s.d, i)
  /\ s.ch[i] = NewChannel("main", 0, TRUE, 0) /\ HereInv(s, i)
  /\ Plus(t.d, s.d, n) /\ s.d \in Seq(Packets) /\ t.u \in Seq(Packets)
  /\ (\A j : j # i => Same(s.d, t.d, j) /\ (Has(t.u, "OPEN", j) <=> Has(s.u, "OPEN", j)))
  /\ (\A q : Same(s.u, t.u, q)) /\ SameOpens(s.d, t.d) /\ ~Has(t.u, "OPEN", i)

\* The server takes our OPEN for the main channel and answers n; its ends are then sv.
LEMMA HearsOpen ==
  ASSUME NEW s, Core(s), NEW t, NEW m, s.u # <<>>, m = Head(s.u), m.type = "OPEN",
         NEW n \in Packets, n.id = m.id, n.type \in {"CONFIRM", "OPENFAIL"},
         Shaped(t), t.ch = s.ch, t.sv \in [Ids -> Ends], t.u = Tail(s.u), t.d = Append(s.d, n)
  PROVE  Heard(s, t, m.id, n)
<1> DEFINE i == m.id
           v == Tail(s.u)
<1>1. /\ s.u \in Seq(Packets) /\ s.d \in Seq(Packets) /\ Ord(s.u) /\ EofLast(s.u) /\ Ord(s.d)
      /\ s.ch \in [Ids -> Chans]
  BY ConnFields DEF Core, Queues, Conns
<1>2. Received(s, m, v)
  BY TakeReceived
<1>3. m \in Packets /\ i \in Ids /\ v \in Seq(Packets) /\ Plus(s.u, v, m) /\ Ord(v) /\ EofLast(v)
  BY <1>2 DEF Received
<1>4. ~Has(v, "OPEN", i)
  BY <1>1, HeadOrd
<1>5. t.u = v /\ t.d = Append(s.d, n)
  OBVIOUS
<1>6. m.id = i
  OBVIOUS
<1> HIDE DEF i, v
<1>7. Has(s.u, "OPEN", i)
  BY <1>3, <1>6 DEF Plus
<1>8. HereInv(s, i)
  BY <1>3 DEF Core
<1>9. Alive(s, i) /\ s.ch[i].halfopen /\ ~About(s.d, i) /\ s.ch[i] = NewChannel("main", 0, TRUE, 0)
  BY <1>7, <1>8 DEF HereInv
<1>10. t.d \in Seq(Packets) /\ Plus(t.d, s.d, n)
  BY <1>1, <1>5, AppendPlus
<1>11. Ord(t.d)
  <2>1. ~About(s.d, n.id)
    BY <1>6, <1>9
  <2>2. ~Has(s.d, "CLOSE", n.id) /\ ~Has(s.d, "OPENFAIL", n.id) /\ n.type # "OPEN"
    BY <2>1, Seen
  <2>3. Ord(Append(s.d, n))
    BY <1>1, <2>1, <2>2, OrdAppend
  <2> QED BY <1>5, <2>3
<1>12. t \in Conns
  BY <1>1, <1>3, <1>5, <1>10, ShapedConn
<1>13. Queues(t)
  BY <1>3, <1>5, <1>11, <1>12 DEF Queues
<1>14. \A q : Same(s.u, t.u, q)
  <2>1. \A q : Same(v, s.u, q)
    BY <1>1, <1>3, PlusSame
  <2> QED BY <1>5, <2>1 DEF Same
<1>15. \A j : j # i => (Has(t.u, "OPEN", j) <=> Has(s.u, "OPEN", j))
  BY <1>1, <1>3, <1>5, <1>6, PlusSame
<1>16. (\A j : j # i => Same(s.d, t.d, j)) /\ SameOpens(s.d, t.d)
  <2>1. n.id = i /\ n.type # "OPEN"
    BY <1>6
  <2> QED BY <1>1, <1>10, <2>1, PlusSame
<1>17. ~Has(t.u, "OPEN", i) /\ t.u \in Seq(Packets)
  BY <1>3, <1>4, <1>5
<1>18. i \in Ids /\ s.d \in Seq(Packets)
  BY <1>1, <1>3
<1>19. Heard(s, t, i, n)
  BY ONLY <1>8, <1>9, <1>10, <1>13, <1>14, <1>15, <1>16, <1>17, <1>18 DEF Heard
<1> QED BY ONLY <1>19 DEF i

\* The server refuses the client's OPEN.
LEMMA HearsOpenRefuses ==
  ASSUME NEW s, Core(s), NEW t, NEW m, s.u # <<>>, m = Head(s.u), m.type = "OPEN",
         NEW n \in Packets, n.id = m.id, n.type = "OPENFAIL", NEW r \in Ids, s.sv[r].st = "none",
         Hears(s, t, r, NoEnd, Append(s.d, n))
  PROVE  Core(t)
<1> DEFINE i == m.id
<1>1. s.sv \in [Ids -> Ends] /\ s \in Conns
  BY DEF Core, Queues, Conns
<1>2. s.sv[r] = NoEnd
  BY FreeEnd
<1>3. Shaped(t) /\ t.ch = s.ch /\ t.sv = [s.sv EXCEPT ![r] = NoEnd] /\ t.u = Tail(s.u) /\ t.d = Append(s.d, n)
  BY DEF Hears
<1>4. t.sv = s.sv
  BY <1>1, <1>2, <1>3
<1>5. n.type \in {"CONFIRM", "OPENFAIL"} /\ n.id = i /\ n.type = "OPENFAIL"
  OBVIOUS
<1>4a. t.sv \in [Ids -> Ends]
  BY <1>1, <1>4
<1>5a. n.type \in {"CONFIRM", "OPENFAIL"} /\ n.id = m.id
  BY <1>5
<1>5b. Core(s) /\ s.u # <<>> /\ m = Head(s.u) /\ m.type = "OPEN" /\ n \in Packets
  OBVIOUS
<1>5c. Heard(s, t, m.id, n)
  BY ONLY <1>3, <1>4a, <1>5a, <1>5b, HearsOpen
<1>5d. Heard(s, t, i, n)
  BY ONLY <1>5c DEF i
<1> HIDE DEF i
<1>6. /\ Queues(t) /\ i \in Ids /\ Alive(s, i) /\ s.ch[i].halfopen /\ ~About(s.d, i)
      /\ HereInv(s, i)
      /\ Plus(t.d, s.d, n) /\ s.d \in Seq(Packets) /\ t.u \in Seq(Packets)
      /\ (\A j : j # i => Same(s.d, t.d, j) /\ (Has(t.u, "OPEN", j) <=> Has(s.u, "OPEN", j)))
      /\ (\A q : Same(s.u, t.u, q)) /\ SameOpens(s.d, t.d) /\ ~Has(t.u, "OPEN", i)
  BY ONLY <1>5d DEF Heard
<1>7. Elsewhere(s, t, i, -1)
  BY <1>3, <1>4, <1>6 DEF Elsewhere, SameOpens
<1>8. /\ Dat(s.d, i) = 0 /\ Rsp(s.d, i) = 0 /\ \A x : x # "OPEN" => ~Has(s.d, x, i)
      /\ \A x, a : x # "OPEN" => ~Carries(s.d, x, i, a)
  BY <1>6, Silent
<1>9. /\ Dat(t.d, i) = Dat(s.d, i) + 0 /\ Rsp(t.d, i) = Rsp(s.d, i) + 0 /\ About(t.d, i) /\ Has(t.d, "OPENFAIL", i)
      /\ \A a : ~Carries(t.d, "CONFIRM", i, a) /\ ~Carries(t.d, "REQ", i, a)
  BY <1>5, <1>6, <1>8 DEF Plus
<1>10. HereInv(t, i)
  <2>1. Dat(t.d, i) = Dat(s.d, i) /\ Rsp(t.d, i) = Rsp(s.d, i)
    BY <1>8, <1>9
  <2>2. Expects(s.ch[i], s.d, i) => Expects(s.ch[i], t.d, i)
    BY <2>1 DEF Expects
  <2> QED BY <1>3, <1>6, <1>9, <2>2 DEF HereInv, Alive
<1>11. MeetInv(t, i)
  BY <1>3, <1>6, <1>9 DEF MeetInv, Links
<1>12. \A q : ~Joined(s, i, q)
  BY <1>6, <1>8 DEF Joined, Links
<1> QED BY <1>6, <1>7, <1>10, <1>11, <1>12, NotAnId, CoreStep

\* The server confirms the client's OPEN with an end that is free.
LEMMA HearsOpenConfirms ==
  ASSUME NEW s, Core(s), NEW t, NEW m, s.u # <<>>, m = Head(s.u), m.type = "OPEN",
         NEW r \in Ids, s.sv[r].st = "none", NEW w \in Nat,
         NEW n \in Packets, n.id = m.id, n.type = "CONFIRM", n.arg = <<r, w>>,
         NEW f, f = Opened(m.id, w), Hears(s, t, r, f, Append(s.d, n))
  PROVE  Core(t)
<1> DEFINE i == m.id
           c == s.ch[i]
           a == <<r, w>>
<1>1. s.sv \in [Ids -> Ends] /\ s \in Conns /\ s.u \in Seq(Packets)
  BY ConnFields DEF Core, Queues, Conns
<1>2. ~About(s.u, r) /\ (\A b : ~Carries(s.d, "OPEN", r, b)) /\ \A j : ~Paired(s, j, r)
  BY FreeEnd
<1>3. Shaped(t) /\ t.ch = s.ch /\ t.sv = [s.sv EXCEPT ![r] = f] /\ t.u = Tail(s.u) /\ t.d = Append(s.d, n)
  BY DEF Hears
<1>4. i \in Ids
  BY TakeReceived DEF Received
<1>5. /\ f \in Ends /\ f.st = "open" /\ f.peer = i /\ f.sndwin = WinSize /\ f.rcvwin = w
      /\ f.got = 0 /\ f.asked = 0 /\ f.closes = {}
  BY <1>4, OpenedFields
<1>6. n.type \in {"CONFIRM", "OPENFAIL"} /\ n.id = i /\ n.arg = a
  OBVIOUS
<1>7. t.sv \in [Ids -> Ends] /\ t.sv[r] = f /\ \A q \in Ids : q # r => t.sv[q] = s.sv[q]
  BY <1>1, <1>3, <1>5
<1>8a. n.type \in {"CONFIRM", "OPENFAIL"} /\ n.id = m.id
  BY <1>6
<1>8b. Core(s) /\ s.u # <<>> /\ m = Head(s.u) /\ m.type = "OPEN" /\ n \in Packets
  OBVIOUS
<1>8c. Heard(s, t, m.id, n)
  BY ONLY <1>3, <1>7, <1>8a, <1>8b, HearsOpen
<1>8d. Heard(s, t, i, n)
  BY ONLY <1>8c DEF i
<1>8e. n.type = "CONFIRM" /\ n.id = i /\ n.arg = a
  OBVIOUS
<1>8f. s.ch[i] = c /\ t.ch[i] = c
  BY <1>3
<1> HIDE DEF i, a, c
<1>8. /\ Queues(t) /\ Alive(s, i) /\ c.halfopen /\ ~About(s.d, i)
      /\ c = NewChannel("main", 0, TRUE, 0) /\ HereInv(s, i)
      /\ Plus(t.d, s.d, n) /\ s.d \in Seq(Packets) /\ t.u \in Seq(Packets)
      /\ (\A j : j # i => Same(s.d, t.d, j) /\ (Has(t.u, "OPEN", j) <=> Has(s.u, "OPEN", j)))
      /\ (\A q : Same(s.u, t.u, q)) /\ SameOpens(s.d, t.d) /\ ~Has(t.u, "OPEN", i)
  BY ONLY <1>8d DEF Heard, c
<1>9. a \in Ids \X Nat /\ a[1] = r /\ a[2] = w
  BY DEF a
<1>10. Elsewhere(s, t, i, r)
  BY <1>3, <1>7, <1>8 DEF Elsewhere, SameOpens
<1>11. /\ Dat(s.d, i) = 0 /\ Rsp(s.d, i) = 0 /\ Adj(s.d, i) = 0 /\ Rqs(s.d, i) = 0
       /\ \A x : x # "OPEN" => ~Has(s.d, x, i)
       /\ \A x, b : x # "OPEN" => ~Carries(s.d, x, i, b)
  BY <1>8, Silent
<1>12. /\ Dat(t.d, i) = Dat(s.d, i) + 0 /\ Rsp(t.d, i) = Rsp(s.d, i) + 0
       /\ Adj(t.d, i) = Adj(s.d, i) + 0 /\ Rqs(t.d, i) = Rqs(s.d, i) + 0
       /\ About(t.d, i) /\ Has(t.d, "CONFIRM", i) /\ Carries(t.d, "CONFIRM", i, a)
       /\ ~Has(t.d, "CLOSE", i)
       /\ \A b : (Carries(t.d, "CONFIRM", i, b) => b = a) /\ ~Carries(t.d, "REQ", i, b)
  <2>1. Plus(t.d, s.d, n)
    BY <1>8
  <2>2. /\ Dat(t.d, i) = Dat(s.d, i) + 0 /\ Rsp(t.d, i) = Rsp(s.d, i) + 0
        /\ Adj(t.d, i) = Adj(s.d, i) + 0 /\ Rqs(t.d, i) = Rqs(s.d, i) + 0
    BY ONLY <1>8e, <2>1 DEF Plus
  <2>3. About(t.d, i) /\ Has(t.d, "CONFIRM", i) /\ (Has(t.d, "CLOSE", i) <=> Has(s.d, "CLOSE", i))
    BY ONLY <1>8e, <2>1 DEF Plus
  <2>4. /\ Carries(t.d, "CONFIRM", i, a)
        /\ \A x : Carries(t.d, "CONFIRM", i, x) => x = a \/ Carries(s.d, "CONFIRM", i, x)
        /\ \A x : Carries(t.d, "REQ", i, x) => Carries(s.d, "REQ", i, x)
    BY ONLY <1>8e, <2>1 DEF Plus
  <2> QED BY ONLY <1>11, <2>2, <2>3, <2>4
<1>13. Dat(t.d, i) = 0 /\ Rsp(t.d, i) = 0 /\ Adj(t.d, i) = 0 /\ Rqs(t.d, i) = 0
  BY <1>11, <1>12
<1>14. HereInv(t, i)
  <2>1. Expects(c, s.d, i) => Expects(c, t.d, i)
    BY <1>11, <1>13 DEF Expects
  <2> QED BY <1>8, <1>8f, <1>9, <1>12, <2>1 DEF HereInv, Alive
<1>15. /\ Dat(t.u, r) = 0 /\ Rsp(t.u, r) = 0 /\ Adj(t.u, r) = 0 /\ Rqs(t.u, r) = 0 /\ ~About(t.u, r)
       /\ \A x : x # "OPEN" => ~Has(t.u, x, r)
       /\ \A x, b : x # "OPEN" => ~Carries(t.u, x, r, b)
  <2>1. ~About(t.u, r)
    BY <1>2, <1>8 DEF Same
  <2> QED BY <1>8, <2>1, Silent
<1> DEFINE b == View(c, a)
<1>16. c \in Chans
  BY <1>1, <1>4, ConnFields DEF c
<1>17. /\ b \in Chans /\ b.closes = {} /\ b.outbuffer = 0 /\ b.written = 0 /\ b.remwindow = w
       /\ b.locwindow = WinSize /\ Waits(b) = 0 /\ b.remoteid = r
  <2> DEFINE x == NewChannel("main", 0, TRUE, 0)
  <2>1. x.closes = {} /\ x.outbuffer = 0 /\ x.written = 0 /\ x.locwindow = WinSize /\ x.chanreq = <<>>
    BY DEF NewChannel
  <2>2. c = x
    BY <1>8
  <2> HIDE DEF x
  <2>3. c.closes = {} /\ c.outbuffer = 0 /\ c.written = 0 /\ c.locwindow = WinSize /\ c.chanreq = <<>>
    BY <2>1, <2>2
  <2>4. /\ b \in Chans /\ b.closes = c.closes /\ b.outbuffer = c.outbuffer /\ b.written = c.written
        /\ b.locwindow = c.locwindow /\ b.chanreq = c.chanreq /\ b.remoteid = r /\ b.remwindow = w
    <3>1. c.halfopen /\ c \in Chans /\ a \in Ids \X Nat
      BY <1>8, <1>9, <1>16
    <3> DEFINE y == View(c, a)
    <3>2. /\ y \in Chans /\ y.closes = c.closes /\ y.outbuffer = c.outbuffer /\ y.written = c.written
          /\ y.locwindow = c.locwindow /\ y.chanreq = c.chanreq /\ y.remoteid = a[1] /\ y.remwindow = a[2]
      BY ONLY <3>1, ViewFields
    <3> QED BY ONLY <1>9, <3>2 DEF b
  <2> QED BY <2>3, <2>4 DEF Waits
<1> HIDE DEF b
<1>18. Paired(t, i, r)
  BY <1>5, <1>7 DEF Paired
<1>19. Conv(i, r, b, t.u, f, t.d)
  <2>1. Windows(i, r, b, t.u, f, t.d)
    <3>1. WinSize \in Nat /\ WinSize = WinSize + 0 + 0 /\ w = w + 0 + 0
      BY ChannelAssumption
    <3> QED BY <1>5, <1>13, <1>15, <1>17, <3>1 DEF Windows
  <2>2. Streams(r, b, t.u, f)
    BY <1>5, <1>15, <1>17 DEF Streams
  <2>3. Replies(i, r, b, t.u, f, t.d)
    BY <1>5, <1>13, <1>15, <1>17 DEF Replies, Asked
  <2>4. Closings(i, r, b, t.u, f, t.d)
    BY <1>5, <1>12, <1>15, <1>17 DEF Closings
  <2> QED BY <2>1, <2>2, <2>3, <2>4 DEF Conv
<1>20. MeetInv(t, i)
  <2> SUFFICES ASSUME NEW x, NEW q, Links(t, i, x, q)
               PROVE  Meets(t, i, x, q)
    BY DEF MeetInv
  <2>1. x = a
    BY <1>8, <1>8f, <1>12 DEF Links
  <2>2. View(t.ch[i], x) = b /\ q = r
    BY <1>8f, <1>17, <2>1 DEF Links, b
  <2>3. EndView(t.sv[r], i) = f
    BY <1>5, <1>7 DEF EndView
  <2> QED BY <1>18, <1>19, <2>2, <2>3 DEF Meets
<1>21. ThereInv(t, r)
  <2>1. EndOK(f, t.u, r)
    BY <1>5, <1>15 DEF EndOK, Asked
  <2>2. \A x : ~Carries(t.d, "OPEN", r, x)
    BY <1>2, <1>8 DEF SameOpens
  <2> QED BY <1>5, <1>7, <1>15, <2>1, <2>2 DEF ThereInv
<1>22. PeerInv(t, r)
  <2>1. Links(t, i, a, r)
    BY <1>4, <1>8, <1>8f, <1>9, <1>12, <1>17 DEF Links, Alive, b
  <2>2. Joined(t, i, r)
    BY <2>1 DEF Joined
  <2> QED BY <1>5, <1>7, <2>2 DEF PeerInv
<1>23. \A j : j # i => ~Paired(t, j, r)
  BY <1>5, <1>7 DEF Paired
<1>24. \A q : ~Joined(s, i, q)
  BY <1>8, <1>8f, <1>11 DEF Joined, Links
<1> QED BY <1>2, <1>8, <1>10, <1>14, <1>20, <1>21, <1>22, <1>23, <1>24, CoreStep

\* The server opens a channel.
LEMMA SpeaksOpen ==
  ASSUME NEW s, Core(s), NEW t, NEW r \in Ids, s.sv[r].st = "none", NEW w \in Nat,
         NEW f, f = [NoEnd EXCEPT !.st = "opening", !.rcvwin = w],
         NEW n \in Packets, n.type = "OPEN", n.id = r, n.arg = w, Speaks(s, t, r, f, n)
  PROVE  Core(t)
<1>1. /\ s.sv \in [Ids -> Ends] /\ s.ch \in [Ids -> Chans] /\ s.u \in Seq(Packets) /\ s.d \in Seq(Packets)
      /\ Ord(s.u) /\ EofLast(s.u) /\ Ord(s.d)
  BY ConnFields DEF Core, Queues, Conns
<1>2. ~About(s.u, r) /\ ~Has(s.d, "OPEN", r) /\ (\A a : ~Carries(s.d, "OPEN", r, a)) /\ \A j : ~Paired(s, j, r)
  BY FreeEnd
<1>3. Shaped(t) /\ t.ch = s.ch /\ t.sv = [s.sv EXCEPT ![r] = f] /\ t.u = s.u /\ t.d = Append(s.d, n)
  BY DEF Speaks
<1>4. /\ f \in Ends /\ f.st = "opening" /\ f.rcvwin = w /\ f.closes = {} /\ f.asked = 0 /\ f.got = 0
      /\ f = [NoEnd EXCEPT !.st = "opening", !.rcvwin = f.rcvwin]
  <2>1. 0 \in Ids
    BY ChannelAssumption DEF Ids
  <2> DEFINE g == [NoEnd EXCEPT !.st = "opening", !.rcvwin = w]
  <2>2. g \in Ends /\ g.st = "opening" /\ g.rcvwin = w /\ g.closes = {} /\ g.asked = 0 /\ g.got = 0
    BY <2>1, NoEndFields DEF Ends
  <2>3. f = g
    OBVIOUS
  <2>4. g = [NoEnd EXCEPT !.st = "opening", !.rcvwin = w]
    OBVIOUS
  <2> HIDE DEF g
  <2>5. g = [NoEnd EXCEPT !.st = "opening", !.rcvwin = g.rcvwin]
    BY ONLY <2>2, <2>4
  <2> QED BY ONLY <2>2, <2>3, <2>5
<1>5. t.sv \in [Ids -> Ends] /\ t.sv[r] = f /\ \A q \in Ids : q # r => t.sv[q] = s.sv[q]
  BY <1>1, <1>3, <1>4
<1>6. t.d \in Seq(Packets) /\ Plus(t.d, s.d, n)
  BY <1>1, <1>3, AppendPlus
<1>7. Queues(t)
  <2>1. n.type = "OPEN" => ~Has(s.d, "OPEN", n.id)
    BY <1>2
  <2>2. Ord(Append(s.d, n))
    BY <1>1, <2>1, OrdAppend
  <2>3. t \in Conns
    BY <1>1, <1>3, <1>5, <1>6, ShapedConn
  <2> QED BY <1>1, <1>3, <2>2, <2>3 DEF Queues
<1>8. \A j : Same(s.d, t.d, j)
  BY <1>1, <1>6, PlusSame
<1>9. \A q : q # r => /\ Has(t.d, "OPEN", q) <=> Has(s.d, "OPEN", q)
                      /\ \A a : Carries(t.d, "OPEN", q, a) <=> Carries(s.d, "OPEN", q, a)
  BY <1>1, <1>6, PlusSame
<1>10. Elsewhere(s, t, -1, r)
  <2>1. \A q : Same(s.u, t.u, q)
    BY <1>3, SameSelf
  <2> QED BY <1>3, <1>5, <1>8, <1>9, <2>1 DEF Elsewhere
<1>11. /\ Dat(t.u, r) = 0 /\ Rsp(t.u, r) = 0 /\ ~About(t.u, r)
       /\ \A x : x # "OPEN" => ~Has(t.u, x, r)
       /\ \A x, b : x # "OPEN" => ~Carries(t.u, x, r, b)
  BY <1>1, <1>2, <1>3, Silent
<1>12. Has(t.d, "OPEN", r) /\ \A a : Carries(t.d, "OPEN", r, a) => a = w
  BY <1>2, <1>6 DEF Plus
<1>13. ThereInv(t, r)
  <2>1. EndOK(f, t.u, r)
    BY <1>4, <1>11 DEF EndOK, Asked
  <2> QED BY <1>4, <1>5, <1>11, <1>12, <2>1 DEF ThereInv
<1>14. PeerInv(t, r)
  BY <1>4, <1>5, <1>11, <1>12 DEF PeerInv
<1>15. \A j : ~Paired(t, j, r)
  BY <1>4, <1>5, <1>11 DEF Paired
<1>16. \A q : ~Joined(s, -1, q)
  BY NotAnId DEF Joined, Links
<1> QED BY <1>2, <1>7, <1>10, <1>13, <1>14, <1>15, <1>16, NotAnId, CoreStep

-----------------------------------------------------------------------------
(* The ids.                                                                *)

\* The channels and the ends that are in use.
Channels(s) == {i \in Ids : Alive(s, i)}
Served(s) == {r \in Ids : s.sv[r].st # "none"}

\* There are MaxOpens + 1 ids.
LEMMA IdsFinite ==
  IsFiniteSet(Ids) /\ Cardinality(Ids) = MaxOpens + 1 /\ MaxOpens \in Nat
<1>1. MaxOpens \in Nat
  BY ChannelAssumption
<1> QED BY <1>1, FS_Interval DEF Ids

\* Subsets of the ids, and one with one id more.
LEMMA FewIds ==
  ASSUME NEW A \in SUBSET Ids, NEW B \in SUBSET Ids
  PROVE  /\ Cardinality(A) \in Nat
         /\ A \subseteq B => Cardinality(A) <= Cardinality(B)
         /\ \A x : A \subseteq B \cup {x} => Cardinality(A) <= Cardinality(B) + 1
<1>1. IsFiniteSet(Ids)
  BY IdsFinite
<1>2. IsFiniteSet(A) /\ IsFiniteSet(B)
  BY <1>1, FS_Subset
<1>3. Cardinality(A) \in Nat /\ Cardinality(B) \in Nat
  BY <1>2, FS_CardinalityType
<1>4. A \subseteq B => Cardinality(A) <= Cardinality(B)
  BY <1>2, FS_Subset
<1>5. ASSUME NEW x, A \subseteq B \cup {x}
      PROVE  Cardinality(A) <= Cardinality(B) + 1
  <2>1. /\ IsFiniteSet(B \cup {x})
        /\ Cardinality(B \cup {x}) = IF x \in B THEN Cardinality(B) ELSE Cardinality(B) + 1
    BY <1>2, FS_AddElement
  <2>2. Cardinality(A) <= Cardinality(B \cup {x})
    BY <1>5, <2>1, FS_Subset
  <2>3. Cardinality(B \cup {x}) <= Cardinality(B) + 1
    BY <1>3, <2>1
  <2>4. Cardinality(B \cup {x}) \in Nat
    BY <2>1, FS_CardinalityType
  <2> QED BY <1>3, <2>2, <2>3, <2>4
<1> QED BY <1>3, <1>4, <1>5

\* The least free id is one, while there are fewer in use than ids.
LEMMA FreeId ==
  ASSUME NEW A \in SUBSET Ids, Cardinality(A) <= MaxOpens
  PROVE  Min(Ids \ A) \in Ids /\ Min(Ids \ A) \notin A
<1>1. A # Ids
  BY IdsFinite
<1>2. Ids \ A # {} /\ Ids \ A \in SUBSET Nat
  <2>1. Ids \subseteq Nat
    BY ChannelAssumption DEF Ids
  <2>2. Ids \ A # {}
    BY <1>1
  <2> QED BY <2>1, <2>2
<1> DEFINE S == Ids \ A
<1>3. Min(S) \in S
  BY <1>2, LeastOf
<1> QED BY <1>3

\* A side has no more channels than before, or one more, which was being opened.
Fewer(A, B, x, y) == (A \subseteq B /\ x <= y) \/ \E i : A \subseteq B \cup {i} /\ x + 1 <= y

\* Fewer keeps a bound on the channels and those being opened.
LEMMA FewerKept ==
  ASSUME NEW A \in SUBSET Ids, NEW B \in SUBSET Ids, NEW x \in Nat, NEW y \in Nat, Fewer(A, B, x, y),
         NEW k \in Nat, Cardinality(B) + y <= k
  PROVE  Cardinality(A) + x <= k
<1> DEFINE a == Cardinality(A)
           b == Cardinality(B)
<1>1. a \in Nat /\ b \in Nat
  BY FewIds
<1>2. (a <= b /\ x <= y) \/ (a <= b + 1 /\ x + 1 <= y)
  BY FewIds DEF Fewer
<1>3. b + y <= k
  OBVIOUS
<1> HIDE DEF a, b
<1>4. a + x <= k
  BY ONLY <1>1, <1>2, <1>3, x \in Nat, y \in Nat, k \in Nat
<1> QED BY <1>4 DEF a

\* So Counts is kept.
LEMMA CountsKept ==
  ASSUME NEW s, NEW t, NEW n, Counts(s, n), s.u \in Seq(Packets), s.d \in Seq(Packets),
         t.u \in Seq(Packets), t.d \in Seq(Packets),
         Fewer(Channels(t), Channels(s), Opn(t.d), Opn(s.d)),
         Fewer(Served(t), Served(s), Opn(t.u), Opn(s.u))
  PROVE  Counts(t, n)
<1>1. /\ Channels(s) \in SUBSET Ids /\ Channels(t) \in SUBSET Ids
      /\ Served(s) \in SUBSET Ids /\ Served(t) \in SUBSET Ids
  BY DEF Channels, Served
<1>2. Opn(s.d) \in Nat /\ Opn(t.d) \in Nat /\ Opn(s.u) \in Nat /\ Opn(t.u) \in Nat
  BY Sums
<1>3. n \in 0..MaxOpens /\ n + 1 \in Nat
  BY IdsFinite DEF Counts
<1>4. Cardinality(Channels(s)) + Opn(s.d) <= n + 1 /\ Cardinality(Served(s)) + Opn(s.u) <= n + 1
  BY DEF Counts, Channels, Served
<1> DEFINE k == n + 1
<1>5. k \in Nat /\ Cardinality(Channels(s)) + Opn(s.d) <= k /\ Cardinality(Served(s)) + Opn(s.u) <= k
  BY <1>3, <1>4
<1> HIDE DEF k
<1>6. Cardinality(Channels(t)) + Opn(t.d) <= k
  BY <1>1, <1>2, <1>5, FewerKept
<1>7. Cardinality(Served(t)) + Opn(t.u) <= k
  BY <1>1, <1>2, <1>5, FewerKept
<1> QED BY <1>3, <1>6, <1>7 DEF Counts, Channels, Served, k

\* The server opens another one.
LEMMA CountsOpened ==
  ASSUME NEW s, NEW t, NEW n, Counts(s, n), n < MaxOpens, s.u \in Seq(Packets), s.d \in Seq(Packets),
         NEW r, Channels(t) = Channels(s), Served(t) \subseteq Served(s) \cup {r},
         Opn(t.d) = Opn(s.d) + 1, t.u = s.u
  PROVE  Counts(t, n + 1)
<1> DEFINE A == Cardinality(Channels(s))
           B == Cardinality(Served(s))
           C == Cardinality(Served(t))
           x == Opn(s.d)
           y == Opn(s.u)
<1>1. /\ Channels(s) \in SUBSET Ids /\ Served(s) \in SUBSET Ids /\ Served(t) \in SUBSET Ids
  BY DEF Channels, Served
<1>2. A \in Nat /\ B \in Nat /\ C \in Nat /\ C <= B + 1
  BY <1>1, FewIds
<1>3. x \in Nat /\ y \in Nat
  BY Sums
<1>4. n \in 0..MaxOpens /\ MaxOpens \in Nat /\ n < MaxOpens
  BY IdsFinite DEF Counts
<1>5. A + x <= n + 1 /\ B + y <= n + 1
  BY DEF Counts, Channels, Served
<1>6. Cardinality(Channels(t)) = A /\ Opn(t.d) = x + 1 /\ Opn(t.u) = y /\ Cardinality(Served(t)) = C
  OBVIOUS
<1> HIDE DEF A, B, C, x, y
<1>7. n + 1 \in 0..MaxOpens /\ A + (x + 1) <= (n + 1) + 1 /\ C + y <= (n + 1) + 1
  BY ONLY <1>2, <1>3, <1>4, <1>5
<1> QED BY ONLY <1>6, <1>7 DEF Counts, Channels, Served

\* A connection in which there is an id for every channel.
Sound(s, n) == Core(s) /\ Counts(s, n)

\* The types of what a connection holds.
LEMMA SoundFields ==
  ASSUME NEW s, Core(s)
  PROVE  /\ s \in Conns /\ s.u \in Seq(Packets) /\ s.d \in Seq(Packets)
         /\ s.ch \in [Ids -> Chans] /\ s.sv \in [Ids -> Ends]
BY ConnFields DEF Core, Queues, Conns

\* A handler of the client's on a channel it has.
LEMMA HandlerSound ==
  ASSUME NEW s, NEW t, NEW n, Sound(s, n), NEW i \in Ids, Alive(s, i), NEW p, NEW d,
         Opn(d) = Opn(s.d), Good(s, i, p, d), Handles(s, t, i, Result(p), p.out, d)
  PROVE  Sound(t, n)
<1>1. Core(s) /\ Counts(s, n)
  BY DEF Sound
<1>2. Core(t) /\ SameOpens(s.u, t.u)
  BY DEF Good
<1>3. s.u \in Seq(Packets) /\ s.d \in Seq(Packets) /\ s.ch \in [Ids -> Chans]
  BY <1>1, SoundFields
<1>4. t.u \in Seq(Packets) /\ t.d \in Seq(Packets)
  BY <1>2, SoundFields
<1>5. t.sv = s.sv /\ t.d = d /\ \A j \in Ids : j # i => t.ch[j] = s.ch[j]
  BY <1>3 DEF Handles
<1>6. Channels(t) \subseteq Channels(s) /\ Served(t) = Served(s)
  BY <1>5 DEF Channels, Served, Alive
<1>7. Opn(t.u) = Opn(s.u) /\ Opn(t.d) = Opn(s.d)
  BY <1>2, <1>5 DEF SameOpens
<1>8. Opn(t.u) <= Opn(s.u) /\ Opn(t.d) <= Opn(s.d)
  <2>1. Opn(s.u) \in Nat /\ Opn(s.d) \in Nat
    BY <1>3, Sums
  <2> QED BY ONLY <1>7, <2>1
<1>9. Fewer(Channels(t), Channels(s), Opn(t.d), Opn(s.d)) /\ Fewer(Served(t), Served(s), Opn(t.u), Opn(s.u))
  BY <1>6, <1>8 DEF Fewer
<1>10. Counts(t, n)
  BY <1>1, <1>3, <1>4, <1>9, CountsKept
<1> QED BY <1>2, <1>10 DEF Sound

\* The client answers the server's OPEN.
SameBut(f, g, i) == \A j \in Ids : j # i => f[j] = g[j]

\* The answer to OPEN keeps Counts: one OPEN less for at most one channel more.
LEMMA AnswersCounts ==
  ASSUME NEW s, NEW t, NEW n, Sound(s, n), s.d # <<>>, NEW m, m = Head(s.d), m.type = "OPEN",
         Core(t), NEW ch, NEW a \in Packets, a.type # "OPEN", Answers(s, t, ch, a),
         NEW i, SameBut(ch, s.ch, i)
  PROVE  Sound(t, n)
<1>1. Core(s) /\ Counts(s, n)
  BY DEF Sound
<1>2. s.u \in Seq(Packets) /\ s.d \in Seq(Packets) /\ t.u \in Seq(Packets) /\ t.d \in Seq(Packets)
  BY <1>1, SoundFields
<1>3. t.ch = ch /\ t.sv = s.sv /\ t.u = Append(s.u, a) /\ t.d = Tail(s.d)
  BY DEF Answers
<1>4. Channels(t) \subseteq Channels(s) \cup {i} /\ Served(t) \subseteq Served(s)
  BY <1>3 DEF Channels, Served, Alive, SameBut
<1>5. Plus(s.d, t.d, m)
  BY <1>1, <1>3, TakePacket
<1>6. Plus(t.u, s.u, a)
  BY <1>2, <1>3, AppendPlus
<1>7. Opn(s.d) = Opn(t.d) + 1
  BY <1>5 DEF Plus
<1>8. Opn(t.u) = Opn(s.u) + 0
  BY <1>6 DEF Plus
<1>9. Opn(t.d) + 1 <= Opn(s.d) /\ Opn(t.u) <= Opn(s.u)
  <2>1. Opn(s.u) \in Nat /\ Opn(t.d) \in Nat /\ Opn(s.d) \in Nat
    BY <1>2, Sums
  <2> QED BY <1>7, <1>8, <2>1
<1>10. Fewer(Channels(t), Channels(s), Opn(t.d), Opn(s.d)) /\ Fewer(Served(t), Served(s), Opn(t.u), Opn(s.u))
  BY <1>4, <1>9 DEF Fewer
<1>11. Counts(t, n)
  BY <1>1, <1>2, <1>10, CountsKept
<1> QED BY <1>11 DEF Sound

\* When OPEN comes there is an id for the channel.
LEMMA FreeChannel ==
  ASSUME NEW s, NEW n, Sound(s, n), s.d # <<>>, NEW m, m = Head(s.d), m.type = "OPEN"
  PROVE  Min(Ids \ Channels(s)) \in Ids /\ ~Alive(s, Min(Ids \ Channels(s)))
<1>1. Core(s) /\ Counts(s, n)
  BY DEF Sound
<1>2. Tail(s.d) \in Seq(Packets) /\ Plus(s.d, Tail(s.d), m)
  BY <1>1, TakePacket
<1> DEFINE x == Opn(s.d)
           y == Opn(Tail(s.d))
           A == Cardinality(Channels(s))
<1>3. x = y + 1
  BY <1>2 DEF Plus
<1>4. y \in Nat
  BY <1>2, Sums
<1>5. Channels(s) \in SUBSET Ids
  BY DEF Channels
<1>6. A \in Nat
  BY <1>5, FewIds
<1>7. n \in 0..MaxOpens /\ MaxOpens \in Nat /\ A + x <= n + 1
  BY <1>1, IdsFinite DEF Counts, Channels
<1> HIDE DEF x, y, A
<1>8. A <= MaxOpens
  BY ONLY <1>3, <1>4, <1>6, <1>7
<1>9. Min(Ids \ Channels(s)) \in Ids /\ Min(Ids \ Channels(s)) \notin Channels(s)
  BY <1>5, <1>8, FreeId DEF A
<1> QED BY <1>9 DEF Channels

\* The answer to OPEN keeps Sound.
LEMMA GotOpenSound ==
  ASSUME NEW s, NEW t, NEW n, Sound(s, n), s.d # <<>>, NEW m, m = Head(s.d), m.type = "OPEN",
         NEW i, i = Min(Ids \ Channels(s)),
         \/ Answers(s, t, [s.ch EXCEPT ![i] = NewChannel("fwd", m.id, FALSE, m.arg)],
                    Packet("CONFIRM", m.id, i))
         \/ Answers(s, t, s.ch, Packet("OPENFAIL", m.id, 0))
  PROVE  Sound(t, n)
<1>1. Core(s) /\ m.id \in Ids /\ s.ch \in [Ids -> Chans]
  BY TakePacket, SoundFields DEF Sound
<1>2. i \in Ids /\ ~Alive(s, i)
  BY FreeChannel
<1>3. CASE Answers(s, t, s.ch, Packet("OPENFAIL", m.id, 0))
  <2>1. Core(t)
    BY <1>1, <1>3, OpenRefused
  <2> DEFINE a == Packet("OPENFAIL", m.id, 0)
             C == s.ch
  <2>2. a \in Packets /\ a.type # "OPEN"
    BY <1>1, PacketTyped, PacketIs
  <2>3. Answers(s, t, C, a) /\ SameBut(C, s.ch, i)
    BY <1>3 DEF SameBut
  <2> HIDE DEF a, C
  <2>5. Sound(s, n) /\ s.d # <<>> /\ m = Head(s.d) /\ m.type = "OPEN"
    OBVIOUS
  <2> QED BY ONLY <2>1, <2>2, <2>3, <2>5, AnswersCounts
<1>4. CASE Answers(s, t, [s.ch EXCEPT ![i] = NewChannel("fwd", m.id, FALSE, m.arg)],
                   Packet("CONFIRM", m.id, i))
  <2>1. Core(t)
    BY <1>1, <1>2, <1>4, OpenConfirmed
  <2> DEFINE a == Packet("CONFIRM", m.id, i)
             x == NewChannel("fwd", m.id, FALSE, m.arg)
             C == [s.ch EXCEPT ![i] = x]
  <2>2. a \in Packets /\ a.type # "OPEN"
    <3>1. i \in Nat
      BY <1>2 DEF Ids
    <3>2. a \in Packets
      BY <1>1, <3>1, PacketTyped
    <3> QED BY <3>2, PacketIs
  <2>3. Answers(s, t, C, a)
    BY <1>4
  <2> HIDE DEF a, x
  <2>4. SameBut(C, s.ch, i)
    BY <1>1 DEF SameBut
  <2> HIDE DEF C
  <2>5. Sound(s, n) /\ s.d # <<>> /\ m = Head(s.d) /\ m.type = "OPEN"
    OBVIOUS
  <2> QED BY ONLY <2>1, <2>2, <2>3, <2>4, <2>5, AnswersCounts
<1> QED BY <1>3, <1>4

\* The server says something on an end it has.
LEMMA SpeaksCounts ==
  ASSUME NEW s, NEW t, NEW n, Sound(s, n), Core(t), NEW r \in Ids, s.sv[r].st # "none",
         NEW e, NEW a \in Packets, a.type # "OPEN", Speaks(s, t, r, e, a)
  PROVE  Sound(t, n)
<1>1. Core(s) /\ Counts(s, n)
  BY DEF Sound
<1>2. /\ s.u \in Seq(Packets) /\ s.d \in Seq(Packets) /\ t.u \in Seq(Packets) /\ t.d \in Seq(Packets)
      /\ s.sv \in [Ids -> Ends]
  BY <1>1, SoundFields
<1>3. t.ch = s.ch /\ t.u = s.u /\ t.d = Append(s.d, a) /\ \A q \in Ids : q # r => t.sv[q] = s.sv[q]
  BY <1>2 DEF Speaks
<1>4. Channels(t) \subseteq Channels(s) /\ Served(t) \subseteq Served(s)
  BY <1>3 DEF Channels, Served, Alive
<1>5. Plus(t.d, s.d, a)
  BY <1>2, <1>3, AppendPlus
<1>6. Opn(t.d) = Opn(s.d) + 0
  BY <1>5 DEF Plus
<1>7. Opn(t.d) <= Opn(s.d) /\ Opn(t.u) <= Opn(s.u)
  <2>1. Opn(s.u) \in Nat /\ Opn(s.d) \in Nat
    BY <1>2, Sums
  <2> QED BY <1>3, <1>6, <2>1
<1>8. Fewer(Channels(t), Channels(s), Opn(t.d), Opn(s.d)) /\ Fewer(Served(t), Served(s), Opn(t.u), Opn(s.u))
  BY <1>4, <1>7 DEF Fewer
<1>9. Counts(t, n)
  BY <1>1, <1>2, <1>8, CountsKept
<1> QED BY <1>9 DEF Sound

\* The server takes a packet for an end it has, and may send one that is not OPEN.
LEMMA HearsCounts ==
  ASSUME NEW s, NEW t, NEW n, Sound(s, n), Core(t), NEW r \in Ids, NEW m, m = Head(s.u), s.u # <<>>,
         m.type # "OPEN" => s.sv[r].st # "none",
         NEW e, NEW d, d = s.d \/ \E a \in Packets : a.type # "OPEN" /\ d = Append(s.d, a),
         Hears(s, t, r, e, d)
  PROVE  Sound(t, n)
<1>1. Core(s) /\ Counts(s, n)
  BY DEF Sound
<1>2. /\ s.u \in Seq(Packets) /\ s.d \in Seq(Packets) /\ t.u \in Seq(Packets) /\ t.d \in Seq(Packets)
      /\ s.sv \in [Ids -> Ends]
  BY <1>1, SoundFields
<1>3. t.ch = s.ch /\ t.u = Tail(s.u) /\ t.d = d /\ \A q \in Ids : q # r => t.sv[q] = s.sv[q]
  BY <1>2 DEF Hears
<1>4. Channels(t) \subseteq Channels(s) /\ Served(t) \subseteq Served(s) \cup {r}
  BY <1>3 DEF Channels, Served, Alive
<1>5. Plus(s.u, t.u, m)
  BY <1>1, <1>3, TakeReceived DEF Received
<1>6. Opn(s.u) = Opn(t.u) + (IF m.type = "OPEN" THEN 1 ELSE 0)
  BY <1>5 DEF Plus
<1>7. Opn(t.d) = Opn(s.d)
  <2>1. CASE d = s.d
    BY <1>3, <2>1
  <2>2. ASSUME NEW a \in Packets, a.type # "OPEN", d = Append(s.d, a)
        PROVE  Opn(t.d) = Opn(s.d)
    <3>1. Plus(t.d, s.d, a)
      BY <1>2, <1>3, <2>2, AppendPlus
    <3>2. Opn(t.d) = Opn(s.d) + 0
      BY <2>2, <3>1 DEF Plus
    <3>3. Opn(s.d) \in Nat
      BY <1>2, Sums
    <3> QED BY <3>2, <3>3
  <2> QED BY <2>1, <2>2
<1>8. Opn(s.u) \in Nat /\ Opn(t.u) \in Nat /\ Opn(s.d) \in Nat
  BY <1>2, Sums
<1>9. Fewer(Channels(t), Channels(s), Opn(t.d), Opn(s.d))
  <2>1. Opn(t.d) <= Opn(s.d)
    BY <1>7, <1>8
  <2> QED BY <1>4, <2>1 DEF Fewer
<1>10. Fewer(Served(t), Served(s), Opn(t.u), Opn(s.u))
  <2>1. CASE m.type = "OPEN"
    <3>1. Opn(t.u) + 1 <= Opn(s.u)
      BY <1>6, <1>8, <2>1
    <3> QED BY <1>4, <3>1 DEF Fewer
  <2>2. CASE m.type # "OPEN"
    <3>1. Opn(t.u) <= Opn(s.u)
      BY <1>6, <1>8, <2>2
    <3>2. Served(t) \subseteq Served(s)
      BY <1>4, <2>2 DEF Served
    <3> QED BY <3>1, <3>2 DEF Fewer
  <2> QED BY <2>1, <2>2
<1>11. Counts(t, n)
  BY <1>1, <1>2, <1>9, <1>10, CountsKept
<1> QED BY <1>11 DEF Sound

\* Our OPEN finds an id free at the server, and so does its own.
LEMMA FreeServed ==
  ASSUME NEW s, NEW n, Sound(s, n),
         n < MaxOpens \/ (s.u # <<>> /\ Head(s.u).type = "OPEN")
  PROVE  Min(Ids \ Served(s)) \in Ids /\ s.sv[Min(Ids \ Served(s))].st = "none"
<1>1. Core(s) /\ Counts(s, n)
  BY DEF Sound
<1> DEFINE x == Opn(s.u)
           A == Cardinality(Served(s))
<1>2. x \in Nat
  BY <1>1, SoundFields, Sums
<1>3. n < MaxOpens \/ x >= 1
  <2>1. CASE s.u # <<>> /\ Head(s.u).type = "OPEN"
    <3> DEFINE m == Head(s.u)
               v == Tail(s.u)
    <3>1. Received(s, m, v)
      BY <1>1, <2>1, TakeReceived
    <3>2. v \in Seq(Packets) /\ Plus(s.u, v, m) /\ m.type = "OPEN"
      BY <2>1, <3>1 DEF Received
    <3> HIDE DEF m, v
    <3>3. x = Opn(v) + 1
      BY <3>2 DEF Plus
    <3>4. Opn(v) \in Nat
      BY <3>2, Sums
    <3> QED BY <3>3, <3>4
  <2> QED BY <2>1
<1>4. Served(s) \in SUBSET Ids
  BY DEF Served
<1>5. A \in Nat
  BY <1>4, FewIds
<1>6. n \in 0..MaxOpens /\ MaxOpens \in Nat /\ A + x <= n + 1
  BY <1>1, IdsFinite DEF Counts, Served
<1> HIDE DEF x, A
<1>7. A <= MaxOpens
  BY ONLY <1>2, <1>3, <1>5, <1>6
<1>8. Min(Ids \ Served(s)) \in Ids /\ Min(Ids \ Served(s)) \notin Served(s)
  BY <1>4, <1>7, FreeId DEF A
<1> QED BY <1>8 DEF Served

-----------------------------------------------------------------------------
(* What the server's actions make of an end.                               *)

\* SrvData, SrvAdjust, SrvAsks, SrvEof and SrvCloses.
LEMMA SrvMoves ==
  ASSUME NEW e \in Ends, NEW n \in Packets
  PROVE  /\ \A k \in Nat : n.type = "DATA" /\ n.arg = k /\ k <= e.sndwin /\ k <= e.tosend =>
              LET f == [e EXCEPT !.sndwin = @ - k, !.tosend = @ - k] IN f \in Ends /\ Moves(e, f, n)
         /\ n.type = "ADJUST" /\ e.rcvwin < RemWin /\ n.arg = RemWin - e.rcvwin =>
              LET f == [e EXCEPT !.rcvwin = RemWin] IN f \in Ends /\ Moves(e, f, n)
         /\ n.type = "REQ" /\ e.asked = 0 =>
              LET f == [e EXCEPT !.asked = 1] IN f \in Ends /\ Moves(e, f, n)
         /\ n.type = "EOF" =>
              LET f == [e EXCEPT !.closes = @ \cup {"SENT_EOF"}] IN f \in Ends /\ Moves(e, f, n)
         /\ n.type = "CLOSE" =>
              LET f == [e EXCEPT !.closes = @ \cup {"SENT_EOF", "SENT_CLOSE"}]
              IN f \in Ends /\ Moves(e, f, n)
<1>1. /\ e.sndwin \in Nat /\ e.rcvwin \in Nat /\ e.got \in Nat /\ e.tosend \in Nat
      /\ e.asked \in 0..2 /\ e.closes \subseteq Closes /\ Asked(e) \in Nat
  BY EndFields
<1>2. RemWin \in Nat
  BY ChannelAssumption
<1>3. ASSUME NEW k \in Nat, n.type = "DATA", n.arg = k, k <= e.sndwin, k <= e.tosend
      PROVE  LET f == [e EXCEPT !.sndwin = @ - k, !.tosend = @ - k] IN f \in Ends /\ Moves(e, f, n)
  <2> DEFINE x == e.sndwin - k
             y == e.tosend - k
             f == [e EXCEPT !.sndwin = x, !.tosend = y]
  <2>1. x \in Nat /\ y \in Nat
    BY <1>1, <1>3
  <2>2. x = e.sndwin - k
    OBVIOUS
  <2> HIDE DEF x, y
  <2>3. /\ f \in Ends /\ f.sndwin = x /\ f.rcvwin = e.rcvwin /\ f.got = e.got /\ f.st = e.st
        /\ f.peer = e.peer /\ f.asked = e.asked /\ f.closes = e.closes
    BY <2>1 DEF Ends
  <2> HIDE DEF f
  <2>4. Moves(e, f, n)
    <3>1. Asked(f) = Asked(e) + 0 /\ f.rcvwin = e.rcvwin + 0
      BY <1>1, <2>3 DEF Asked
    <3> QED BY <1>3, <2>2, <2>3, <3>1 DEF Moves
  <2> QED BY <2>3, <2>4 DEF f, x, y
<1>4. ASSUME n.type = "ADJUST", e.rcvwin < RemWin, n.arg = RemWin - e.rcvwin
      PROVE  LET f == [e EXCEPT !.rcvwin = RemWin] IN f \in Ends /\ Moves(e, f, n)
  <2> DEFINE f == [e EXCEPT !.rcvwin = RemWin]
  <2>3. /\ f \in Ends /\ f.sndwin = e.sndwin /\ f.rcvwin = RemWin /\ f.got = e.got /\ f.st = e.st
        /\ f.peer = e.peer /\ f.asked = e.asked /\ f.closes = e.closes
    BY <1>2 DEF Ends
  <2> HIDE DEF f
  <2>4. Moves(e, f, n)
    <3>1. Asked(f) = Asked(e) + 0 /\ f.sndwin = e.sndwin - 0
      BY <1>1, <2>3 DEF Asked
    <3>2. RemWin = e.rcvwin + (RemWin - e.rcvwin)
      BY <1>1, <1>2
    <3> QED BY <1>4, <2>3, <3>1, <3>2 DEF Moves
  <2> QED BY <2>3, <2>4 DEF f
<1>5. ASSUME n.type = "REQ", e.asked = 0
      PROVE  LET f == [e EXCEPT !.asked = 1] IN f \in Ends /\ Moves(e, f, n)
  <2> DEFINE f == [e EXCEPT !.asked = 1]
  <2>3. /\ f \in Ends /\ f.sndwin = e.sndwin /\ f.rcvwin = e.rcvwin /\ f.got = e.got /\ f.st = e.st
        /\ f.peer = e.peer /\ f.asked = 1 /\ f.closes = e.closes
    BY DEF Ends
  <2> HIDE DEF f
  <2>4. Moves(e, f, n)
    <3>1. Asked(f) = Asked(e) + 1 /\ f.sndwin = e.sndwin - 0 /\ f.rcvwin = e.rcvwin + 0
      BY <1>1, <1>5, <2>3 DEF Asked
    <3> QED BY <1>5, <2>3, <3>1 DEF Moves
  <2> QED BY <2>3, <2>4 DEF f
<1>6. ASSUME n.type = "EOF"
      PROVE  LET f == [e EXCEPT !.closes = @ \cup {"SENT_EOF"}] IN f \in Ends /\ Moves(e, f, n)
  <2> DEFINE f == [e EXCEPT !.closes = @ \cup {"SENT_EOF"}]
  <2>3. /\ f \in Ends /\ f.sndwin = e.sndwin /\ f.rcvwin = e.rcvwin /\ f.got = e.got /\ f.st = e.st
        /\ f.peer = e.peer /\ f.asked = e.asked /\ f.closes = e.closes \cup {"SENT_EOF"}
    BY DEF Ends, Closes
  <2> HIDE DEF f
  <2>4. Moves(e, f, n)
    <3>1. Asked(f) = Asked(e) + 0 /\ f.sndwin = e.sndwin - 0 /\ f.rcvwin = e.rcvwin + 0
      BY <1>1, <2>3 DEF Asked
    <3> QED BY <1>6, <2>3, <3>1 DEF Moves
  <2> QED BY <2>3, <2>4 DEF f
<1>7. ASSUME n.type = "CLOSE"
      PROVE  LET f == [e EXCEPT !.closes = @ \cup {"SENT_EOF", "SENT_CLOSE"}]
             IN f \in Ends /\ Moves(e, f, n)
  <2> DEFINE f == [e EXCEPT !.closes = @ \cup {"SENT_EOF", "SENT_CLOSE"}]
  <2>3. /\ f \in Ends /\ f.sndwin = e.sndwin /\ f.rcvwin = e.rcvwin /\ f.got = e.got /\ f.st = e.st
        /\ f.peer = e.peer /\ f.asked = e.asked /\ f.closes = e.closes \cup {"SENT_EOF", "SENT_CLOSE"}
    BY DEF Ends, Closes
  <2> HIDE DEF f
  <2>4. Moves(e, f, n)
    <3>1. Asked(f) = Asked(e) + 0 /\ f.sndwin = e.sndwin - 0 /\ f.rcvwin = e.rcvwin + 0
      BY <1>1, <2>3 DEF Asked
    <3> QED BY <1>7, <2>3, <3>1 DEF Moves
  <2> QED BY <2>3, <2>4 DEF f
<1> QED BY <1>3, <1>4, <1>5, <1>6, <1>7

\* What SrvTakes makes of the end a packet of an open channel is for.
LEMMA SrvBecomes ==
  ASSUME NEW e \in Ends, NEW m \in Packets
  PROVE  /\ m.type = "DATA" /\ m.arg <= e.rcvwin =>
              LET f == [e EXCEPT !.rcvwin = @ - m.arg, !.got = @ + m.arg] IN f \in Ends /\ Becomes(e, f, m)
         /\ m.type = "ADJUST" =>
              LET f == [e EXCEPT !.sndwin = @ + m.arg] IN f \in Ends /\ Becomes(e, f, m)
         /\ m.type = "RESP" /\ e.asked = 1 =>
              LET f == [e EXCEPT !.asked = 2] IN f \in Ends /\ Becomes(e, f, m)
         /\ m.type = "EOF" =>
              LET f == [e EXCEPT !.closes = @ \cup {"RCVD_EOF"}] IN f \in Ends /\ Becomes(e, f, m)
         /\ m.type = "CLOSE" =>
              LET f == [e EXCEPT !.closes = @ \cup {"RCVD_EOF", "RCVD_CLOSE"}]
              IN f \in Ends /\ Becomes(e, f, m)
         /\ m.type = "REQ" => Becomes(e, e, m)
         /\ m.type = "REQ" => \A x \in BOOLEAN :
              LET f == [e EXCEPT !.started = x] IN f \in Ends /\ Becomes(e, f, m)
<1>1. /\ e.sndwin \in Nat /\ e.rcvwin \in Nat /\ e.got \in Nat /\ e.tosend \in Nat
      /\ e.asked \in 0..2 /\ e.closes \subseteq Closes /\ Asked(e) \in Nat
  BY EndFields
<1>2. m.type \in {"DATA", "ADJUST"} => m.arg \in Nat
  BY PacketFields
<1>3. ASSUME m.type = "DATA", m.arg <= e.rcvwin
      PROVE  LET f == [e EXCEPT !.rcvwin = @ - m.arg, !.got = @ + m.arg] IN f \in Ends /\ Becomes(e, f, m)
  <2> DEFINE x == e.rcvwin - m.arg
             y == e.got + m.arg
             f == [e EXCEPT !.rcvwin = x, !.got = y]
  <2>1. x \in Nat /\ y \in Nat
    BY <1>1, <1>2, <1>3
  <2>2. x = e.rcvwin - m.arg /\ y = e.got + m.arg
    OBVIOUS
  <2> HIDE DEF x, y
  <2>3. /\ f \in Ends /\ f.sndwin = e.sndwin /\ f.rcvwin = x /\ f.got = y /\ f.st = e.st
        /\ f.peer = e.peer /\ f.asked = e.asked /\ f.closes = e.closes
    BY <2>1 DEF Ends
  <2> HIDE DEF f
  <2>4. Becomes(e, f, m)
    <3>1. Asked(f) = Asked(e) - 0 /\ f.sndwin = e.sndwin + 0
      BY <1>1, <2>3 DEF Asked
    <3> QED BY <1>3, <2>2, <2>3, <3>1 DEF Becomes
  <2> QED BY <2>3, <2>4 DEF f, x, y
<1>4. ASSUME m.type = "ADJUST"
      PROVE  LET f == [e EXCEPT !.sndwin = @ + m.arg] IN f \in Ends /\ Becomes(e, f, m)
  <2> DEFINE x == e.sndwin + m.arg
             f == [e EXCEPT !.sndwin = x]
  <2>1. x \in Nat
    BY <1>1, <1>2, <1>4
  <2>2. x = e.sndwin + m.arg
    OBVIOUS
  <2> HIDE DEF x
  <2>3. /\ f \in Ends /\ f.sndwin = x /\ f.rcvwin = e.rcvwin /\ f.got = e.got /\ f.st = e.st
        /\ f.peer = e.peer /\ f.asked = e.asked /\ f.closes = e.closes
    BY <2>1 DEF Ends
  <2> HIDE DEF f
  <2>4. Becomes(e, f, m)
    <3>1. Asked(f) = Asked(e) - 0 /\ f.rcvwin = e.rcvwin - 0 /\ f.got = e.got + 0
      BY <1>1, <2>3 DEF Asked
    <3> QED BY <1>4, <2>2, <2>3, <3>1 DEF Becomes
  <2> QED BY <2>3, <2>4 DEF f, x
<1>5. ASSUME m.type = "RESP", e.asked = 1
      PROVE  LET f == [e EXCEPT !.asked = 2] IN f \in Ends /\ Becomes(e, f, m)
  <2> DEFINE f == [e EXCEPT !.asked = 2]
  <2>3. /\ f \in Ends /\ f.sndwin = e.sndwin /\ f.rcvwin = e.rcvwin /\ f.got = e.got /\ f.st = e.st
        /\ f.peer = e.peer /\ f.asked = 2 /\ f.closes = e.closes
    BY DEF Ends
  <2> HIDE DEF f
  <2>4. Becomes(e, f, m)
    <3>1. Asked(f) = Asked(e) - 1 /\ f.rcvwin = e.rcvwin - 0 /\ f.got = e.got + 0 /\ f.sndwin = e.sndwin + 0
      BY <1>1, <1>5, <2>3 DEF Asked
    <3> QED BY <1>5, <2>3, <3>1 DEF Becomes
  <2> QED BY <2>3, <2>4 DEF f
<1>6. ASSUME m.type = "EOF"
      PROVE  LET f == [e EXCEPT !.closes = @ \cup {"RCVD_EOF"}] IN f \in Ends /\ Becomes(e, f, m)
  <2> DEFINE f == [e EXCEPT !.closes = @ \cup {"RCVD_EOF"}]
  <2>3. /\ f \in Ends /\ f.sndwin = e.sndwin /\ f.rcvwin = e.rcvwin /\ f.got = e.got /\ f.st = e.st
        /\ f.peer = e.peer /\ f.asked = e.asked /\ f.closes = e.closes \cup {"RCVD_EOF"}
    BY DEF Ends, Closes
  <2> HIDE DEF f
  <2>4. Becomes(e, f, m)
    <3>1. Asked(f) = Asked(e) - 0 /\ f.rcvwin = e.rcvwin - 0 /\ f.got = e.got + 0 /\ f.sndwin = e.sndwin + 0
      BY <1>1, <2>3 DEF Asked
    <3> QED BY <1>6, <2>3, <3>1 DEF Becomes
  <2> QED BY <2>3, <2>4 DEF f
<1>7. ASSUME m.type = "CLOSE"
      PROVE  LET f == [e EXCEPT !.closes = @ \cup {"RCVD_EOF", "RCVD_CLOSE"}]
             IN f \in Ends /\ Becomes(e, f, m)
  <2> DEFINE f == [e EXCEPT !.closes = @ \cup {"RCVD_EOF", "RCVD_CLOSE"}]
  <2>3. /\ f \in Ends /\ f.sndwin = e.sndwin /\ f.rcvwin = e.rcvwin /\ f.got = e.got /\ f.st = e.st
        /\ f.peer = e.peer /\ f.asked = e.asked /\ f.closes = e.closes \cup {"RCVD_EOF", "RCVD_CLOSE"}
    BY DEF Ends, Closes
  <2> HIDE DEF f
  <2>4. Becomes(e, f, m)
    <3>1. Asked(f) = Asked(e) - 0 /\ f.rcvwin = e.rcvwin - 0 /\ f.got = e.got + 0 /\ f.sndwin = e.sndwin + 0
      BY <1>1, <2>3 DEF Asked
    <3> QED BY <1>7, <2>3, <3>1 DEF Becomes
  <2> QED BY <2>3, <2>4 DEF f
<1>8. ASSUME m.type = "REQ"
      PROVE  /\ Becomes(e, e, m)
             /\ \A x \in BOOLEAN : LET f == [e EXCEPT !.started = x] IN f \in Ends /\ Becomes(e, f, m)
  <2>1. ASSUME NEW f, f.sndwin = e.sndwin, f.rcvwin = e.rcvwin, f.got = e.got, f.st = e.st,
               f.peer = e.peer, f.asked = e.asked, f.closes = e.closes
        PROVE  Becomes(e, f, m)
    <3>1. Asked(f) = Asked(e) - 0 /\ f.rcvwin = e.rcvwin - 0 /\ f.got = e.got + 0 /\ f.sndwin = e.sndwin + 0
      BY <1>1, <2>1 DEF Asked
    <3> QED BY <1>8, <2>1, <3>1 DEF Becomes
  <2>2. ASSUME NEW x \in BOOLEAN
        PROVE  LET f == [e EXCEPT !.started = x] IN f \in Ends /\ Becomes(e, f, m)
    <3> DEFINE f == [e EXCEPT !.started = x]
    <3>1. /\ f \in Ends /\ f.sndwin = e.sndwin /\ f.rcvwin = e.rcvwin /\ f.got = e.got /\ f.st = e.st
          /\ f.peer = e.peer /\ f.asked = e.asked /\ f.closes = e.closes
      BY DEF Ends
    <3> HIDE DEF f
    <3> QED BY <2>1, <3>1 DEF f
  <2> QED BY <2>1, <2>2
<1> QED BY <1>3, <1>4, <1>5, <1>6, <1>7, <1>8

\* A packet the server sends on an open end.
LEMMA SpeaksSound ==
  ASSUME NEW s, NEW t, NEW n, Sound(s, n), NEW r \in Ids, s.sv[r].st = "open",
         "SENT_CLOSE" \notin s.sv[r].closes, NEW f, NEW a \in Packets, Speaks(s, t, r, f, a),
         a.id = s.sv[r].peer, a.type \in {"DATA", "ADJUST", "REQ", "EOF", "CLOSE"},
         a.type = "REQ" => a.arg # "window-change", a.type = "DATA" => a.arg <= s.sv[r].sndwin,
         \/ /\ f \in Ends /\ Moves(s.sv[r], f, a)
            /\ a.type = "CLOSE" => "RCVD_CLOSE" \notin s.sv[r].closes
         \/ a.type = "CLOSE" /\ f = NoEnd /\ "RCVD_CLOSE" \in s.sv[r].closes
  PROVE  Sound(t, n)
<1>1. Core(s)
  BY DEF Sound
<1> DEFINE i == s.sv[r].peer
<1>2. s.sv[r].peer = i /\ a.id = i
  OBVIOUS
<1> HIDE DEF i
<1>3. CASE f \in Ends /\ Moves(s.sv[r], f, a) /\ (a.type = "CLOSE" => "RCVD_CLOSE" \notin s.sv[r].closes)
  BY <1>1, <1>2, <1>3, SpeaksCore, SpeaksCounts
<1>4. CASE a.type = "CLOSE" /\ f = NoEnd /\ "RCVD_CLOSE" \in s.sv[r].closes
  <2>1. Speaks(s, t, r, NoEnd, a)
    BY <1>4
  <2>2. Core(t)
    BY <1>1, <1>2, <1>4, <2>1, SpeaksLast
  <2> QED BY <2>2, SpeaksCounts
<1> QED BY <1>3, <1>4

\* SrvOpens.
LEMMA SpeaksOpenSound ==
  ASSUME NEW s, NEW t, NEW n, Sound(s, n), n < MaxOpens, NEW r, r = Min(Ids \ Served(s)), NEW w \in Nat,
         Speaks(s, t, r, [NoEnd EXCEPT !.st = "opening", !.rcvwin = w], Packet("OPEN", r, w))
  PROVE  Sound(t, n + 1)
<1>1. Core(s) /\ Counts(s, n)
  BY DEF Sound
<1>2. r \in Ids /\ s.sv[r].st = "none"
  BY FreeServed
<1> DEFINE f == [NoEnd EXCEPT !.st = "opening", !.rcvwin = w]
           a == Packet("OPEN", r, w)
<1>3. a \in Packets
  BY <1>2, PacketTyped
<1>4. a.type = "OPEN" /\ a.id = r /\ a.arg = w
  BY PacketIs
<1>5. Speaks(s, t, r, f, a) /\ f = [NoEnd EXCEPT !.st = "opening", !.rcvwin = w]
  OBVIOUS
<1> HIDE DEF f, a
<1>6. Core(t)
  BY <1>1, <1>2, <1>3, <1>4, <1>5, SpeaksOpen
<1>7. /\ s.u \in Seq(Packets) /\ s.d \in Seq(Packets) /\ s.sv \in [Ids -> Ends]
  BY <1>1, SoundFields
<1>8. t.ch = s.ch /\ t.u = s.u /\ t.d = Append(s.d, a) /\ \A q \in Ids : q # r => t.sv[q] = s.sv[q]
  BY <1>5, <1>7 DEF Speaks
<1>9. Channels(t) = Channels(s) /\ Served(t) \subseteq Served(s) \cup {r}
  BY <1>8 DEF Channels, Served, Alive
<1>10. Plus(t.d, s.d, a)
  BY <1>3, <1>7, <1>8, AppendPlus
<1>11. Opn(t.d) = Opn(s.d) + 1
  BY <1>4, <1>10 DEF Plus
<1>12. Counts(t, n + 1)
  BY <1>1, <1>7, <1>8, <1>9, <1>11, CountsOpened
<1> QED BY <1>6, <1>12 DEF Sound

\* The server answers our OPEN.
LEMMA HearsOpenSound ==
  ASSUME NEW s, NEW t, NEW n, Sound(s, n), s.u # <<>>, NEW m, m = Head(s.u), m.type = "OPEN",
         NEW r, r = Min(Ids \ Served(s)),
         \/ \E w \in Nat : Hears(s, t, r, Opened(m.id, w), Append(s.d, Packet("CONFIRM", m.id, <<r, w>>)))
         \/ Hears(s, t, r, NoEnd, Append(s.d, Packet("OPENFAIL", m.id, 0)))
  PROVE  Sound(t, n)
<1>1. Core(s)
  BY DEF Sound
<1>2. r \in Ids /\ s.sv[r].st = "none"
  BY FreeServed
<1>3. m.id \in Ids
  BY <1>1, TakeReceived DEF Received
<1>4. CASE Hears(s, t, r, NoEnd, Append(s.d, Packet("OPENFAIL", m.id, 0)))
  <2> DEFINE a == Packet("OPENFAIL", m.id, 0)
             d == Append(s.d, a)
  <2>1. a \in Packets
    BY <1>3, PacketTyped
  <2>2. a.type = "OPENFAIL" /\ a.id = m.id
    BY PacketIs
  <2>3. Hears(s, t, r, NoEnd, Append(s.d, a))
    BY <1>4
  <2> HIDE DEF a
  <2>4. Core(t)
    BY <1>1, <1>2, <2>1, <2>2, <2>3, HearsOpenRefuses
  <2>5. Hears(s, t, r, NoEnd, d) /\ \E b \in Packets : b.type # "OPEN" /\ d = Append(s.d, b)
    BY <2>1, <2>2, <2>3
  <2> HIDE DEF d
  <2> QED BY <1>2, <2>4, <2>5, HearsCounts
<1>5. ASSUME NEW w \in Nat, Hears(s, t, r, Opened(m.id, w), Append(s.d, Packet("CONFIRM", m.id, <<r, w>>)))
      PROVE  Sound(t, n)
  <2> DEFINE x == <<r, w>>
             a == Packet("CONFIRM", m.id, x)
             d == Append(s.d, a)
             f == Opened(m.id, w)
  <2>1. x \in Ids \X Nat
    BY <1>2
  <2>2. a \in Packets /\ a.type = "CONFIRM" /\ a.id = m.id /\ a.arg = x
    <3> HIDE DEF x
    <3>1. a \in Packets
      BY <1>3, <2>1, PacketTyped
    <3> QED BY <3>1, PacketIs
  <2>3. Hears(s, t, r, f, Append(s.d, a)) /\ a.arg = <<r, w>> /\ f = Opened(m.id, w)
    BY <1>5, <2>2
  <2> HIDE DEF a, f
  <2>4. Core(t)
    BY <1>1, <1>2, <2>2, <2>3, HearsOpenConfirms
  <2>5. Hears(s, t, r, f, d) /\ \E b \in Packets : b.type # "OPEN" /\ d = Append(s.d, b)
    BY <2>2, <2>3
  <2> HIDE DEF d
  <2> QED BY <1>2, <2>4, <2>5, HearsCounts
<1> QED BY <1>4, <1>5

\* The server answers a request, or does not.
LEMMA HearsRequestSound ==
  ASSUME NEW s, NEW t, NEW n, Sound(s, n), s.u # <<>>, NEW m, m = Head(s.u), m.type = "REQ",
         NEW r, r = m.id, NEW e, e = s.sv[r],
         \/ /\ m.arg = "window-change" \/ "SENT_CLOSE" \in e.closes
            /\ Hears(s, t, r, e, s.d)
         \/ /\ m.arg # "window-change" /\ "SENT_CLOSE" \notin e.closes
            /\ \E ok \in BOOLEAN, x \in BOOLEAN :
                 Hears(s, t, r, [e EXCEPT !.started = x], Append(s.d, Packet("RESP", e.peer, ok)))
  PROVE  Sound(t, n)
<1>1. Core(s)
  BY DEF Sound
<1>2. Received(s, m, Tail(s.u)) /\ m \in Packets /\ r \in Ids
  BY <1>1, TakeReceived DEF Received
<1>3. e.st = "open"
  BY <1>1, <1>2, ReceivedLegal
<1>4. e \in Ends /\ e.peer \in Ids
  <2>1. e \in Ends
    BY <1>1, <1>2, SoundFields
  <2> QED BY <2>1, EndFields
<1>5. CASE (m.arg = "window-change" \/ "SENT_CLOSE" \in e.closes) /\ Hears(s, t, r, e, s.d)
  <2>1. Becomes(e, e, m)
    BY <1>2, <1>4, SrvBecomes
  <2>2. Core(t)
    BY <1>1, <1>2, <1>4, <1>5, <2>1, HearsCore
  <2> DEFINE d == s.d
  <2>3. Hears(s, t, r, e, d) /\ d = s.d
    BY <1>5
  <2> HIDE DEF d
  <2> QED BY <1>2, <1>3, <2>2, <2>3, HearsCounts
<1>6. ASSUME m.arg # "window-change", "SENT_CLOSE" \notin e.closes, NEW ok \in BOOLEAN, NEW x \in BOOLEAN,
             Hears(s, t, r, [e EXCEPT !.started = x], Append(s.d, Packet("RESP", e.peer, ok)))
      PROVE  Sound(t, n)
  <2> DEFINE f == [e EXCEPT !.started = x]
             a == Packet("RESP", e.peer, ok)
             d == Append(s.d, a)
             i == e.peer
  <2>1. f \in Ends /\ Becomes(e, f, m)
    BY <1>2, <1>4, SrvBecomes
  <2>2. a \in Packets /\ a.type = "RESP" /\ a.id = i
    BY <1>4, PacketTyped DEF Packet
  <2>3. Hears(s, t, r, f, Append(s.d, a)) /\ s.sv[r].peer = i
    BY <1>6
  <2> HIDE DEF f, a, i
  <2>4. Core(t)
    BY <1>1, <1>2, <1>6, <2>1, <2>2, <2>3, HearsRequest
  <2>5. Hears(s, t, r, f, d) /\ \E b \in Packets : b.type # "OPEN" /\ d = Append(s.d, b)
    BY <2>2, <2>3
  <2> HIDE DEF d
  <2> QED BY <1>2, <1>3, <2>4, <2>5, HearsCounts
<1> QED BY <1>5, <1>6

\* The server takes any other packet of an open channel.
LEMMA HearsSound ==
  ASSUME NEW s, NEW t, NEW n, Sound(s, n), s.u # <<>>, NEW m, m = Head(s.u),
         m.type \in {"DATA", "ADJUST", "RESP", "EOF", "CLOSE"},
         NEW r, r = m.id, NEW e, e = s.sv[r], NEW f, Hears(s, t, r, f, s.d),
         \/ /\ f \in Ends /\ Becomes(e, f, m)
            /\ m.type = "CLOSE" => "SENT_CLOSE" \notin e.closes
         \/ m.type = "CLOSE" /\ f = NoEnd /\ "SENT_CLOSE" \in e.closes
  PROVE  Sound(t, n)
<1>1. Core(s)
  BY DEF Sound
<1>2. Received(s, m, Tail(s.u)) /\ m \in Packets /\ r \in Ids
  BY <1>1, TakeReceived DEF Received
<1>3. s.sv[r].st = "open"
  BY <1>1, <1>2, ReceivedLegal
<1>4. Core(t)
  <2>1. CASE f \in Ends /\ Becomes(e, f, m) /\ (m.type = "CLOSE" => "SENT_CLOSE" \notin e.closes)
    BY <1>1, <1>2, <2>1, HearsCore
  <2>2. CASE m.type = "CLOSE" /\ f = NoEnd /\ "SENT_CLOSE" \in e.closes
    <3>1. Hears(s, t, r, NoEnd, s.d)
      BY <2>2
    <3> QED BY <1>1, <1>2, <2>2, <3>1, HearsLast
  <2> QED BY <2>1, <2>2
<1> DEFINE d == s.d
<1>5. Hears(s, t, r, f, d) /\ d = s.d
  OBVIOUS
<1> HIDE DEF d
<1> QED BY <1>2, <1>3, <1>4, <1>5, HearsCounts

\* The server has our answer to its OPEN.
LEMMA HearsAnswerSound ==
  ASSUME NEW s, NEW t, NEW n, Sound(s, n), s.u # <<>>, NEW m, m = Head(s.u), NEW r, r = m.id,
         \/ m.type = "OPENFAIL" /\ Hears(s, t, r, NoEnd, s.d)
         \/ /\ m.type = "CONFIRM"
            /\ Hears(s, t, r, [Opened(m.arg, s.sv[r].rcvwin) EXCEPT !.started = TRUE], s.d)
  PROVE  Sound(t, n)
<1>1. Core(s)
  BY DEF Sound
<1>2. Received(s, m, Tail(s.u)) /\ m \in Packets /\ r \in Ids /\ m.type \in {"CONFIRM", "OPENFAIL"}
  BY <1>1, TakeReceived DEF Received
<1>3. s.sv[r].st = "opening"
  BY <1>1, <1>2, AnswerComes
<1> DEFINE d == s.d
           g == [Opened(m.arg, s.sv[r].rcvwin) EXCEPT !.started = TRUE]
<1>4. d = s.d
  OBVIOUS
<1>5. CASE m.type = "OPENFAIL" /\ Hears(s, t, r, NoEnd, s.d)
  <2>1. Core(t)
    BY <1>1, <1>2, <1>5, HearsRefusal
  <2>2. Hears(s, t, r, NoEnd, d)
    BY <1>5
  <2> HIDE DEF d
  <2> QED BY <1>2, <1>3, <1>4, <1>5, <2>1, <2>2, HearsCounts
<1>6. CASE m.type = "CONFIRM" /\ Hears(s, t, r, g, s.d)
  <2>1. g = [Opened(m.arg, s.sv[r].rcvwin) EXCEPT !.started = TRUE]
    OBVIOUS
  <2> HIDE DEF g
  <2>2. Core(t)
    BY <1>1, <1>2, <1>6, <2>1, HearsConfirm
  <2>3. Hears(s, t, r, g, d)
    BY <1>6
  <2> HIDE DEF d
  <2> QED BY <1>2, <1>3, <1>4, <1>6, <2>2, <2>3, HearsCounts
<1> QED BY <1>5, <1>6

-----------------------------------------------------------------------------
(* The actions.                                                            *)

\* The connection before a step is s, and after it t.
Now(s) == Shaped(s) /\ s.ch = chan /\ s.sv = srv /\ s.u = toServer /\ s.d = toClient
Then(t) == Shaped(t) /\ t.ch = chan' /\ t.sv = srv' /\ t.u = toServer' /\ t.d = toClient'

\* What else there is to say of a state.
Rest ==
  /\ fault \in {"none", "typed", "resized"}
  /\ callbacks \subseteq {"check", "abort"} /\ conn \in {"up", "closed", "aborted"}

\* A step that leaves the channels, the ends and the queues.
LEMMA SameConn ==
  ASSUME NEW s, NEW t, Now(s), Then(t), UNCHANGED <<chan, srv, toServer, toClient>>
  PROVE  t = s
<1>1. t.ch = s.ch /\ t.sv = s.sv /\ t.u = s.u /\ t.d = s.d
  BY DEF Now, Then
<1>2. /\ s = [ch |-> s.ch, sv |-> s.sv, u |-> s.u, d |-> s.d]
      /\ t = [ch |-> t.ch, sv |-> t.sv, u |-> t.u, d |-> t.d]
  BY DEF Now, Then, Shaped
<1> QED BY ONLY <1>1, <1>2

\* The ids that alloc_channel_id and the server find in use.
LEMMA UsedIs ==
  ASSUME NEW s, Now(s)
  PROVE  Used = Channels(s) /\ SrvUsed = Served(s)
BY DEF Now, Used, SrvUsed, Channels, Served, Alive

\* A handler that has done its work.
LEMMA Finishes ==
  ASSUME NEW s, NEW t, Now(s), Then(t), NEW n, Sound(s, n), Rest, NEW i \in Ids, Alive(s, i),
         NEW p, NEW d, Opn(d) = Opn(s.d), Good(s, i, p, d), Finish(i, p),
         srv' = srv, toClient' = d, conn' = conn
  PROVE  Sound(t, n) /\ Rest'
<1>1. p.err = "none"
  BY DEF Good
<1>2. /\ chan' = [chan EXCEPT ![i] = Result(p)] /\ toServer' = toServer \o p.out
      /\ callbacks' = callbacks \cup (IF p.gone THEN {"check"} ELSE {})
                                \cup (IF p.abort THEN {"abort"} ELSE {})
      /\ fault' = fault
  BY <1>1 DEF Finish, Result
<1>3. Rest'
  <2>1. callbacks' \subseteq {"check", "abort"}
    BY <1>2 DEF Rest
  <2> QED BY <1>2, <2>1 DEF Rest
<1>4. Handles(s, t, i, Result(p), p.out, d)
  BY <1>2 DEF Handles, Now, Then
<1>5. Sound(t, n)
  BY <1>4, HandlerSound
<1> QED BY <1>3, <1>5

\* The same for what the local side does.
LEMMA LocalFinishes ==
  ASSUME NEW s, NEW t, Now(s), Then(t), Sound(s, opens), Rest, NEW i \in Ids, Alive(s, i),
         NEW p, Good(s, i, p, s.d), Local(i, p)
  PROVE  Sound(t, opens') /\ Rest'
<1> DEFINE d == s.d
<1>1. Finish(i, p) /\ srv' = srv /\ toClient' = d /\ conn' = conn /\ opens' = opens
  BY DEF Local, Now
<1>2. Opn(d) = Opn(s.d) /\ Good(s, i, p, d)
  OBVIOUS
<1> HIDE DEF d
<1>3. Sound(t, opens) /\ Rest'
  BY <1>1, <1>2, Finishes
<1> QED BY ONLY <1>1, <1>3

\* A failed assertion the invariant allows changes nothing but fault.
LEMMA LocalFails ==
  ASSUME NEW s, NEW t, Now(s), Then(t), Sound(s, opens), Rest, NEW i, NEW p,
         p.err \in {"typed", "resized"}, Local(i, p)
  PROVE  Sound(t, opens') /\ Rest'
<1>1. /\ fault' = p.err /\ UNCHANGED <<chan, toServer, callbacks>>
      /\ UNCHANGED <<srv, toClient, conn, opens>>
  BY DEF Local, Finish
<1>2. t = s
  BY <1>1, SameConn
<1>3. Rest'
  BY <1>1 DEF Rest
<1> QED BY <1>1, <1>2, <1>3

\* The user types, ends the input or resizes the terminal.
LEMMA UserActs ==
  ASSUME NEW s, NEW t, Now(s), Then(t), Sound(s, opens), Rest, NEW i \in Ids,
         UserTypes(i) \/ UserEof(i) \/ UserResizes(i)
  PROVE  Sound(t, opens') /\ Rest'
<1> DEFINE c == s.ch[i]
<1>1. Core(s) /\ c = chan[i] /\ c = s.ch[i]
  BY DEF Sound, Now
<1>2. c \in Chans
  BY <1>1, SoundFields
<1> HIDE DEF c
<1>3. c.kind = "main" /\ Alive(s, i)
  BY <1>1 DEF UserTypes, UserEof, UserResizes, Alive
<1>4. CASE UserTypes(i)
  <2> DEFINE p == ssh2channel_write(P(c), 1)
  <2>1. c.wanted /\ Local(i, IF p.err = "none" THEN p ELSE [p EXCEPT !.err = "typed"])
    BY <1>1, <1>4 DEF UserTypes
  <2>2. CASE "SENT_EOF" \notin c.closes
    <3>1. Good(s, i, p, s.d)
      BY <1>1, <1>3, <2>1, <2>2, UserGood
    <3> HIDE DEF p
    <3>2. p.err = "none"
      BY <3>1 DEF Good
    <3>3. Local(i, p)
      BY ONLY <2>1, <3>2
    <3> QED BY <1>3, <3>1, <3>3, LocalFinishes
  <2>3. CASE "SENT_EOF" \in c.closes
    <3> DEFINE q == [p EXCEPT !.err = "typed"]
    <3>1. p.err # "none" /\ q.err = "typed"
      BY <2>3 DEF ssh2channel_write, Done, P, Err
    <3>2. Local(i, q)
      <4> HIDE DEF p
      <4> QED BY ONLY <2>1, <3>1
    <3>3. q.err \in {"typed", "resized"}
      BY <3>1
    <3> HIDE DEF q, p
    <3> QED BY <3>2, <3>3, LocalFails
  <2> QED BY <2>2, <2>3
<1>5. CASE UserEof(i)
  <2> DEFINE p == mainchan_eof(P(c))
  <2>1. c.wanted /\ Local(i, p)
    BY <1>1, <1>5 DEF UserEof
  <2>2. Good(s, i, p, s.d)
    BY <1>1, <1>3, <2>1, UserGood
  <2> HIDE DEF p
  <2> QED BY <1>3, <2>1, <2>2, LocalFinishes
<1>6. CASE UserResizes(i)
  <2> DEFINE p == ssh2_chanreq_init(P(c), "window-change", 0)
  <2>1. Local(i, IF p.err = "none" THEN p ELSE [p EXCEPT !.err = "resized"])
    BY <1>1, <1>6 DEF UserResizes
  <2>2. c.got_pty \/ c.chanreq # <<>>
    <3>1. c.got_pty \/ \E k \in DOMAIN c.chanreq : c.chanreq[k].what = "pty"
      BY <1>1, <1>6 DEF UserResizes
    <3>2. ASSUME c.chanreq = <<>>
          PROVE  DOMAIN c.chanreq = {}
      BY <3>2
    <3> QED BY <3>1, <3>2
  <2>3. CASE "SENT_CLOSE" \notin c.closes
    <3>1. Good(s, i, p, s.d)
      BY <1>1, <1>3, <2>2, <2>3, UserGood
    <3> HIDE DEF p
    <3>2. p.err = "none"
      BY <3>1 DEF Good
    <3>3. Local(i, p)
      BY ONLY <2>1, <3>2
    <3> QED BY <1>3, <3>1, <3>3, LocalFinishes
  <2>4. CASE "SENT_CLOSE" \in c.closes
    <3> DEFINE q == [p EXCEPT !.err = "resized"]
    <3>1. p.err # "none" /\ q.err = "resized"
      BY <2>4 DEF ssh2_chanreq_init, Done, P, Err
    <3>2. Local(i, q)
      <4> HIDE DEF p
      <4> QED BY ONLY <2>1, <3>1
    <3>3. q.err \in {"typed", "resized"}
      BY <3>1
    <3> HIDE DEF q, p
    <3> QED BY <3>2, <3>3, LocalFails
  <2> QED BY <2>3, <2>4
<1> QED BY <1>4, <1>5, <1>6

\* The local socket of a forwarding reads, ends or writes; the user ends a drag.
LEMMA SocketActs ==
  ASSUME NEW s, NEW t, Now(s), Then(t), Sound(s, opens), Rest, NEW i \in Ids,
         DragEnds(i) \/ SocketReads(i) \/ SocketEnds(i) \/ SocketWrites(i)
  PROVE  Sound(t, opens') /\ Rest'
<1> DEFINE c == s.ch[i]
<1>1. Core(s) /\ c = chan[i] /\ c = s.ch[i]
  BY DEF Sound, Now
<1> HIDE DEF c
<1>2. Alive(s, i)
  BY <1>1 DEF DragEnds, SocketReads, SocketEnds, SocketWrites, Alive
<1>3. \E p : Local(i, p) /\ Good(s, i, p, s.d)
  <2>1. CASE DragEnds(i)
    <3> DEFINE p == ssh2channel_unthrottle(P([c EXCEPT !.sink = 0]))
    <3>1. c.sink > 0 /\ Local(i, p)
      BY <1>1, <2>1 DEF DragEnds
    <3>2. Good(s, i, p, s.d)
      BY <1>1, <1>2, <3>1, SinkGood
    <3> HIDE DEF p
    <3> QED BY <3>1, <3>2
  <2>2. CASE SocketWrites(i)
    <3> DEFINE p == P([c EXCEPT !.sink = 0])
    <3>1. c.sink > 0 /\ Local(i, p)
      BY <1>1, <2>2 DEF SocketWrites
    <3>2. Good(s, i, p, s.d)
      BY <1>1, <1>2, <3>1, SinkGood
    <3> HIDE DEF p
    <3> QED BY <3>1, <3>2
  <2>3. CASE SocketReads(i)
    <3> DEFINE p == ssh2channel_write(P(c), 1)
    <3>1. c.kind = "fwd" /\ ~c.localEof /\ Local(i, p)
      BY <1>1, <2>3 DEF SocketReads
    <3>2. Good(s, i, p, s.d)
      BY <1>1, <3>1, SocketGood
    <3> HIDE DEF p
    <3> QED BY <3>1, <3>2
  <2>4. CASE SocketEnds(i)
    <3> DEFINE p == ssh2channel_write_eof(P([c EXCEPT !.localEof = TRUE]))
               q == ssh2channel_initiate_close(P([c EXCEPT !.localEof = TRUE]))
    <3>1. c.kind = "fwd" /\ ~c.localEof /\ (Local(i, p) \/ Local(i, q))
      BY <1>1, <2>4 DEF SocketEnds
    <3>2. Good(s, i, p, s.d) /\ Good(s, i, q, s.d)
      BY <1>1, <3>1, SocketGood
    <3> HIDE DEF p, q
    <3> QED BY <3>1, <3>2
  <2> QED BY <2>1, <2>2, <2>3, <2>4
<1> QED BY <1>2, <1>3, LocalFinishes

\* The callbacks: the check for termination and the deferred abort.
LEMMA CallbackActs ==
  ASSUME NEW s, NEW t, Now(s), Then(t), Sound(s, opens), Rest,
         ssh2_check_termination \/ ssh_deferred_abort
  PROVE  Sound(t, opens') /\ Rest'
<1>1. UNCHANGED <<chan, srv, toServer, toClient, opens, fault>>
  BY DEF ssh2_check_termination, ssh_deferred_abort
<1>2. t = s
  BY <1>1, SameConn
<1>3. Rest'
  BY <1>1 DEF Rest, ssh2_check_termination, ssh_deferred_abort
<1> QED BY <1>1, <1>2, <1>3

\* The packet on top is for a channel the client has, half-open if it is an answer.
LEMMA NotMisplaced ==
  ASSUME NEW s, Now(s), Core(s), s.d # <<>>, NEW m, m = Head(s.d), m.type # "OPEN"
  PROVE  ~Misplaced(m)
<1>1. m.id \in Ids /\ Alive(s, m.id) /\ (s.ch[m.id].halfopen <=> m.type \in {"CONFIRM", "OPENFAIL"})
  BY TakePacket
<1>2. s.ch[m.id].halfopen \in BOOLEAN
  <2>1. s.ch[m.id] \in Chans
    BY <1>1, SoundFields
  <2> QED BY <2>1 DEF Chans
<1>3. m.id \in Used /\ chan[m.id] = s.ch[m.id]
  BY <1>1 DEF Now, Used, Alive
<1> QED BY <1>1, <1>2, <1>3 DEF Misplaced

\* What filter_queue calls for a packet that is not about opening a channel, alt being
\* what the user and the configuration decide.
Handler(m, c, alt) ==
  CASE m.type = "CONFIRM" -> GotConfirmation(P(c), m.arg[1], m.arg[2], alt)
    [] m.type = "DATA" -> GotData(P(c), m.arg, alt)
    [] m.type = "ADJUST" -> GotAdjust(P(c), m.arg)
    [] m.type = "REQ" -> GotRequest(P(c))
    [] m.type = "RESP" -> GotResponse(P(c), m.arg, alt)
    [] m.type = "EOF" -> GotEof(P(c))
    [] m.type = "CLOSE" -> GotClose(P(c), alt)

\* Every handler of a packet leaves its channel in order.
LEMMA HandlerGood ==
  ASSUME NEW s, Core(s), s.d # <<>>, NEW m, m = Head(s.d), m.type \notin {"OPEN", "OPENFAIL"},
         NEW alt \in BOOLEAN
  PROVE  Good(s, m.id, Handler(m, s.ch[m.id], alt), Tail(s.d))
<1>1. m.type \in {"CONFIRM", "DATA", "ADJUST", "REQ", "RESP", "EOF", "CLOSE"}
  <2>1. m \in Packets
    BY TakePacket
  <2> QED BY <2>1, PacketFields DEF PacketTypes
<1> DEFINE c == s.ch[m.id]
           d == Tail(s.d)
           i == m.id
<1>2. m.type = "CONFIRM" => Good(s, i, GotConfirmation(P(c), m.arg[1], m.arg[2], alt), d)
  BY ConfirmPacketGood
<1>3. m.type = "CLOSE" => Good(s, i, GotClose(P(c), alt), d)
  BY ClosePacketGood
<1>4. m.type \in {"DATA", "ADJUST", "REQ", "RESP", "EOF"} =>
      /\ m.type = "DATA" => Good(s, i, GotData(P(c), m.arg, alt), d)
      /\ m.type = "ADJUST" => Good(s, i, GotAdjust(P(c), m.arg), d)
      /\ m.type = "REQ" => Good(s, i, GotRequest(P(c)), d)
      /\ m.type = "RESP" => Good(s, i, GotResponse(P(c), m.arg, alt), d)
      /\ m.type = "EOF" => Good(s, i, GotEof(P(c)), d)
  BY OpenPacketGood
<1> HIDE DEF c, d, i
<1>5. /\ m.type = "CONFIRM" => Handler(m, c, alt) = GotConfirmation(P(c), m.arg[1], m.arg[2], alt)
      /\ m.type = "DATA" => Handler(m, c, alt) = GotData(P(c), m.arg, alt)
      /\ m.type = "ADJUST" => Handler(m, c, alt) = GotAdjust(P(c), m.arg)
      /\ m.type = "REQ" => Handler(m, c, alt) = GotRequest(P(c))
      /\ m.type = "RESP" => Handler(m, c, alt) = GotResponse(P(c), m.arg, alt)
      /\ m.type = "EOF" => Handler(m, c, alt) = GotEof(P(c))
      /\ m.type = "CLOSE" => Handler(m, c, alt) = GotClose(P(c), alt)
  BY ONLY DEF Handler
<1>6. Good(s, i, Handler(m, c, alt), d)
  BY ONLY <1>1, <1>2, <1>3, <1>4, <1>5
<1> QED BY ONLY <1>6 DEF c, d, i

\* filter_queue takes the first packet from the server.
LEMMA FilterActs ==
  ASSUME NEW s, NEW t, Now(s), Then(t), Sound(s, opens), Rest, filter_queue
  PROVE  Sound(t, opens') /\ Rest'
<1> DEFINE m == Head(s.d)
           d == Tail(s.d)
           i == m.id
<1>1. Core(s) /\ m = Head(s.d) /\ i = m.id /\ d = Tail(s.d)
  BY DEF Sound
<1>2. s.d # <<>> /\ toClient' = d /\ srv' = srv /\ conn' = conn /\ opens' = opens
  BY DEF Now, filter_queue
<1>3. i \in Ids /\ d \in Seq(Packets)
  BY <1>1, <1>2, TakePacket
<1>4. CASE m.type = "OPEN"
  <2>1. GotOpen(m)
    BY <1>4 DEF filter_queue, Now
  <2> HIDE DEF m, d, i
  <2>2. UNCHANGED <<callbacks, fault>>
    BY <2>1 DEF GotOpen
  <2>3. Used = Channels(s)
    BY UsedIs
  <2> DEFINE j == Min(Ids \ Channels(s))
             x == NewChannel("fwd", m.id, FALSE, m.arg)
  <2>4. \/ chan' = [chan EXCEPT ![j] = x] /\ toServer' = Append(toServer, Packet("CONFIRM", m.id, j))
        \/ UNCHANGED chan /\ toServer' = Append(toServer, Packet("OPENFAIL", m.id, 0))
    BY ONLY <2>1, <2>3 DEF GotOpen
  <2>5. j = Min(Ids \ Channels(s)) /\ x = NewChannel("fwd", m.id, FALSE, m.arg)
    OBVIOUS
  <2> HIDE DEF j, x
  <2>6. \/ Answers(s, t, [s.ch EXCEPT ![j] = x], Packet("CONFIRM", m.id, j))
        \/ Answers(s, t, s.ch, Packet("OPENFAIL", m.id, 0))
    BY <1>1, <1>2, <2>4 DEF Answers, Now, Then
  <2>7. \/ Answers(s, t, [s.ch EXCEPT ![j] = NewChannel("fwd", m.id, FALSE, m.arg)], Packet("CONFIRM", m.id, j))
        \/ Answers(s, t, s.ch, Packet("OPENFAIL", m.id, 0))
    BY ONLY <2>5, <2>6
  <2>8. Sound(s, opens)
    OBVIOUS
  <2>9. Sound(t, opens)
    BY ONLY <1>1, <1>2, <1>4, <2>5, <2>7, <2>8, GotOpenSound
  <2>10. Rest'
    BY <1>2, <2>2 DEF Rest
  <2> QED BY <1>2, <2>9, <2>10
<1>5. ASSUME m.type # "OPEN"
      PROVE  ~Misplaced(m) /\ Alive(s, i) /\ Opn(d) = Opn(s.d)
  <2>1. ~Misplaced(m)
    BY <1>1, <1>2, <1>5, NotMisplaced
  <2>2. Alive(s, i) /\ SameOpens(s.d, d)
    BY <1>1, <1>2, <1>5, TakePacket
  <2> QED BY <2>1, <2>2 DEF SameOpens
<1>6. CASE m.type = "OPENFAIL"
  <2>1. m.type # "OPEN" /\ ~Misplaced(m)
    BY <1>5, <1>6
  <2>2. GotOpenFailure(i)
    BY <1>6, <2>1 DEF filter_queue, Now
  <2>3. Alive(s, i) /\ Opn(d) = Opn(s.d)
    BY <1>5, <2>1
  <2> HIDE DEF m, d, i
  <2> DEFINE p == [c |-> NoChannel, out |-> <<>>, gone |-> FALSE, abort |-> TRUE, err |-> "none"]
  <2>4. p.err = "none" /\ Result(p) = NoChannel /\ p.out = <<>> /\ ~p.gone /\ p.abort /\ p.c = NoChannel
    BY DEF Result
  <2> HIDE DEF p
  <2>5. toServer \o <<>> = toServer
    <3>1. s.u \in Seq(Packets)
      BY <1>1, SoundFields
    <3> QED BY <3>1 DEF Now
  <2>6. Finish(i, p)
    BY <2>2, <2>4, <2>5 DEF Finish, GotOpenFailure
  <2>7. Good(s, i, p, d)
    <3> SUFFICES ASSUME NEW v, Handles(s, v, i, NoChannel, <<>>, d)
                 PROVE  Core(v) /\ SameOpens(s.u, v.u)
      BY <2>4 DEF Good
    <3>1. Core(v)
      BY <1>1, <1>2, <1>6, OpenFailed
    <3>2. v.u = s.u
      <4>1. s.u \in Seq(Packets) /\ v.u = s.u \o <<>>
        BY <1>1, SoundFields DEF Handles
      <4> QED BY <4>1
    <3> QED BY <3>1, <3>2, SameSelf
  <2>8. Sound(t, opens) /\ Rest'
    BY <1>2, <1>3, <2>3, <2>6, <2>7, Finishes
  <2> QED BY <1>2, <2>8
<1>7. CASE m.type \notin {"OPEN", "OPENFAIL"}
  <2>1. m.type # "OPEN" /\ m.type # "OPENFAIL" /\ ~Misplaced(m)
    BY <1>5, <1>7
  <2>2. \E alt \in BOOLEAN : Finish(i, Handler(m, s.ch[i], alt))
    BY <2>1 DEF filter_queue, Now, Handler
  <2>3. PICK alt \in BOOLEAN : Finish(i, Handler(m, s.ch[i], alt))
    BY <2>2
  <2>4. Alive(s, i) /\ Opn(d) = Opn(s.d)
    BY <1>5, <2>1
  <2> HIDE DEF m, d, i
  <2> DEFINE p == Handler(m, s.ch[i], alt)
  <2>5. Good(s, m.id, Handler(m, s.ch[m.id], alt), Tail(s.d))
    BY <1>1, <1>2, <1>7, HandlerGood
  <2>6. Good(s, i, p, d) /\ Finish(i, p)
    BY <1>1, <2>3, <2>5
  <2> HIDE DEF p
  <2>7. Sound(t, opens) /\ Rest'
    BY <1>2, <1>3, <2>4, <2>6, Finishes
  <2> QED BY <1>2, <2>7
<1> QED BY <1>4, <1>6, <1>7

\* The server appends one packet.
LEMMA ChangeSpeaks ==
  ASSUME NEW s, NEW t, Now(s), Then(t), Core(s), NEW r, NEW f, NEW a, SrvChange(r, f, <<a>>)
  PROVE  /\ toServer' = toServer => Speaks(s, t, r, f, a)
         /\ toServer' = Tail(toServer) => Hears(s, t, r, f, Append(s.d, a))
         /\ UNCHANGED <<callbacks, conn, fault>>
<1>1. s.d \in Seq(Packets)
  BY SoundFields
<1>2. s.d \o <<a>> = Append(s.d, a)
  BY <1>1
<1>3. srv' = [srv EXCEPT ![r] = f] /\ toClient' = toClient \o <<a>> /\ UNCHANGED <<chan, callbacks, conn, fault>>
  BY DEF SrvChange
<1>4. t.d = Append(s.d, a)
  BY <1>2, <1>3 DEF Now, Then
<1> QED BY <1>3, <1>4 DEF Speaks, Hears, Now, Then

\* A step of the server's that takes a packet and sends none.
LEMMA ChangeHears ==
  ASSUME NEW s, NEW t, Now(s), Then(t), Core(s), NEW r, NEW f, SrvChange(r, f, <<>>), toServer' = Tail(toServer)
  PROVE  Hears(s, t, r, f, s.d) /\ UNCHANGED <<callbacks, conn, fault>>
<1>1. s.d \in Seq(Packets)
  BY SoundFields
<1>2. s.d \o <<>> = s.d
  BY <1>1
<1>3. srv' = [srv EXCEPT ![r] = f] /\ toClient' = toClient \o <<>> /\ UNCHANGED <<chan, callbacks, conn, fault>>
  BY DEF SrvChange
<1>4. t.d = s.d
  BY <1>2, <1>3 DEF Now, Then
<1> QED BY <1>3, <1>4 DEF Hears, Now, Then

\* The server sends a packet on end r.
LEMMA SaysActs ==
  ASSUME NEW s, NEW t, Now(s), Then(t), Sound(s, opens), Rest, NEW r \in Ids, s.sv[r].st = "open",
         "SENT_CLOSE" \notin s.sv[r].closes, NEW f, NEW type, NEW arg, SrvSays(r, f, type, arg),
         NEW a \in Packets, a = Packet(type, s.sv[r].peer, arg),
         a.type \in {"DATA", "ADJUST", "REQ", "EOF", "CLOSE"},
         a.type = "REQ" => a.arg # "window-change", a.type = "DATA" => a.arg <= s.sv[r].sndwin,
         \/ /\ f \in Ends /\ Moves(s.sv[r], f, a)
            /\ a.type = "CLOSE" => "RCVD_CLOSE" \notin s.sv[r].closes
         \/ a.type = "CLOSE" /\ f = NoEnd /\ "RCVD_CLOSE" \in s.sv[r].closes
  PROVE  Sound(t, opens') /\ Rest'
<1>1. Core(s)
  BY DEF Sound
<1>2. SrvChange(r, f, <<a>>) /\ toServer' = toServer /\ opens' = opens
  BY DEF SrvSays, Now
<1>3. a.id = s.sv[r].peer
  BY PacketIs
<1>4. Speaks(s, t, r, f, a) /\ UNCHANGED <<callbacks, conn, fault>>
  BY <1>1, <1>2, ChangeSpeaks
<1>5. Sound(t, opens)
  BY <1>3, <1>4, SpeaksSound
<1>6. Rest'
  BY <1>4 DEF Rest
<1> QED BY <1>2, <1>5, <1>6

\* The server sends.
LEMMA ServerSpeaks ==
  ASSUME NEW s, NEW t, Now(s), Then(t), Sound(s, opens), Rest, NEW r \in Ids,
         SrvData(r) \/ SrvAdjust(r) \/ SrvAsks(r) \/ SrvEof(r) \/ SrvCloses(r)
  PROVE  Sound(t, opens') /\ Rest'
<1> DEFINE e == s.sv[r]
           i == e.peer
<1>1. Core(s) /\ e = srv[r] /\ e = s.sv[r]
  BY DEF Sound, Now
<1>2. e \in Ends
  BY <1>1, SoundFields
<1>3. i \in Ids /\ e.sndwin \in Nat /\ e.rcvwin \in Nat /\ RemWin \in Nat /\ e.tosend \in Nat
  BY <1>2, EndFields, ChannelAssumption
<1>4. i = s.sv[r].peer /\ e.peer = i
  OBVIOUS
<1> HIDE DEF e, i
<1>5. e.st = "open" /\ "SENT_CLOSE" \notin e.closes
  BY <1>1 DEF SrvData, SrvAdjust, SrvAsks, SrvEof, SrvCloses, MaySend, Sent
<1>6. CASE SrvData(r)
  <2>1. PICK k \in 1..e.sndwin : /\ k <= e.tosend
                                 /\ SrvSays(r, [e EXCEPT !.sndwin = @ - k, !.tosend = @ - k], "DATA", k)
    BY <1>1, <1>6 DEF SrvData
  <2> DEFINE f == [e EXCEPT !.sndwin = @ - k, !.tosend = @ - k]
             a == Packet("DATA", i, k)
  <2>2. k \in Nat /\ k <= e.sndwin
    BY <1>3, <2>1
  <2>3. a \in Packets
    BY <1>3, <2>2, PacketTyped
  <2>4. a.type = "DATA" /\ a.arg = k
    BY PacketIs
  <2>5. a = Packet("DATA", s.sv[r].peer, k)
    BY <1>4
  <2>6. SrvSays(r, f, "DATA", k)
    BY <2>1
  <2> HIDE DEF a
  <2>7. f \in Ends /\ Moves(e, f, a)
    BY <1>2, <2>1, <2>2, <2>3, <2>4, SrvMoves
  <2> HIDE DEF f
  <2> QED BY <1>1, <1>5, <2>2, <2>3, <2>4, <2>5, <2>6, <2>7, SaysActs
<1>7. CASE SrvAdjust(r)
  <2> DEFINE f == [e EXCEPT !.rcvwin = RemWin]
             k == RemWin - e.rcvwin
             a == Packet("ADJUST", i, k)
  <2>1. e.rcvwin < RemWin /\ SrvSays(r, f, "ADJUST", k)
    BY <1>1, <1>7 DEF SrvAdjust
  <2>2. k \in Nat /\ k = RemWin - e.rcvwin
    BY <1>3, <2>1
  <2> HIDE DEF k
  <2>3. a \in Packets
    BY <1>3, <2>2, PacketTyped
  <2>4. a.type = "ADJUST" /\ a.arg = k
    BY PacketIs
  <2>5. a = Packet("ADJUST", s.sv[r].peer, k)
    BY <1>4
  <2> HIDE DEF a
  <2>6. a.arg = RemWin - e.rcvwin
    BY <2>2, <2>4
  <2>7. f \in Ends /\ Moves(e, f, a)
    BY <1>2, <2>1, <2>3, <2>4, <2>6, SrvMoves
  <2> HIDE DEF f
  <2> QED BY <1>1, <1>5, <2>1, <2>3, <2>4, <2>5, <2>7, SaysActs
<1>8. CASE SrvAsks(r)
  <2> DEFINE f == [e EXCEPT !.asked = 1]
             a == Packet("REQ", i, "keepalive")
  <2>1. e.asked = 0 /\ SrvSays(r, f, "REQ", "keepalive")
    BY <1>1, <1>8 DEF SrvAsks
  <2>3. a \in Packets
    <3>1. "keepalive" \in Requests
      BY DEF Requests
    <3> QED BY <1>3, <3>1, PacketTyped
  <2>4. a.type = "REQ" /\ a.arg = "keepalive"
    BY PacketIs
  <2>5. a = Packet("REQ", s.sv[r].peer, "keepalive")
    BY <1>4
  <2> HIDE DEF a
  <2>7. f \in Ends /\ Moves(e, f, a)
    BY <1>2, <2>1, <2>3, <2>4, SrvMoves
  <2> HIDE DEF f
  <2> QED BY <1>1, <1>5, <2>1, <2>3, <2>4, <2>5, <2>7, SaysActs
<1>9. CASE SrvEof(r)
  <2> DEFINE f == [e EXCEPT !.closes = @ \cup {"SENT_EOF"}]
             a == Packet("EOF", i, 0)
  <2>1. SrvSays(r, f, "EOF", 0)
    BY <1>1, <1>9 DEF SrvEof
  <2>3. a \in Packets
    BY <1>3, PacketTyped
  <2>4. a.type = "EOF"
    BY PacketIs
  <2>5. a = Packet("EOF", s.sv[r].peer, 0)
    BY <1>4
  <2> HIDE DEF a
  <2>7. f \in Ends /\ Moves(e, f, a)
    BY <1>2, <2>1, <2>3, <2>4, SrvMoves
  <2> HIDE DEF f
  <2> QED BY <1>1, <1>5, <2>1, <2>3, <2>4, <2>5, <2>7, SaysActs
<1>10. CASE SrvCloses(r)
  <2> DEFINE g == [e EXCEPT !.closes = @ \cup {"SENT_EOF", "SENT_CLOSE"}]
             f == SrvClosed(g)
             a == Packet("CLOSE", i, 0)
  <2>1. SrvSays(r, f, "CLOSE", 0)
    BY <1>1, <1>10 DEF SrvCloses
  <2>3. a \in Packets
    BY <1>3, PacketTyped
  <2>4. a.type = "CLOSE"
    BY PacketIs
  <2>5. a = Packet("CLOSE", s.sv[r].peer, 0)
    BY <1>4
  <2> HIDE DEF a
  <2>6. g.closes = e.closes \cup {"SENT_EOF", "SENT_CLOSE"}
    BY <1>2 DEF Ends
  <2>7. g \in Ends /\ Moves(e, g, a)
    BY <1>2, <2>1, <2>3, <2>4, SrvMoves
  <2> HIDE DEF g
  <2>8. IF "RCVD_CLOSE" \in e.closes THEN f = NoEnd ELSE f = g
    BY <2>6 DEF SrvClosed, Sent
  <2>9. \/ /\ f \in Ends /\ Moves(e, f, a)
           /\ a.type = "CLOSE" => "RCVD_CLOSE" \notin e.closes
        \/ a.type = "CLOSE" /\ f = NoEnd /\ "RCVD_CLOSE" \in e.closes
    <3> HIDE DEF f
    <3> QED BY <2>4, <2>7, <2>8
  <2> HIDE DEF f
  <2> QED BY <1>1, <1>5, <2>1, <2>3, <2>4, <2>5, <2>9, SaysActs
<1> QED BY <1>6, <1>7, <1>8, <1>9, <1>10

\* Both sides open channels.
LEMMA OpenActs ==
  ASSUME NEW s, NEW t, Now(s), Then(t), Sound(s, opens), Rest, SrvOpens
  PROVE  Sound(t, opens') /\ Rest'
<1> DEFINE r == Min(Ids \ Served(s))
<1>1. Core(s) /\ r = Min(Ids \ Served(s)) /\ SrvUsed = Served(s)
  BY UsedIs DEF Sound
<1>2. opens < MaxOpens /\ opens' = opens + 1 /\ toServer' = toServer
  BY DEF SrvOpens
<1>3. \E w \in 0..RemWin :
        SrvChange(r, [NoEnd EXCEPT !.st = "opening", !.rcvwin = w], <<Packet("OPEN", r, w)>>)
  BY <1>1 DEF SrvOpens
<1> HIDE DEF r
<1>4. PICK w \in 0..RemWin :
        SrvChange(r, [NoEnd EXCEPT !.st = "opening", !.rcvwin = w], <<Packet("OPEN", r, w)>>)
  BY <1>3
<1>5. w \in Nat
  BY ChannelAssumption
<1> DEFINE f == [NoEnd EXCEPT !.st = "opening", !.rcvwin = w]
           a == Packet("OPEN", r, w)
<1>6. SrvChange(r, f, <<a>>)
  BY <1>4
<1> HIDE DEF f, a
<1>7. Speaks(s, t, r, f, a) /\ UNCHANGED <<callbacks, conn, fault>>
  BY <1>1, <1>2, <1>6, ChangeSpeaks
<1>8. Speaks(s, t, r, [NoEnd EXCEPT !.st = "opening", !.rcvwin = w], Packet("OPEN", r, w))
  BY ONLY <1>7 DEF f, a
<1>9. Sound(t, opens + 1)
  BY <1>1, <1>2, <1>5, <1>8, SpeaksOpenSound
<1>10. Rest'
  BY <1>7 DEF Rest
<1> QED BY <1>2, <1>9, <1>10

\* Nothing on its way to the server is a surprise to it, nor is any data missing.
LEMMA NotIllegal ==
  ASSUME NEW s, Now(s), Core(s), s.u # <<>>, NEW m, m = Head(s.u)
  PROVE  ~Illegal(m) /\ ~Truncated(m)
<1> DEFINE r == m.id
           e == s.sv[r]
<1>1. Received(s, m, Tail(s.u)) /\ m \in Packets /\ r \in Ids
  BY TakeReceived DEF Received
<1>2. m.type \in {"OPEN", "CONFIRM", "OPENFAIL"} \cup {"DATA", "ADJUST", "REQ", "RESP", "EOF", "CLOSE"}
  BY <1>1, PacketFields DEF PacketTypes
<1>3. srv[m.id] = e
  BY DEF Now
<1>4. CASE m.type \in {"CONFIRM", "OPENFAIL"}
  <2>1. e.st = "opening"
    BY <1>1, <1>4, AnswerComes
  <2> HIDE DEF e, r
  <2> QED BY ONLY <1>3, <1>4, <2>1 DEF Illegal, Truncated
<1>5. CASE m.type = "OPEN"
  BY ONLY <1>5 DEF Illegal, Truncated
<1>6. CASE m.type \in {"DATA", "ADJUST", "REQ", "RESP", "EOF", "CLOSE"}
  <2>1. /\ e.st = "open" /\ "RCVD_CLOSE" \notin e.closes
        /\ m.type = "DATA" => "RCVD_EOF" \notin e.closes /\ m.arg <= e.rcvwin
        /\ m.type = "EOF" => "RCVD_EOF" \notin e.closes
        /\ m.type = "RESP" => e.asked = 1
        /\ m.type = "EOF" => "SENT_CLOSE" \in e.closes \/ e.got = m.arg
    BY <1>1, <1>6, ReceivedLegal
  <2>2. m.type = "DATA" => ~(m.arg > e.rcvwin)
    <3>1. e \in Ends
      BY <1>1, SoundFields
    <3>2. e.rcvwin \in Nat /\ (m.type = "DATA" => m.arg \in Nat)
      BY <1>1, <3>1, EndFields, PacketFields
    <3> QED BY <2>1, <3>2
  <2> HIDE DEF e, r
  <2> QED BY ONLY <1>3, <1>6, <2>1, <2>2 DEF Illegal, Truncated, Sent
<1> QED BY <1>2, <1>4, <1>5, <1>6

\* What SrvTakes makes of the end that packet m, not OPEN and not a request, is for.
Takes(m, e) ==
  CASE m.type = "CONFIRM" -> [Opened(m.arg, e.rcvwin) EXCEPT !.started = TRUE]
    [] m.type = "OPENFAIL" -> NoEnd
    [] m.type = "DATA" -> [e EXCEPT !.rcvwin = @ - m.arg, !.got = @ + m.arg]
    [] m.type = "ADJUST" -> [e EXCEPT !.sndwin = @ + m.arg]
    [] m.type = "RESP" -> [e EXCEPT !.asked = 2]
    [] m.type = "EOF" -> [e EXCEPT !.closes = @ \cup {"RCVD_EOF"}]
    [] m.type = "CLOSE" -> SrvClosed([e EXCEPT !.closes = @ \cup {"RCVD_EOF", "RCVD_CLOSE"}])

\* The server takes a packet: the connection stays sound.
LEMMA TakesSound ==
  ASSUME NEW s, NEW t, NEW n, Sound(s, n), s.u # <<>>, NEW m, m = Head(s.u), m.type \notin {"OPEN", "REQ"},
         NEW r, r = m.id, NEW e, e = s.sv[r], Hears(s, t, r, Takes(m, e), s.d)
  PROVE  Sound(t, n)
<1>1. Core(s)
  BY DEF Sound
<1>2. Received(s, m, Tail(s.u)) /\ m \in Packets /\ r \in Ids
  BY <1>1, TakeReceived DEF Received
<1>3. m.type \in {"CONFIRM", "OPENFAIL"} \cup {"DATA", "ADJUST", "RESP", "EOF", "CLOSE"}
  BY <1>2, PacketFields DEF PacketTypes
<1>4. e \in Ends
  BY <1>1, <1>2, SoundFields
<1>5. CASE m.type = "OPENFAIL"
  <2>1. Hears(s, t, r, NoEnd, s.d)
    BY <1>5 DEF Takes
  <2> QED BY <1>5, <2>1, HearsAnswerSound
<1>6. CASE m.type = "CONFIRM"
  <2>1. Takes(m, e) = [Opened(m.arg, e.rcvwin) EXCEPT !.started = TRUE]
    BY ONLY <1>6 DEF Takes
  <2>2. Hears(s, t, r, [Opened(m.arg, s.sv[r].rcvwin) EXCEPT !.started = TRUE], s.d)
    BY <2>1
  <2> QED BY <1>6, <2>2, HearsAnswerSound
<1>7. CASE m.type \in {"DATA", "ADJUST", "RESP", "EOF", "CLOSE"}
  <2> DEFINE f == Takes(m, e)
  <2>1. /\ m.type = "DATA" => m.arg <= e.rcvwin
        /\ m.type = "RESP" => e.asked = 1
    BY <1>1, <1>2, <1>7, ReceivedLegal
  <2>2. ASSUME m.type # "CLOSE"
        PROVE  f \in Ends /\ Becomes(e, f, m)
    <3>1. CASE m.type = "DATA"
      <4> DEFINE g == [e EXCEPT !.rcvwin = @ - m.arg, !.got = @ + m.arg]
      <4>1. g \in Ends /\ Becomes(e, g, m)
        BY <1>2, <1>4, <2>1, <3>1, SrvBecomes
      <4>2. f = g
        BY ONLY <3>1 DEF Takes
      <4> HIDE DEF f, g
      <4> QED BY <4>1, <4>2
    <3>2. CASE m.type = "ADJUST"
      <4> DEFINE g == [e EXCEPT !.sndwin = @ + m.arg]
      <4>1. g \in Ends /\ Becomes(e, g, m)
        BY <1>2, <1>4, <3>2, SrvBecomes
      <4>2. f = g
        BY ONLY <3>2 DEF Takes
      <4> HIDE DEF f, g
      <4> QED BY <4>1, <4>2
    <3>3. CASE m.type = "RESP"
      <4> DEFINE g == [e EXCEPT !.asked = 2]
      <4>1. g \in Ends /\ Becomes(e, g, m)
        BY <1>2, <1>4, <2>1, <3>3, SrvBecomes
      <4>2. f = g
        BY ONLY <3>3 DEF Takes
      <4> HIDE DEF f, g
      <4> QED BY <4>1, <4>2
    <3>4. CASE m.type = "EOF"
      <4> DEFINE g == [e EXCEPT !.closes = @ \cup {"RCVD_EOF"}]
      <4>1. g \in Ends /\ Becomes(e, g, m)
        BY <1>2, <1>4, <3>4, SrvBecomes
      <4>2. f = g
        BY ONLY <3>4 DEF Takes
      <4> HIDE DEF f, g
      <4> QED BY <4>1, <4>2
    <3> QED BY <1>7, <2>2, <3>1, <3>2, <3>3, <3>4
  <2>3. ASSUME m.type = "CLOSE"
        PROVE  \/ f \in Ends /\ Becomes(e, f, m) /\ "SENT_CLOSE" \notin e.closes
               \/ f = NoEnd /\ "SENT_CLOSE" \in e.closes
    <3> DEFINE g == [e EXCEPT !.closes = @ \cup {"RCVD_EOF", "RCVD_CLOSE"}]
    <3>1. g \in Ends /\ Becomes(e, g, m)
      BY <1>2, <1>4, <2>3, SrvBecomes
    <3>2. g.closes = e.closes \cup {"RCVD_EOF", "RCVD_CLOSE"}
      BY <1>4 DEF Ends
    <3>3. f = SrvClosed(g)
      BY ONLY <2>3 DEF Takes
    <3> HIDE DEF f, g
    <3>4. IF "SENT_CLOSE" \in e.closes THEN f = NoEnd ELSE f = g
      BY <3>2, <3>3 DEF SrvClosed, Sent
    <3> QED BY <3>1, <3>4
  <2>4. Hears(s, t, r, f, s.d)
    OBVIOUS
  <2> HIDE DEF f
  <2>5. \/ /\ f \in Ends /\ Becomes(e, f, m)
           /\ m.type = "CLOSE" => "SENT_CLOSE" \notin e.closes
        \/ m.type = "CLOSE" /\ f = NoEnd /\ "SENT_CLOSE" \in e.closes
    BY <2>2, <2>3
  <2> QED BY <1>7, <2>4, <2>5, HearsSound
<1> QED BY <1>3, <1>5, <1>6, <1>7

\* The server takes a packet: no surprise, and EOF after all the data.
LEMMA TakeActs ==
  ASSUME NEW s, NEW t, Now(s), Then(t), Sound(s, opens), Rest, SrvTakes
  PROVE  Sound(t, opens') /\ Rest'
<1> DEFINE m == Head(s.u)
           r == m.id
           e == s.sv[r]
<1>1. Core(s) /\ m = Head(s.u) /\ r = m.id /\ e = s.sv[r] /\ e = srv[m.id] /\ m = Head(toServer)
  BY DEF Sound, Now
<1>2. s.u # <<>> /\ toServer' = Tail(toServer) /\ opens' = opens
  BY DEF SrvTakes, Now
<1>3. ~Illegal(m) /\ ~Truncated(m)
  BY <1>1, <1>2, NotIllegal
<1>4. m \in Packets /\ r \in Ids
  BY <1>1, <1>2, TakeReceived DEF Received
<1>5. e \in Ends /\ e.peer \in Ids
  <2>1. e \in Ends
    BY <1>1, <1>4, SoundFields
  <2> QED BY <2>1, EndFields
<1>6. /\ m.type = "OPEN" => SrvAnswerOpen(m)
      /\ m.type = "REQ" => SrvAnswerRequest(m.id, m.arg)
      /\ m.type \notin {"OPEN", "REQ"} => SrvChange(m.id, Takes(m, srv[m.id]), <<>>)
  <2> HIDE DEF m, r, e
  <2> QED BY ONLY SrvTakes, <1>1, <1>3 DEF SrvTakes, Takes
<1>7. SrvUsed = Served(s)
  BY UsedIs
<1> HIDE DEF m, r, e
<1>8. ASSUME UNCHANGED <<callbacks, conn, fault>>
      PROVE  Rest'
  BY <1>8 DEF Rest
<1>9. CASE m.type = "OPEN"
  <2> DEFINE j == Min(Ids \ Served(s))
  <2>1. \/ \E w \in 0..RemWin :
             SrvChange(j, Opened(m.id, w), <<Packet("CONFIRM", m.id, <<j, w>>)>>)
        \/ SrvChange(j, NoEnd, <<Packet("OPENFAIL", m.id, 0)>>)
    BY ONLY <1>6, <1>7, <1>9 DEF SrvAnswerOpen
  <2>2. j = Min(Ids \ Served(s))
    OBVIOUS
  <2> HIDE DEF j
  <2>3. ASSUME NEW w \in 0..RemWin,
               SrvChange(j, Opened(m.id, w), <<Packet("CONFIRM", m.id, <<j, w>>)>>)
        PROVE  /\ Hears(s, t, j, Opened(m.id, w), Append(s.d, Packet("CONFIRM", m.id, <<j, w>>)))
               /\ w \in Nat /\ UNCHANGED <<callbacks, conn, fault>>
    <3> DEFINE f == Opened(m.id, w)
               a == Packet("CONFIRM", m.id, <<j, w>>)
    <3>1. SrvChange(j, f, <<a>>)
      BY <2>3
    <3> HIDE DEF f, a
    <3>2. Hears(s, t, j, f, Append(s.d, a)) /\ UNCHANGED <<callbacks, conn, fault>>
      BY <1>1, <1>2, <3>1, ChangeSpeaks
    <3>3. w \in Nat
      BY ChannelAssumption
    <3> QED BY <3>2, <3>3 DEF f, a
  <2>4. ASSUME SrvChange(j, NoEnd, <<Packet("OPENFAIL", m.id, 0)>>)
        PROVE  /\ Hears(s, t, j, NoEnd, Append(s.d, Packet("OPENFAIL", m.id, 0)))
               /\ UNCHANGED <<callbacks, conn, fault>>
    <3> DEFINE f == NoEnd
               a == Packet("OPENFAIL", m.id, 0)
    <3>1. SrvChange(j, f, <<a>>)
      BY <2>4
    <3> HIDE DEF f, a
    <3>2. Hears(s, t, j, f, Append(s.d, a)) /\ UNCHANGED <<callbacks, conn, fault>>
      BY <1>1, <1>2, <3>1, ChangeSpeaks
    <3> QED BY <3>2 DEF f, a
  <2>5. /\ \/ \E w \in Nat : Hears(s, t, j, Opened(m.id, w), Append(s.d, Packet("CONFIRM", m.id, <<j, w>>)))
           \/ Hears(s, t, j, NoEnd, Append(s.d, Packet("OPENFAIL", m.id, 0)))
        /\ UNCHANGED <<callbacks, conn, fault>>
    BY ONLY <2>1, <2>3, <2>4
  <2>6. Sound(s, opens)
    OBVIOUS
  <2>7. Sound(t, opens)
    BY ONLY <1>1, <1>2, <1>9, <2>2, <2>5, <2>6, HearsOpenSound
  <2> QED BY <1>2, <1>8, <2>5, <2>7
<1>10. CASE m.type = "REQ"
  <2>1. SrvAnswerRequest(r, m.arg) /\ srv[r] = e
    BY <1>1, <1>6, <1>10
  <2>2. CASE m.arg = "window-change" \/ "SENT_CLOSE" \in e.closes
    <3>1. SrvChange(r, e, <<>>)
      BY ONLY <2>1, <2>2 DEF SrvAnswerRequest, Sent
    <3>2. Hears(s, t, r, e, s.d) /\ UNCHANGED <<callbacks, conn, fault>>
      BY <1>1, <1>2, <3>1, ChangeHears
    <3>3. Sound(s, opens)
      OBVIOUS
    <3>4. Sound(t, opens)
      BY ONLY <1>1, <1>2, <1>10, <2>2, <3>2, <3>3, HearsRequestSound
    <3> QED BY <1>2, <1>8, <3>2, <3>4
  <2>3. CASE m.arg # "window-change" /\ "SENT_CLOSE" \notin e.closes
    <3>1. \E ok \in {FALSE, m.arg # "winadj"} :
            SrvChange(r, [e EXCEPT !.started = @ \/ (ok /\ m.arg \in {"cmd", "fallback"})],
                      <<Packet("RESP", e.peer, ok)>>)
      BY ONLY <2>1, <2>3 DEF SrvAnswerRequest, Sent
    <3>2. PICK ok \in {FALSE, m.arg # "winadj"} :
            SrvChange(r, [e EXCEPT !.started = @ \/ (ok /\ m.arg \in {"cmd", "fallback"})],
                      <<Packet("RESP", e.peer, ok)>>)
      BY <3>1
    <3> DEFINE x == e.started \/ (ok /\ m.arg \in {"cmd", "fallback"})
               f == [e EXCEPT !.started = x]
               a == Packet("RESP", e.peer, ok)
    <3>3. ok \in BOOLEAN /\ x \in BOOLEAN
      BY Zenon, <3>2
    <3>4. SrvChange(r, f, <<a>>)
      BY <3>2
    <3> HIDE DEF x
    <3> HIDE DEF f, a
    <3>5. Hears(s, t, r, f, Append(s.d, a)) /\ UNCHANGED <<callbacks, conn, fault>>
      BY <1>1, <1>2, <3>4, ChangeSpeaks
    <3>6. Hears(s, t, r, [e EXCEPT !.started = x], Append(s.d, Packet("RESP", e.peer, ok)))
      BY ONLY <3>5 DEF f, a
    <3>7. Sound(s, opens)
      OBVIOUS
    <3>8. \E k \in BOOLEAN, y \in BOOLEAN :
            Hears(s, t, r, [e EXCEPT !.started = y], Append(s.d, Packet("RESP", e.peer, k)))
      BY ONLY <3>3, <3>6
    <3>9. Sound(t, opens)
      BY ONLY <1>1, <1>2, <1>10, <2>3, <3>7, <3>8, HearsRequestSound
    <3> QED BY <1>2, <1>8, <3>5, <3>9
  <2> QED BY <2>2, <2>3
<1>11. CASE m.type \notin {"OPEN", "REQ"}
  <2> DEFINE f == Takes(m, e)
  <2>1. SrvChange(r, f, <<>>)
    BY <1>1, <1>6, <1>11
  <2> HIDE DEF f
  <2>2. Hears(s, t, r, f, s.d) /\ UNCHANGED <<callbacks, conn, fault>>
    BY <1>1, <1>2, <2>1, ChangeHears
  <2>3. Hears(s, t, r, Takes(m, e), s.d)
    BY <2>2 DEF f
  <2>4. Sound(t, opens)
    BY <1>1, <1>2, <1>11, <2>3, TakesSound
  <2> QED BY <1>2, <1>8, <2>2, <2>4
<1> QED BY <1>9, <1>10, <1>11

-----------------------------------------------------------------------------
(* The invariant, and what follows from it.                                *)

\* No packet is under way in an empty queue.
LEMMA EmptyQueue ==
  /\ <<>> \in Seq(Packets) /\ Ord(<<>>) /\ Opn(<<>>) = 0
  /\ \A id : ~About(<<>>, id) /\ \A x : ~Has(<<>>, x, id)
  /\ \A x, id, a : ~Carries(<<>>, x, id, a)
<1> DEFINE q == <<>>
<1>1. q \in Seq(Packets) /\ Len(q) = 0
  OBVIOUS
<1> HIDE DEF q
<1>2. 1..Len(q) = {}
  BY <1>1
<1>3. Ord(q) /\ (\A id : ~About(q, id) /\ \A x : ~Has(q, x, id)) /\ \A x, id, a : ~Carries(q, x, id, a)
  BY <1>2 DEF Ord, About, Has, Carries
<1>4. Opn(q) = 0
  <2>1. WOpn \in [Packets -> Nat] /\ Opn(q) = Total(Weigh(q, WOpn))
    BY <1>1, Weights, SumsAreWeighed
  <2>2. \A k \in 1..Len(q) : WOpn[q[k]] = 0
    BY <1>2
  <2> QED BY <1>1, <2>1, <2>2, WeighProps
<1> QED BY <1>1, <1>3, <1>4 DEF q

\* The connection layer has just started.
LEMMA InitSound ==
  ASSUME NEW s, Now(s), Init
  PROVE  Sound(s, 0) /\ Rest
<1> DEFINE main == NewChannel("main", 0, TRUE, 0)
           m == Packet("OPEN", 0, 0)
           d == <<>>
           u == Append(d, m)
<1>0. Rest
  BY DEF Init, Rest
<1>1. 0 \in Ids /\ MaxOpens \in Nat /\ WinSize \in Nat
  BY ChannelAssumption DEF Ids
<1>2. /\ Shaped(s) /\ s.ch = [i \in Ids |-> IF i = 0 THEN main ELSE NoChannel]
      /\ s.sv = [r \in Ids |-> NoEnd] /\ s.u = u /\ s.d = d
  <2>1. u = <<m>>
    OBVIOUS
  <2> QED BY <2>1 DEF Init, Now
<1>3. m \in Packets
  BY <1>1, PacketTyped
<1>4. m.type = "OPEN" /\ m.id = 0
  BY PacketIs
<1>5. main \in Chans /\ NoChannel \in Chans /\ NoEnd \in Ends
  BY <1>1, NewChannelFields, NoEndFields DEF NoChannel
<1>6. /\ main.kind = "main" /\ main.halfopen /\ main.closes = {} /\ main.sink = 0 /\ main.locwindow = WinSize
      /\ main.locmaxwin = WinSize /\ main.chanreq = <<>> /\ NoChannel.kind = "none"
  BY DEF NewChannel, NoChannel
<1>7. main = NewChannel("main", 0, TRUE, 0)
  OBVIOUS
<1>8. /\ d \in Seq(Packets) /\ Ord(d) /\ Opn(d) = 0
      /\ \A id : ~About(d, id) /\ \A x : ~Has(d, x, id)
      /\ \A x, id, a : ~Carries(d, x, id, a)
  BY EmptyQueue
<1> HIDE DEF main, m, d
<1>9. u \in Seq(Packets) /\ Plus(u, d, m)
  BY <1>3, <1>8, AppendPlus
<1>10. Ord(u)
  BY <1>3, <1>4, <1>8, OrdAppend
<1>11. EofLast(u)
  <2>1. EofLast(d)
    <3>1. 1..Len(d) = {}
      BY DEF d
    <3> QED BY <3>1 DEF EofLast
  <2> QED BY <1>3, <1>4, <1>8, <2>1, EofAppend
<1> HIDE DEF u
<1>12. Opn(u) = 1
  <2>1. Opn(u) = Opn(d) + 1
    BY <1>4, <1>9 DEF Plus
  <2> QED BY <1>8, <2>1
<1>13. /\ \A id : ~About(u, id)
       /\ \A id : Has(u, "OPEN", id) <=> id = 0
       /\ \A id, x : x # "OPEN" => ~Has(u, x, id)
       /\ \A id, x, a : x # "OPEN" => ~Carries(u, x, id, a)
  <2>1. \A id : About(u, id) <=> About(d, id) \/ (m.type # "OPEN" /\ m.id = id)
    BY ONLY <1>9 DEF Plus
  <2>2. \A x, id : Has(u, x, id) <=> Has(d, x, id) \/ (m.type = x /\ m.id = id)
    BY ONLY <1>9 DEF Plus
  <2>3. \A x, id, a : Carries(u, x, id, a) <=> Carries(d, x, id, a) \/ (m.type = x /\ m.id = id /\ m.arg = a)
    BY ONLY <1>9 DEF Plus
  <2>4. \A id : ~About(u, id)
    BY ONLY <1>4, <1>8, <2>1
  <2>5. /\ \A id : Has(u, "OPEN", id) <=> id = 0
        /\ \A id, x : x # "OPEN" => ~Has(u, x, id)
    BY ONLY <1>4, <1>8, <2>2
  <2>6. \A id, x, a : x # "OPEN" => ~Carries(u, x, id, a)
    BY ONLY <1>4, <1>8, <2>3
  <2> QED BY ONLY <2>4, <2>5, <2>6
<1>14. s.ch \in [Ids -> Chans] /\ s.sv \in [Ids -> Ends]
  BY <1>2, <1>5
<1>15. Queues(s)
  <2>1. s \in Conns
    BY <1>2, <1>8, <1>9, <1>14, ShapedConn
  <2> QED BY <1>2, <1>8, <1>10, <1>11, <2>1 DEF Queues
<1>16. ASSUME NEW i \in Ids
       PROVE  HereInv(s, i) /\ MeetInv(s, i)
  <2>1. \A a : ~Carries(s.d, "CONFIRM", i, a) /\ ~Carries(s.d, "REQ", i, a)
    BY <1>2, <1>8
  <2>2. ~About(s.d, i) /\ (Has(s.u, "OPEN", i) <=> i = 0)
    BY <1>2, <1>8, <1>13
  <2>3. CASE i = 0
    <3>1. s.ch[i] = main /\ Alive(s, i)
      BY <1>2, <1>6, <2>3 DEF Alive
    <3>2. ChanOK(main) /\ SocketOK(main)
      <4>1. 0 + WinSize <= WinSize
        BY <1>1
      <4> QED BY <1>6, <4>1 DEF ChanOK, SocketOK
    <3>3. Expects(main, s.d, i)
      <4>1. Dat(s.d, i) = 0 /\ Rsp(s.d, i) = 0
        BY <1>2, <1>8, Silent
      <4>2. Waits(main) = 0
        BY <1>6 DEF Waits
      <4> QED BY <1>1, <1>6, <4>1, <4>2 DEF Expects
    <3>4. HereInv(s, i)
      BY <1>6, <1>7, <2>1, <2>2, <2>3, <3>1, <3>2, <3>3 DEF HereInv
    <3>5. MeetInv(s, i)
      BY <1>6, <2>1, <3>1 DEF MeetInv, Links
    <3> QED BY <3>4, <3>5
  <2>4. CASE i # 0
    <3>1. ~Alive(s, i)
      BY <1>2, <1>6, <2>4 DEF Alive
    <3> QED BY <2>1, <2>2, <2>4, <3>1 DEF HereInv, MeetInv, Links
  <2> QED BY <2>3, <2>4
<1>17. ASSUME NEW r \in Ids
       PROVE  ThereInv(s, r) /\ PeerInv(s, r)
  <2>1. s.sv[r] = NoEnd /\ NoEnd.st = "none" /\ NoEnd.closes = {} /\ NoEnd.rcvwin = 0 /\ NoEnd.asked = 0
    BY <1>2, NoEndFields
  <2>2. /\ ~About(s.u, r) /\ \A a : ~Carries(s.u, "CONFIRM", r, a) /\ ~Carries(s.u, "EOF", r, a)
        /\ \A a : ~Carries(s.d, "OPEN", r, a)
        /\ ~Has(s.u, "EOF", r) /\ ~Has(s.u, "DATA", r)
    BY <1>2, <1>8, <1>13
  <2>3. Dat(s.u, r) = 0 /\ Rsp(s.u, r) = 0
    BY <1>2, <1>9, <2>2, Silent
  <2>4. EndOK(NoEnd, s.u, r)
    BY <2>1, <2>2, <2>3 DEF EndOK, Asked
  <2>5. ThereInv(s, r)
    BY <2>1, <2>2, <2>4 DEF ThereInv
  <2>6. PeerInv(s, r)
    BY <2>1 DEF PeerInv
  <2> QED BY <2>5, <2>6
<1>18. Core(s)
  BY <1>15, <1>16, <1>17 DEF Core
<1>19. Counts(s, 0)
  <2> DEFINE Z == {}
             A == Channels(s)
             B == Served(s)
  <2>1. A \subseteq Z \cup {0}
    BY <1>2, <1>6 DEF Channels, Alive
  <2>2. B = Z
    BY <1>2, NoEndFields DEF Served
  <2>3. Z \in SUBSET Ids /\ A \in SUBSET Ids /\ Cardinality(Z) = 0
    BY FS_EmptySet DEF Channels
  <2> HIDE DEF Z, A, B
  <2>4. Cardinality(A) <= Cardinality(Z) + 1 /\ Cardinality(A) \in Nat
    BY <2>1, <2>3, FewIds
  <2>5. Cardinality(A) + Opn(s.d) <= 0 + 1
    BY <1>2, <1>8, <2>3, <2>4
  <2>6. Cardinality(B) + Opn(s.u) <= 0 + 1
    BY <1>2, <1>12, <2>2, <2>3
  <2>7. 0 \in 0..MaxOpens
    BY <1>1
  <2> QED BY <2>5, <2>6, <2>7 DEF Counts, A, B, Channels, Served
<1> QED BY <1>0, <1>18, <1>19 DEF Sound

\* Conn is the connection,
LEMMA ConnNow ==
  Now(Conn)
BY DEF Now, Conn, Shaped

\* before a step and after it.
LEMMA ConnThen ==
  Then(Conn')
BY DEF Then, Conn, Shaped

\* The invariant holds at first,
LEMMA InitInv ==
  ASSUME Init
  PROVE  ConnInv
<1>1. opens = 0
  BY DEF Init
<1>2. Sound(Conn, 0) /\ Rest
  BY ConnNow, InitSound
<1> QED BY <1>1, <1>2 DEF ConnInv, Sound, Rest

\* and every step keeps it.
LEMMA StepInv ==
  ASSUME ConnInv, [Next]_vars
  PROVE  ConnInv'
<1> DEFINE s == Conn
           t == Conn'
<1>1. Now(s) /\ Then(t)
  BY ConnNow, ConnThen
<1>2. Sound(s, opens) /\ Rest
  BY DEF ConnInv, Sound, Rest
<1>3. ASSUME Sound(t, opens'), Rest'
      PROVE  ConnInv'
  BY <1>3 DEF ConnInv, Sound, Rest
<1> HIDE DEF s, t
<1>4. CASE UNCHANGED vars
  <2>1. UNCHANGED <<chan, srv, toServer, toClient>> /\ UNCHANGED <<callbacks, conn, fault, opens>>
    BY <1>4 DEF vars
  <2>2. t = s
    BY <1>1, <2>1, SameConn
  <2>3. Rest'
    BY <1>2, <2>1 DEF Rest
  <2> QED BY <1>2, <1>3, <2>1, <2>2, <2>3
<1>5. CASE Client
  BY <1>1, <1>2, <1>3, <1>5, FilterActs, CallbackActs DEF Client
<1>6. CASE SrvTakes
  BY <1>1, <1>2, <1>3, <1>6, TakeActs
<1>7. CASE SrvOpens
  BY <1>1, <1>2, <1>3, <1>7, OpenActs
<1>8. ASSUME NEW i \in Ids, UserTypes(i) \/ UserEof(i) \/ UserResizes(i)
      PROVE  ConnInv'
  BY <1>1, <1>2, <1>3, <1>8, UserActs
<1>9. ASSUME NEW i \in Ids, DragEnds(i) \/ SocketReads(i) \/ SocketEnds(i) \/ SocketWrites(i)
      PROVE  ConnInv'
  BY <1>1, <1>2, <1>3, <1>9, SocketActs
<1>10. ASSUME NEW i \in Ids, SrvData(i) \/ SrvAdjust(i) \/ SrvAsks(i) \/ SrvEof(i) \/ SrvCloses(i)
       PROVE  ConnInv'
  BY <1>1, <1>2, <1>3, <1>10, ServerSpeaks
<1> QED BY <1>4, <1>5, <1>6, <1>7, <1>8, <1>9, <1>10 DEF Next

\* The connection is always as the invariant says: both sides agree on every channel.
THEOREM ConnectionInvariant ==
  Spec => []ConnInv
<1>1. Init => ConnInv
  BY InitInv
<1>2. ConnInv /\ [Next]_vars => ConnInv'
  BY StepInv
<1> QED BY <1>1, <1>2, PTL DEF Spec

\* The state that the invariant describes is one TypeOK allows.
LEMMA InvType ==
  ASSUME ConnInv
  PROVE  TypeOK
<1>1. chan \in [Ids -> Chans] /\ srv \in [Ids -> Ends]
  <2>1. Core(Conn) /\ Conn.ch = chan /\ Conn.sv = srv
    BY DEF ConnInv, Conn
  <2> QED BY <2>1, SoundFields
<1>2. ASSUME NEW i \in Ids
      PROVE  /\ chan[i].kind \in {"none", "main", "fwd", "zombie"} /\ chan[i].closes \subseteq Closes
             /\ chan[i].remoteid \in Ids
             /\ {chan[i].outbuffer, chan[i].remwindow, chan[i].sink, chan[i].locwindow} \subseteq Nat
             /\ chan[i].throttle_state \in {"UNTHROTTLED", "UNTHROTTLING", "THROTTLED"}
             /\ srv[i].st \in {"none", "opening", "open"} /\ srv[i].sndwin \in Nat
  <2>1. chan[i] \in Chans /\ srv[i] \in Ends
    BY <1>1
  <2> QED BY <2>1 DEF Chans, Ends
<1> QED BY <1>2 DEF TypeOK, ConnInv

\* The windows of a channel that is open on both sides.
LEMMA LinkedWindows ==
  ASSUME NEW s, Now(s), Core(s), NEW i \in Ids, Linked(i), NEW r, r = chan[i].remoteid
  PROVE  /\ r \in Ids /\ chan[i].sink + chan[i].locwindow <= chan[i].locmaxwin
         /\ Windows(i, r, chan[i], toServer, srv[r], toClient)
<1> DEFINE c == s.ch[i]
           a == <<0, 0>>
<1>1. c = chan[i] /\ c.kind # "none" /\ ~c.halfopen /\ c.remoteid = r
  BY DEF Now, Linked, Used
<1>2. s.sv[r].st = "open" /\ s.sv[r].peer = i
  BY DEF Now, Linked
<1>3. c \in Chans /\ HereInv(s, i)
  BY SoundFields DEF Core
<1>4. r \in Ids
  BY <1>1, <1>3, ChanFields
<1>5. a \in Ids \X Nat
  BY ChannelAssumption DEF Ids
<1> HIDE DEF a
<1>6. View(c, a) = c
  BY <1>1 DEF View
<1>7. Links(s, i, a, r)
  BY <1>1, <1>5, <1>6 DEF Links, Alive
<1>8. Conv(i, r, View(s.ch[i], a), s.u, s.sv[r], s.d)
  BY <1>2, <1>4, <1>7, OpenEnd
<1>9. Windows(i, r, c, s.u, s.sv[r], s.d)
  BY <1>6, <1>8 DEF Conv
<1>10. ChanOK(c)
  BY <1>1, <1>3 DEF HereInv, Alive
<1>11. c.sink + c.locwindow <= c.locmaxwin
  BY <1>10 DEF ChanOK
<1> QED BY <1>1, <1>4, <1>9, <1>11 DEF Now

\* The invariant says what is in flight for every channel that is open at both ends.
LEMMA InvBacklog ==
  ASSUME ConnInv
  PROVE  BacklogWithinWindow
<1>1. Core(Conn) /\ Now(Conn)
  BY ConnNow DEF ConnInv
<1> SUFFICES ASSUME NEW i \in Ids, Linked(i)
             PROVE  LET c == chan[i]
                        e == srv[c.remoteid] IN
                    /\ c.sink + c.locwindow <= c.locmaxwin
                    /\ "SENT_CLOSE" \notin e.closes =>
                         c.locwindow = e.sndwin + InFlight(toServer, "ADJUST", c.remoteid)
                                       + InFlight(toClient, "DATA", i)
                    /\ "SENT_EOF" \notin c.closes =>
                         e.rcvwin = c.remwindow + InFlight(toServer, "DATA", c.remoteid)
                                    + InFlight(toClient, "ADJUST", i)
  BY DEF BacklogWithinWindow
<1> DEFINE c == chan[i]
           r == c.remoteid
<1>2. c.sink + c.locwindow <= c.locmaxwin /\ Windows(i, r, c, toServer, srv[r], toClient)
  BY <1>1, LinkedWindows
<1> QED BY ONLY <1>2 DEF Windows, Dat, Adj

\* With a server that keeps to the protocol, no packet finds its channel missing, half
\* open or without an outstanding request, although ids are used again, and the
\* assertions of connection2.c hold but for the two named at NoProtocolError.
THEOREM NoProtocolErrorEver ==
  Spec => []NoProtocolError
<1>1. ConnInv => NoProtocolError
  BY InvType DEF ConnInv, NoProtocolError
<1> QED BY <1>1, ConnectionInvariant, PTL

\* The server gets nothing after CLOSE, no data after EOF or beyond its window, and no
\* reply it did not ask for, whatever crosses on the network.
THEOREM ServerNeverSurprisedEver ==
  Spec => []ServerNeverSurprised
<1>1. ConnInv => ServerNeverSurprised
  BY DEF ConnInv, ServerNeverSurprised
<1> QED BY <1>1, ConnectionInvariant, PTL

\* An EOF the client sends follows all the data that was written to the channel, unless
\* the server itself closes.
THEOREM EofAfterAllDataEver ==
  Spec => []EofAfterAllData
<1>1. ConnInv => EofAfterAllData
  BY DEF ConnInv, EofAfterAllData
<1> QED BY <1>1, ConnectionInvariant, PTL

\* What the local side holds and what the server may still send fit in the window, and
\* each side's idea of both windows is the other's plus what is on its way.
THEOREM BacklogWithinWindowEver ==
  Spec => []BacklogWithinWindow
<1>1. ConnInv => BacklogWithinWindow
  BY InvBacklog
<1> QED BY <1>1, ConnectionInvariant, PTL

=============================================================================
