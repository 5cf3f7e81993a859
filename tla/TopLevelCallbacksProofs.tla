----------------------- MODULE TopLevelCallbacksProofs -----------------------
(***************************************************************************)
(* Proofs about TopLevelCallbacks, for any contexts and any number of      *)
(* callbacks and dialogs: no callback is stranded, the queue holds what is *)
(* owed, and callbacks do not overlap until a deletion empties the queue.  *)
(*                                                                         *)
(* What delete_callbacks_for_context leaves of the queue is defined by     *)
(* recursion.  The induction it needs is made with sets of numbers, from   *)
(* the fact that < is well-founded.                                        *)
(***************************************************************************)
EXTENDS TopLevelCallbacks, WellFoundedInduction, TLAPS

-----------------------------------------------------------------------------
(* The queue without the callbacks of a context.                           *)

\* A set with 0 and the successor of each of its numbers has every number.
LEMMA SetInduction ==
  ASSUME NEW S, 0 \in S, \A n \in Nat : n \in S => n + 1 \in S
  PROVE  Nat \subseteq S
<1> DEFINE T == Nat \ S
<1> SUFFICES ASSUME T # {} PROVE FALSE
  OBVIOUS
<1>1. PICK x \in T : \A y \in T : ~(<<y, x>> \in OpToRel(<, Nat))
  <2> HIDE DEF T
  <2>1. T \subseteq Nat
    BY DEF T
  <2> QED BY <2>1, WFMin, NatLessThanWellFounded
<1>2. x # 0 /\ x - 1 \in Nat /\ x - 1 < x
  BY DEF T
<1>3. x - 1 \notin T
  BY <1>1, <1>2 DEF OpToRel
<1>4. x \in S
  BY <1>2, <1>3
<1> QED BY <1>4

\* The recursion in Without has a solution, and Without is its value at the end.
LEMMA WithoutDef ==
  ASSUME NEW q, Len(q) \in Nat, NEW c
  PROVE  \E k : /\ k = [n \in 0..Len(q) |->
                          IF n = 0 THEN <<>>
                          ELSE IF q[n].ctx = c THEN k[n - 1] ELSE Append(k[n - 1], q[n])]
                /\ Without(q, c) = k[Len(q)]
<1> DEFINE Step(f, n) == IF n = 0 THEN <<>>
                         ELSE IF q[n].ctx = c THEN f[n - 1] ELSE Append(f[n - 1], q[n])
           Is(f, m) == f = [n \in 0..m |-> Step(f, n)]
           S == {m \in Nat : \E f : Is(f, m)}
<1>1. 0 \in S
  <2>1. Is([n \in 0..0 |-> <<>>], 0)
    OBVIOUS
  <2> QED BY <2>1
<1>2. ASSUME NEW m \in Nat, m \in S PROVE m + 1 \in S
  <2>1. PICK f : Is(f, m)
    BY <1>2
  <2> DEFINE g == [n \in 0..(m + 1) |-> IF n = m + 1 THEN Step(f, n) ELSE f[n]]
  <2>2. \A n \in 0..(m + 1) : g[n] = Step(g, n)
    <3> SUFFICES ASSUME NEW n \in 0..(m + 1) PROVE g[n] = Step(g, n)
      OBVIOUS
    <3>1. n # 0 => n - 1 \in 0..m /\ g[n - 1] = f[n - 1]
      OBVIOUS
    <3>2. n # m + 1 => f[n] = Step(f, n)
      <4>1. n # m + 1 => n \in 0..m
        OBVIOUS
      <4> QED BY <2>1, <4>1
    <3>3. g[n] = Step(f, n)
      BY <3>2
    <3> HIDE DEF g
    <3> QED BY <3>1, <3>3
  <2>3. Is(g, m + 1)
    <3> DEFINE h == [n \in 0..(m + 1) |-> Step(g, n)]
    <3>1. \A n \in 0..(m + 1) : g[n] = h[n]
      BY <2>2
    <3> QED BY <3>1
  <2> HIDE DEF Is, g
  <2> QED BY <2>3
<1>3. Nat \subseteq S
  <2> HIDE DEF S
  <2> QED BY <1>1, <1>2, SetInduction
<1>4. PICK f : Is(f, Len(q))
  BY <1>3
<1> DEFINE k == CHOOSE f0 : Is(f0, Len(q))
<1>5. Is(k, Len(q))
  BY <1>4
<1>6. Without(q, c) = k[Len(q)]
  BY DEF Without
<1> QED BY <1>5, <1>6

\* r consists of the entries of q at the first m places that are not for c, in order:
\* h says from which place each comes.
Filters(q, c, m, r, h) ==
  /\ h \in [1..Len(r) -> 1..m]
  /\ \A i \in 1..Len(r) : r[i] = q[h[i]] /\ q[h[i]].ctx # c
  /\ \A i, j \in 1..Len(r) : i < j => h[i] < h[j]
  /\ \A k \in 1..m : q[k].ctx # c => \E i \in 1..Len(r) : h[i] = k

\* delete_callbacks_for_context takes away the callbacks of the context, all of them
\* and no other, and keeps the order of the rest.
LEMMA WithoutFilters ==
  ASSUME NEW T, NEW q \in Seq(T), NEW c
  PROVE  Without(q, c) \in Seq(T) /\ \E h : Filters(q, c, Len(q), Without(q, c), h)
<1>1. PICK k : /\ k = [n \in 0..Len(q) |->
                         IF n = 0 THEN <<>>
                         ELSE IF q[n].ctx = c THEN k[n - 1] ELSE Append(k[n - 1], q[n])]
               /\ Without(q, c) = k[Len(q)]
  <2>1. Len(q) \in Nat
    OBVIOUS
  <2> QED BY <2>1, WithoutDef
<1>0. k[0] = <<>> /\ \A m \in Nat : m + 1 <= Len(q) =>
        k[m + 1] = IF q[m + 1].ctx = c THEN k[m] ELSE Append(k[m], q[m + 1])
  <2>1. \A n \in 0..Len(q) : k[n] = IF n = 0 THEN <<>>
                                     ELSE IF q[n].ctx = c THEN k[n - 1] ELSE Append(k[n - 1], q[n])
    BY <1>1
  <2>2. \A m \in Nat : m + 1 <= Len(q) => m + 1 \in 0..Len(q) /\ m + 1 # 0 /\ (m + 1) - 1 = m
    OBVIOUS
  <2> QED BY <2>1, <2>2
<1> DEFINE S == {m \in Nat : m <= Len(q) =>
                   k[m] \in Seq(T) /\ \E h : Filters(q, c, m, k[m], h)}
<1>2. 0 \in S
  <2>1. k[0] = <<>>
    BY <1>0
  <2>2. Filters(q, c, 0, k[0], [i \in 1..0 |-> 0])
    BY <2>1 DEF Filters
  <2>3. <<>> \in Seq(T)
    OBVIOUS
  <2>4. \E h : Filters(q, c, 0, k[0], h)
    BY <2>2
  <2> QED BY <2>1, <2>3, <2>4
<1>3. ASSUME NEW m \in Nat, m \in S PROVE m + 1 \in S
  <2> SUFFICES ASSUME m + 1 <= Len(q)
               PROVE  k[m + 1] \in Seq(T) /\ \E h : Filters(q, c, m + 1, k[m + 1], h)
    OBVIOUS
  <2>1. PICK h : k[m] \in Seq(T) /\ Filters(q, c, m, k[m], h)
    BY <1>3
  <2>2. q[m + 1] \in T
    OBVIOUS
  <2>3. CASE q[m + 1].ctx = c
    <3>1. k[m + 1] = k[m]
      BY <1>0, <2>3
    <3>2. Filters(q, c, m + 1, k[m + 1], h)
      BY <2>1, <2>3, <3>1 DEF Filters
    <3> QED BY <2>1, <3>1, <3>2
  <2>4. CASE q[m + 1].ctx # c
    <3>1. k[m + 1] = Append(k[m], q[m + 1])
      BY <1>0, <2>4
    <3> DEFINE r == k[m + 1]
               g == [i \in 1..Len(r) |-> IF i = Len(r) THEN m + 1 ELSE h[i]]
    <3>2. /\ r \in Seq(T) /\ Len(r) = Len(k[m]) + 1 /\ r[Len(r)] = q[m + 1]
          /\ \A i \in 1..Len(k[m]) : r[i] = k[m][i]
      BY <2>1, <2>2, <3>1
    <3>3. Filters(q, c, m + 1, r, g)
      <4> HIDE DEF r
      <4>1. g \in [1..Len(r) -> 1..(m + 1)]
        BY <2>1, <3>2 DEF Filters
      <4>2. \A i \in 1..Len(r) : r[i] = q[g[i]] /\ q[g[i]].ctx # c
        BY <2>1, <2>4, <3>2 DEF Filters
      <4>3. \A i, j \in 1..Len(r) : i < j => g[i] < g[j]
        <5> SUFFICES ASSUME NEW i \in 1..Len(r), NEW j \in 1..Len(r), i < j
                     PROVE  g[i] < g[j]
          OBVIOUS
        <5>0. Len(k[m]) \in Nat /\ i \in 1..Len(k[m]) /\ g[i] = h[i]
          BY <2>1, <3>2
        <5>1. Len(k[m]) \in Nat /\ i \in 1..Len(k[m]) /\ g[i] = h[i] /\ h[i] \in 1..m
          BY <2>1, <5>0 DEF Filters
        <5>2. CASE j = Len(r)
          BY <5>1, <5>2
        <5>3. CASE j # Len(r)
          <6>1. j \in 1..Len(k[m]) /\ g[j] = h[j]
            BY <2>1, <3>2, <5>3
          <6> QED BY <2>1, <5>1, <6>1 DEF Filters
        <5> QED BY <5>2, <5>3
      <4>4. \A n \in 1..(m + 1) : q[n].ctx # c => \E i \in 1..Len(r) : g[i] = n
        <5> SUFFICES ASSUME NEW n \in 1..(m + 1), q[n].ctx # c
                     PROVE  \E i \in 1..Len(r) : g[i] = n
          OBVIOUS
        <5>1. CASE n = m + 1
          <6>1. Len(r) \in 1..Len(r) /\ g[Len(r)] = n
            BY <2>1, <3>2, <5>1
          <6> QED BY <6>1
        <5>2. CASE n # m + 1
          <6>1. PICK i \in 1..Len(k[m]) : h[i] = n
            BY <2>1, <5>2 DEF Filters
          <6>2. i \in 1..Len(r) /\ g[i] = n
            BY <2>1, <3>2, <6>1
          <6> QED BY <6>2
        <5> QED BY <5>1, <5>2
      <4> QED BY <4>1, <4>2, <4>3, <4>4 DEF Filters
    <3> QED BY <3>2, <3>3
  <2> QED BY <2>3, <2>4
<1>4. Nat \subseteq S
  <2> HIDE DEF S
  <2> QED BY <1>2, <1>3, SetInduction
<1>5. Len(q) \in S
  BY <1>4
<1> QED BY <1>1, <1>5

-----------------------------------------------------------------------------
(* The stack of what is being executed.                                    *)

\* The places of the stack s at which a callback is being executed.
CallbacksIn(s) == {i \in DOMAIN s : s[i].k = "callback"}

Frame == [k : {"dialog", "callback"}, cb : Callback \cup {None}]

\* What a call or a dialog puts on the stack comes on top.
LEMMA Pushed ==
  ASSUME NEW s \in Seq(Frame), NEW f \in Frame
  PROVE  /\ Append(s, f) \in Seq(Frame)
         /\ CallbacksIn(Append(s, f)) =
              CallbacksIn(s) \cup (IF f.k = "callback" THEN {Len(s) + 1} ELSE {})
         /\ CallbacksIn(s) \subseteq 1..Len(s)
<1>1. Append(s, f) \in Seq(Frame) /\ DOMAIN Append(s, f) = 1..(Len(s) + 1) /\ Len(s) \in Nat
  OBVIOUS
<1>2. \A i \in 1..Len(s) : Append(s, f)[i] = s[i]
  OBVIOUS
<1>3. Append(s, f)[Len(s) + 1] = f /\ DOMAIN s = 1..Len(s)
  OBVIOUS
<1> QED BY <1>1, <1>2, <1>3 DEF CallbacksIn

\* What returns is taken from the top.
LEMMA Popped ==
  ASSUME NEW s \in Seq(Frame), s # <<>>
  PROVE  /\ Front(s) \in Seq(Frame) /\ Len(s) \in Nat \ {0} /\ Len(Front(s)) = Len(s) - 1
         /\ CallbacksIn(Front(s)) = CallbacksIn(s) \ {Len(s)}
<1>1. Len(s) \in Nat \ {0} /\ DOMAIN s = 1..Len(s) /\ Front(s) = SubSeq(s, 1, Len(s) - 1)
  BY DEF Front
<1>2. /\ SubSeq(s, 1, Len(s) - 1) \in Seq(Frame)
      /\ Len(SubSeq(s, 1, Len(s) - 1)) = Len(s) - 1
      /\ \A i \in 1..(Len(s) - 1) : SubSeq(s, 1, Len(s) - 1)[i] = s[i]
  BY <1>1
<1>3. DOMAIN Front(s) = 1..(Len(s) - 1)
  BY <1>1, <1>2
<1> QED BY <1>1, <1>2, <1>3 DEF CallbacksIn

LEMMA ExecutedIsIn == Executed = CallbacksIn(stack) /\ Executed' = CallbacksIn(stack')
  BY DEF Executed, CallbacksIn

-----------------------------------------------------------------------------
(* The queue and the flags of idempotent callbacks.                        *)

\* The entry at place i of q is the idempotent callback of c.
IdemAt(q, c, i) == q[i].ctx = c /\ q[i].idem

\* QueueIsExact, of any queue, flags and freed contexts.
Exact(q, flags, gone) ==
  /\ \A i \in DOMAIN q : q[i].ctx \notin gone
  /\ \A c \in Ctx \ gone :
       /\ c \in flags <=> \E i \in DOMAIN q : IdemAt(q, c, i)
       /\ \A i, j \in DOMAIN q : IdemAt(q, c, i) /\ IdemAt(q, c, j) => i = j

LEMMA ExactIs == QueueIsExact <=> TypeOK /\ Exact(queue, queued, freed)
  BY DEF QueueIsExact, Exact, IdemAt

LEMMA ExactIsNext == QueueIsExact' <=> TypeOK' /\ Exact(queue', queued', freed')
  BY DEF QueueIsExact, Exact, IdemAt

\* queue_toplevel_callback for a live context; the flag of an idempotent callback was
\* clear and is set.
LEMMA ExactAppend ==
  ASSUME NEW q \in Seq(Callback), NEW flags, NEW gone, Exact(q, flags, gone),
         NEW cb \in Callback, cb.ctx \notin gone, cb.idem => cb.ctx \notin flags
  PROVE  Exact(Append(q, cb), IF cb.idem THEN flags \cup {cb.ctx} ELSE flags, gone)
<1> DEFINE r == Append(q, cb)
           n == Len(q) + 1
           fl == IF cb.idem THEN flags \cup {cb.ctx} ELSE flags
<1>1. /\ DOMAIN r = 1..n /\ DOMAIN q = 1..Len(q) /\ Len(q) \in Nat
      /\ r[n] = cb /\ \A i \in 1..Len(q) : r[i] = q[i]
  OBVIOUS
<1> HIDE DEF r
<1>2. \A i \in DOMAIN r : r[i].ctx \notin gone
  BY <1>1 DEF Exact
<1>3. ASSUME NEW c \in Ctx \ gone
      PROVE  /\ c \in fl <=> \E i \in DOMAIN r : IdemAt(r, c, i)
             /\ \A i, j \in DOMAIN r : IdemAt(r, c, i) /\ IdemAt(r, c, j) => i = j
  <2>1. /\ c \in flags <=> \E i \in DOMAIN q : IdemAt(q, c, i)
        /\ \A i, j \in DOMAIN q : IdemAt(q, c, i) /\ IdemAt(q, c, j) => i = j
    BY <1>3 DEF Exact
  <2>2. \A i \in DOMAIN q : i \in DOMAIN r /\ (IdemAt(r, c, i) <=> IdemAt(q, c, i))
    BY <1>1 DEF IdemAt
  <2>3. IdemAt(r, c, n) <=> cb.ctx = c /\ cb.idem
    BY <1>1 DEF IdemAt
  <2>4. n \in DOMAIN r /\ \A i \in DOMAIN r : i = n \/ i \in DOMAIN q
    BY <1>1
  <2>5. c \in fl <=> c \in flags \/ (cb.ctx = c /\ cb.idem)
    OBVIOUS
  <2> HIDE DEF n, fl
  <2> QED BY <2>1, <2>2, <2>3, <2>4, <2>5
<1> QED BY <1>2, <1>3 DEF Exact, r

\* run_toplevel_callbacks takes the first callback and clears its flag.
LEMMA ExactTail ==
  ASSUME NEW q \in Seq(Callback), q # <<>>, NEW flags, NEW gone, Exact(q, flags, gone)
  PROVE  Exact(Tail(q), IF Head(q).idem THEN flags \ {Head(q).ctx} ELSE flags, gone)
<1> DEFINE r == Tail(q)
           fl == IF Head(q).idem THEN flags \ {Head(q).ctx} ELSE flags
<1>1. /\ DOMAIN r = 1..(Len(q) - 1) /\ DOMAIN q = 1..Len(q) /\ Len(q) \in Nat \ {0}
      /\ \A i \in 1..(Len(q) - 1) : r[i] = q[i + 1]
  OBVIOUS
<1>0. Head(q) = q[1]
  OBVIOUS
<1> HIDE DEF r
<1>2. \A i \in DOMAIN r : i + 1 \in DOMAIN q /\ r[i] = q[i + 1]
  BY <1>1
<1>3. \A k \in DOMAIN q : k # 1 => k - 1 \in DOMAIN r /\ r[k - 1] = q[k]
  BY <1>1
<1>4. \A i \in DOMAIN r : r[i].ctx \notin gone
  BY <1>2 DEF Exact
<1>5. ASSUME NEW c \in Ctx \ gone
      PROVE  /\ c \in fl <=> \E i \in DOMAIN r : IdemAt(r, c, i)
             /\ \A i, j \in DOMAIN r : IdemAt(r, c, i) /\ IdemAt(r, c, j) => i = j
  <2>1. /\ c \in flags <=> \E i \in DOMAIN q : IdemAt(q, c, i)
        /\ \A i, j \in DOMAIN q : IdemAt(q, c, i) /\ IdemAt(q, c, j) => i = j
    BY <1>5 DEF Exact
  <2>2. \A i \in DOMAIN r : IdemAt(r, c, i) <=> IdemAt(q, c, i + 1)
    BY <1>2 DEF IdemAt
  <2>3. \A i \in DOMAIN r : i \in Nat /\ i + 1 # 1
    BY <1>1
  <2>4. \A i, j \in DOMAIN r : IdemAt(r, c, i) /\ IdemAt(r, c, j) => i = j
    <3>1. \A i, j \in DOMAIN r : i + 1 = j + 1 => i = j
      BY <2>3
    <3> QED BY <1>2, <2>1, <2>2, <3>1
  <2>5. 1 \in DOMAIN q
    BY <1>1
  <2>6. CASE IdemAt(q, c, 1)
    <3>1. ~(\E i \in DOMAIN r : IdemAt(r, c, i))
      BY <1>2, <2>1, <2>2, <2>3, <2>5, <2>6
    <3>2. c \notin fl
      BY <1>0, <2>6 DEF IdemAt
    <3> QED BY <2>4, <3>1, <3>2
  <2>7. CASE ~IdemAt(q, c, 1)
    <3>1. c \in fl <=> c \in flags
      BY <1>0, <2>7 DEF IdemAt
    <3>2. \A k \in DOMAIN q : IdemAt(q, c, k) => k - 1 \in DOMAIN r /\ IdemAt(r, c, k - 1)
      BY <1>3, <2>7 DEF IdemAt
    <3>3. (\E k \in DOMAIN q : IdemAt(q, c, k)) <=> \E i \in DOMAIN r : IdemAt(r, c, i)
      BY <1>2, <2>2, <3>2
    <3> QED BY <2>1, <2>4, <3>1, <3>3
  <2> QED BY <2>6, <2>7
<1> QED BY <1>4, <1>5 DEF Exact, r

\* delete_callbacks_for_context leaves nothing of the context, and of the others all.
LEMMA ExactWithout ==
  ASSUME NEW q \in Seq(Callback), NEW flags, NEW gone, Exact(q, flags, gone), NEW d
  PROVE  Exact(Without(q, d), flags, gone \cup {d})
<1> DEFINE r == Without(q, d)
<1>1. PICK h : r \in Seq(Callback) /\ Filters(q, d, Len(q), r, h)
  BY WithoutFilters
<1> HIDE DEF r
<1>2. DOMAIN r = 1..Len(r) /\ DOMAIN q = 1..Len(q) /\ Len(r) \in Nat
  BY <1>1
<1>3. \A i \in DOMAIN r : h[i] \in DOMAIN q /\ r[i] = q[h[i]] /\ r[i].ctx # d
  BY <1>1, <1>2 DEF Filters
<1>4. \A i, j \in DOMAIN r : h[i] = h[j] => i = j
  <2> SUFFICES ASSUME NEW i \in DOMAIN r, NEW j \in DOMAIN r, h[i] = h[j], i # j
               PROVE  FALSE
    OBVIOUS
  <2>1. i < j \/ j < i
    BY <1>2
  <2>2. h[i] \in Nat /\ h[j] \in Nat /\ (i < j => h[i] < h[j]) /\ (j < i => h[j] < h[i])
    BY <1>1, <1>2 DEF Filters
  <2> QED BY <2>1, <2>2
<1>5. \A k \in DOMAIN q : q[k].ctx # d => \E i \in DOMAIN r : h[i] = k
  BY <1>1, <1>2 DEF Filters
<1>6. \A i \in DOMAIN r : r[i].ctx \notin gone \cup {d}
  BY <1>3 DEF Exact
<1>7. ASSUME NEW c \in Ctx \ (gone \cup {d})
      PROVE  /\ c \in flags <=> \E i \in DOMAIN r : IdemAt(r, c, i)
             /\ \A i, j \in DOMAIN r : IdemAt(r, c, i) /\ IdemAt(r, c, j) => i = j
  <2>1. /\ c \in flags <=> \E i \in DOMAIN q : IdemAt(q, c, i)
        /\ \A i, j \in DOMAIN q : IdemAt(q, c, i) /\ IdemAt(q, c, j) => i = j
    BY <1>7 DEF Exact
  <2>2. \A i \in DOMAIN r : IdemAt(r, c, i) <=> IdemAt(q, c, h[i])
    BY <1>3 DEF IdemAt
  <2>3. \A k \in DOMAIN q : IdemAt(q, c, k) => \E i \in DOMAIN r : h[i] = k
    BY <1>5, <1>7 DEF IdemAt
  <2> QED BY <1>3, <1>4, <2>1, <2>2, <2>3
<1> QED BY <1>6, <1>7 DEF Exact, r

-----------------------------------------------------------------------------
(* The invariant.                                                          *)

\* Notifications, cbcurr and the stack: what CallbacksInv says beside QueueIsExact.
Notified ==
  /\ NoneStranded /\ OneAtATime
  /\ cbcurr # None => Executed # {}
  /\ ~deleted => shots <= 1 /\ (shots = 1 => queue # <<>> /\ Executed = {})

LEMMA CallbacksInit == Init => CallbacksInv
<1> SUFFICES ASSUME Init PROVE CallbacksInv
  OBVIOUS
<1>1. TypeOK
  <2>1. queue \in Seq(Callback) /\ stack \in Seq(Frame)
    BY DEF Init
  <2> QED BY <2>1 DEF Init, TypeOK, Frame
<1>2. Exact(queue, queued, freed)
  BY DEF Init, Exact
<1>3. Executed = {}
  BY DEF Init, Executed
<1> QED BY <1>1, <1>2, <1>3, ExactIs
       DEF Init, CallbacksInv, NoneStranded, OneAtATime

\* queue_toplevel_callback from either of its callers.
LEMMA QueueStep ==
  ASSUME CallbacksInv, NEW c \in Ctx, NEW idem \in BOOLEAN, c \notin freed,
         idem => c \notin queued, QueueToplevelCallback(c, idem),
         queued' = IF idem THEN queued \cup {c} ELSE queued,
         UNCHANGED <<cbcurr, freed, stack, dialogs, deleted>>
  PROVE  CallbacksInv'
<1> DEFINE cb == [ctx |-> c, idem |-> idem, n |-> total + 1]
<1>0. TypeOK /\ Exact(queue, queued, freed)
  BY ExactIs DEF CallbacksInv
<1>1. cb \in Callback /\ cb.ctx = c /\ cb.idem = idem
  BY <1>0 DEF TypeOK, Callback
<1>2. queue' = Append(queue, cb) /\ queue \in Seq(Callback) /\ shots \in Nat
  BY <1>0 DEF QueueToplevelCallback, TypeOK
<1> HIDE DEF cb
<1>3. queue' \in Seq(Callback) /\ queue' # <<>>
  BY <1>1, <1>2
<1>4. TypeOK'
  <2>1. total' \in Nat /\ shots' \in Nat
    BY <1>0 DEF QueueToplevelCallback, TypeOK
  <2>2. queued' \subseteq Ctx
    BY <1>0 DEF TypeOK
  <2> QED BY <1>0, <1>3, <2>1, <2>2 DEF TypeOK
<1>5. Exact(queue', queued', freed')
  BY <1>0, <1>1, <1>2, ExactAppend
<1>6. Executed' = Executed
  BY DEF Executed
<1>7. Notified'
  <2>1. shots' = IF queue = <<>> /\ cbcurr = None THEN shots + 1 ELSE shots
    BY DEF QueueToplevelCallback
  <2>2. NoneStranded'
    BY <1>2, <1>3, <1>6, <2>1 DEF CallbacksInv, NoneStranded
  <2>3. OneAtATime' /\ (cbcurr' # None => Executed' # {})
    BY <1>6 DEF CallbacksInv, OneAtATime
  <2>4. ~deleted' => shots' <= 1 /\ (shots' = 1 => queue' # <<>> /\ Executed' = {})
    BY <1>2, <1>3, <1>6, <2>1 DEF CallbacksInv, OneAtATime
  <2> QED BY <2>2, <2>3, <2>4 DEF Notified
<1> QED BY <1>4, <1>5, <1>7, ExactIsNext DEF CallbacksInv, Notified

\* run_toplevel_callbacks takes the head of the queue, on top of the stack below.
LEMMA RunStep ==
  ASSUME TypeOK, Exact(queue, queued, freed), queue # <<>>,
         NEW below \in Seq(Frame), RunToplevelCallbacks(below), UNCHANGED freed
  PROVE  /\ queue' \in Seq(Callback) /\ cbcurr' \in Callback /\ queued' \subseteq Ctx
         /\ stack' \in Seq(Frame) /\ Exact(queue', queued', freed')
         /\ CallbacksIn(stack') = CallbacksIn(below) \cup {Len(below) + 1}
<1>1. queue \in Seq(Callback) /\ queued \subseteq Ctx
  BY DEF TypeOK
<1>2. Head(queue) \in Callback /\ queue' \in Seq(Callback)
  BY <1>1 DEF RunToplevelCallbacks
<1>3. Executing(Head(queue)) \in Frame /\ Executing(Head(queue)).k = "callback"
  BY <1>2 DEF Executing, Frame
<1>4. /\ stack' \in Seq(Frame)
      /\ CallbacksIn(stack') = CallbacksIn(below) \cup {Len(below) + 1}
  BY <1>3, Pushed DEF RunToplevelCallbacks
<1>5. Exact(queue', queued', freed')
  BY <1>1, ExactTail DEF RunToplevelCallbacks
<1> QED BY <1>1, <1>2, <1>4, <1>5 DEF RunToplevelCallbacks

\* Every step keeps the invariant.
LEMMA CallbacksStep ==
  ASSUME CallbacksInv, [Next]_vars
  PROVE  CallbacksInv'
<1> USE CallbacksAssumption
<1>0. TypeOK /\ Exact(queue, queued, freed) /\ Notified
  BY ExactIs DEF CallbacksInv, Notified
<1>t. /\ queue \in Seq(Callback) /\ stack \in Seq(Frame) /\ shots \in Nat
      /\ deleted \in BOOLEAN /\ cbcurr \in Callback \cup {None}
  BY <1>0 DEF TypeOK, Frame
<1>1. CASE UNCHANGED vars
  <2>1. TypeOK' /\ Notified' /\ Exact(queue', queued', freed')
    BY <1>0, <1>1 DEF vars, TypeOK, Notified, NoneStranded, OneAtATime, Executed
  <2> QED BY <2>1, ExactIsNext DEF CallbacksInv, Notified
<1>2. ASSUME NEW c \in Ctx, QueuePlain(c) PROVE CallbacksInv'
  <2>1. FALSE \in BOOLEAN
    OBVIOUS
  <2> QED BY <1>2, <2>1, QueueStep DEF QueuePlain
<1>3. ASSUME NEW c \in Ctx, QueueIdempotentCallback(c) PROVE CallbacksInv'
  <2>1. TRUE \in BOOLEAN
    OBVIOUS
  <2> QED BY <1>3, <2>1, QueueStep DEF QueueIdempotentCallback
<1>4. ASSUME NEW c \in Ctx, DeleteCallbacksForContext(c) PROVE CallbacksInv'
  <2>1. queue' \in Seq(Callback)
    BY <1>4, <1>t, WithoutFilters DEF DeleteCallbacksForContext
  <2>2. TypeOK'
    BY <1>0, <1>4, <2>1 DEF TypeOK, DeleteCallbacksForContext
  <2>3. Exact(queue', queued', freed')
    BY <1>0, <1>4, <1>t, ExactWithout DEF DeleteCallbacksForContext
  <2>4. Executed' = Executed
    BY <1>4 DEF DeleteCallbacksForContext, Executed
  <2>5. queue' # <<>> => queue # <<>>
    <3> SUFFICES ASSUME queue = <<>>, queue' # <<>> PROVE FALSE
      OBVIOUS
    <3>1. PICK h : Filters(queue, c, Len(queue), queue', h)
      BY <1>4, <1>t, WithoutFilters DEF DeleteCallbacksForContext
    <3>2. Len(queue') \in Nat \ {0} /\ Len(queue) = 0
      BY <2>1
    <3>3. 1 \in 1..Len(queue') /\ h[1] \in 1..0
      BY <3>1, <3>2 DEF Filters
    <3> QED BY <3>3
  <2>6. Notified'
    BY <1>0, <1>4, <1>t, <2>4, <2>5
       DEF DeleteCallbacksForContext, Notified, NoneStranded, OneAtATime
  <2> QED BY <2>2, <2>3, <2>6, ExactIsNext DEF CallbacksInv, Notified
<1>5. CASE FireShot
  <2>1. CASE queue = <<>>
    <3>1. TypeOK' /\ Exact(queue', queued', freed')
      BY <1>0, <1>5, <2>1 DEF FireShot, TypeOK
    <3>2. Executed' = Executed
      BY <1>5, <2>1 DEF FireShot, Executed
    <3>3. Notified'
      BY <1>0, <1>5, <1>t, <2>1, <3>2 DEF FireShot, Notified, NoneStranded, OneAtATime
    <3> QED BY <3>1, <3>3, ExactIsNext DEF CallbacksInv, Notified
  <2>2. CASE queue # <<>>
    <3>1. /\ queue' \in Seq(Callback) /\ cbcurr' \in Callback /\ queued' \subseteq Ctx
          /\ stack' \in Seq(Frame) /\ Exact(queue', queued', freed')
          /\ CallbacksIn(stack') = CallbacksIn(stack) \cup {Len(stack) + 1}
      BY <1>0, <1>5, <1>t, <2>2, RunStep DEF FireShot
    <3>2. shots' = shots - 1 /\ shots > 0 /\ UNCHANGED <<freed, total, dialogs, deleted>>
      BY <1>5 DEF FireShot
    <3>3. TypeOK'
      BY <1>0, <1>t, <3>1, <3>2 DEF TypeOK, Frame
    <3>4. Executed' = Executed \cup {Len(stack) + 1} /\ cbcurr' # None
      BY <3>1, ExecutedIsIn
    <3>5. ~deleted => shots = 1 /\ Executed = {}
      BY <1>0, <1>t, <3>2 DEF Notified
    <3>6. Notified'
      BY <1>t, <3>2, <3>4, <3>5 DEF Notified, NoneStranded, OneAtATime
    <3> QED BY <3>1, <3>3, <3>6, ExactIsNext DEF CallbacksInv, Notified
  <2> QED BY <2>1, <2>2
<1>6. CASE CallbackReturns
  <2>0. /\ stack # <<>> /\ stack[Len(stack)].k = "callback"
        /\ UNCHANGED <<freed, shots, total, dialogs, deleted>>
    BY <1>6 DEF CallbackReturns, InCallback, Last
  <2>1. /\ Front(stack) \in Seq(Frame) /\ Len(stack) \in Nat \ {0}
        /\ Len(Front(stack)) = Len(stack) - 1
        /\ CallbacksIn(Front(stack)) = CallbacksIn(stack) \ {Len(stack)}
    BY <1>t, <2>0, Popped
  <2>2. Len(stack) \in Executed
    BY <1>t, <2>0, <2>1 DEF Executed
  <2>3. ~deleted => Executed = {Len(stack)} /\ shots = 0
    BY <1>0, <1>t, <2>2 DEF Notified, OneAtATime
  <2>4. CASE queue = <<>>
    <3>1. /\ cbcurr' = None /\ stack' = Front(stack) /\ UNCHANGED <<queue, queued>>
      BY <1>6, <2>4 DEF CallbackReturns
    <3>2. TypeOK' /\ Exact(queue', queued', freed')
      BY <1>0, <2>0, <2>1, <3>1 DEF TypeOK, Frame
    <3>3. Executed' = Executed \ {Len(stack)}
      BY <2>1, <3>1, ExecutedIsIn
    <3>4. Notified'
      BY <1>t, <2>0, <2>3, <2>4, <3>1, <3>3 DEF Notified, NoneStranded, OneAtATime
    <3> QED BY <3>2, <3>4, ExactIsNext DEF CallbacksInv, Notified
  <2>5. CASE queue # <<>>
    <3>1. /\ queue' \in Seq(Callback) /\ cbcurr' \in Callback /\ queued' \subseteq Ctx
          /\ stack' \in Seq(Frame) /\ Exact(queue', queued', freed')
          /\ CallbacksIn(stack') = CallbacksIn(Front(stack)) \cup {Len(Front(stack)) + 1}
      BY <1>0, <1>6, <2>0, <2>1, <2>5, RunStep DEF CallbackReturns
    <3>2. TypeOK'
      BY <1>0, <2>0, <3>1 DEF TypeOK, Frame
    <3>3. Executed' = Executed /\ cbcurr' # None
      BY <2>1, <2>2, <3>1, ExecutedIsIn
    <3>4. Notified'
      BY <1>t, <2>0, <2>2, <2>3, <3>3 DEF Notified, NoneStranded, OneAtATime
    <3> QED BY <3>1, <3>2, <3>4, ExactIsNext DEF CallbacksInv, Notified
  <2> QED BY <2>4, <2>5
<1>7. CASE OpenDialog
  <2>1. Dialog \in Frame /\ Dialog.k = "dialog"
    BY DEF Dialog, Frame
  <2>2. stack' \in Seq(Frame) /\ CallbacksIn(stack') = CallbacksIn(stack)
    BY <1>7, <1>t, <2>1, Pushed DEF OpenDialog
  <2>3. TypeOK' /\ Exact(queue', queued', freed')
    BY <1>0, <1>7, <2>2 DEF OpenDialog, TypeOK, Frame
  <2>4. Notified'
    BY <1>0, <1>7, <2>2, ExecutedIsIn DEF OpenDialog, Notified, NoneStranded, OneAtATime
  <2> QED BY <2>3, <2>4, ExactIsNext DEF CallbacksInv, Notified
<1>8. CASE AnswerDialog
  <2>1. stack # <<>> /\ stack[Len(stack)].k # "callback" /\ stack' = Front(stack)
    BY <1>8 DEF AnswerDialog, Last
  <2>2. stack' \in Seq(Frame) /\ CallbacksIn(stack') = CallbacksIn(stack)
    BY <1>t, <2>1, Popped DEF CallbacksIn
  <2>3. TypeOK' /\ Exact(queue', queued', freed')
    BY <1>0, <1>8, <2>2 DEF AnswerDialog, TypeOK, Frame
  <2>4. Notified'
    BY <1>0, <1>8, <2>2, ExecutedIsIn DEF AnswerDialog, Notified, NoneStranded, OneAtATime
  <2> QED BY <2>3, <2>4, ExactIsNext DEF CallbacksInv, Notified
<1> QED BY <1>1, <1>2, <1>3, <1>4, <1>5, <1>6, <1>7, <1>8 DEF Next

\* The invariant of callback.c under callback_notify.
THEOREM CallbacksSafe == Spec => []CallbacksInv
<1>1. CallbacksInv /\ [Next]_vars => CallbacksInv'
  BY CallbacksStep
<1> QED BY <1>1, CallbacksInit, PTL DEF Spec

\* A queued callback always has a notification under way or a loop that comes to it.
THEOREM NoCallbackStranded == Spec => []NoneStranded
<1>1. CallbacksInv => NoneStranded
  BY DEF CallbacksInv
<1> QED BY <1>1, CallbacksSafe, PTL

\* The queue never holds a callback of a freed context, and queued flags are right.
THEOREM QueueExact == Spec => []QueueIsExact
<1>1. CallbacksInv => QueueIsExact
  BY DEF CallbacksInv
<1> QED BY <1>1, CallbacksSafe, PTL

\* Until a deletion has emptied the queue, callbacks run one at a time.
THEOREM CallbacksDoNotNest == Spec => []OneAtATime
<1>1. CallbacksInv => OneAtATime
  BY DEF CallbacksInv
<1> QED BY <1>1, CallbacksSafe, PTL
=============================================================================
