-------------------------- MODULE TmuxStreamProofs --------------------------
(***************************************************************************)
(* Proofs about TmuxStream, for texts of any length cut into reads in any  *)
(* way: the lines parsed are the lines the server wrote, and %exit is the  *)
(* last of them.                                                           *)
(*                                                                         *)
(* The loop of fromBackend is a recursive function.  Its loop invariant is *)
(* proved by induction on the bytes scanned; the induction is made with    *)
(* sets of numbers, from the fact that < is well-founded.                  *)
(***************************************************************************)
EXTENDS TmuxStream, SequenceTheorems, WellFoundedInduction, TLAPS

-----------------------------------------------------------------------------
(* Induction, and the least number of a set.                               *)

\* A nonempty set of numbers has a least one, which is what Min is.
LEMMA MinIsLeast ==
  ASSUME NEW S, S \subseteq Nat, S # {}
  PROVE  Min(S) \in S /\ \A y \in S : Min(S) <= y
<1>1. PICK x \in S : \A y \in S : ~(<<y, x>> \in OpToRel(<, Nat))
  BY WFMin, NatLessThanWellFounded
<1>2. \A y \in S : x =< y
  <2> SUFFICES ASSUME NEW y \in S, ~(x =< y) PROVE FALSE
    OBVIOUS
  <2>1. y \in Nat /\ x \in Nat /\ y < x
    OBVIOUS
  <2>2. <<y, x>> \in OpToRel(<, Nat)
    BY <2>1 DEF OpToRel
  <2> QED BY <1>1, <2>2
<1> QED BY <1>2 DEF Min

\* A set with 0 and the successor of each of its numbers has every number.
LEMMA SetInduction ==
  ASSUME NEW S, 0 \in S, \A n \in Nat : n \in S => n + 1 \in S
  PROVE  Nat \subseteq S
<1> DEFINE T == Nat \ S
<1> SUFFICES ASSUME T # {} PROVE FALSE
  OBVIOUS
<1>1. Min(T) \in T /\ \A y \in T : Min(T) <= y
  <2>1. T \subseteq Nat
    OBVIOUS
  <2> HIDE DEF T
  <2> QED BY <2>1, MinIsLeast
<1> DEFINE x == Min(T)
<1> HIDE DEF x
<1>2. x \in Nat /\ x # 0 /\ x - 1 \in Nat /\ x - 1 < x
  BY <1>1 DEF x
<1>3. x - 1 \notin T
  BY <1>1, <1>2 DEF x
<1>4. x \in S
  BY <1>2, <1>3
<1> QED BY <1>1, <1>4 DEF x

-----------------------------------------------------------------------------
(* Lines put together.                                                     *)

\* Where texts are joined first does not matter, and a text cut in two is its parts.
LEMMA Assoc ==
  ASSUME NEW T, NEW x \in Seq(T), NEW y \in Seq(T), NEW z \in Seq(T)
  PROVE  (x \o y) \o z = x \o (y \o z)
OBVIOUS

LEMMA Halves ==
  ASSUME NEW T, NEW s \in Seq(T), NEW n \in 0..Len(s)
  PROVE  SubSeq(s, 1, n) \o SubSeq(s, n + 1, Len(s)) = s
<1>1. SubSeq(s, 1, n) \o SubSeq(s, n + 1, Len(s)) = SubSeq(s, 1, Len(s))
  <2>1. 1 \in 1..Len(s) + 1 /\ n \in 1 - 1..Len(s) /\ Len(s) \in n..Len(s)
    OBVIOUS
  <2> QED BY <2>1, ConcatAdjacentSubSeq
<1>2. SubSeq(s, 1, Len(s)) = s
  BY SubSeqFull
<1> QED BY <1>1, <1>2

\* The recursion in FlattenSeq has a solution, and FlattenSeq is its value at the end.
LEMMA FlattenDef ==
  ASSUME NEW s, Len(s) \in Nat \ {0}
  PROVE  \E k : /\ k = [i \in 1..Len(s) |-> IF i = 1 THEN s[i] ELSE k[i - 1] \o s[i]]
                /\ FlattenSeq(s) = k[Len(s)]
<1> DEFINE Step(f, i) == IF i = 1 THEN s[i] ELSE f[i - 1] \o s[i]
           Is(f, m) == f = [i \in 1..m |-> Step(f, i)]
           S == {m \in Nat : \E f : Is(f, m)}
<1>1. 0 \in S
  <2>1. Is([i \in 1..0 |-> s[i]], 0)
    OBVIOUS
  <2> QED BY <2>1
<1>2. ASSUME NEW m \in Nat, m \in S PROVE m + 1 \in S
  <2>1. PICK f : Is(f, m)
    BY <1>2
  <2> DEFINE g == [i \in 1..(m + 1) |-> IF i = m + 1 THEN Step(f, i) ELSE f[i]]
  <2>2. \A i \in 1..(m + 1) : g[i] = Step(g, i)
    <3> SUFFICES ASSUME NEW i \in 1..(m + 1) PROVE g[i] = Step(g, i)
      OBVIOUS
    <3>1. i # 1 => i - 1 \in 1..m /\ g[i - 1] = f[i - 1]
      OBVIOUS
    <3>2. i # m + 1 => f[i] = Step(f, i)
      <4>1. i # m + 1 => i \in 1..m
        OBVIOUS
      <4> QED BY <2>1, <4>1
    <3>3. g[i] = Step(f, i)
      BY <3>2
    <3> HIDE DEF g
    <3> QED BY <3>1, <3>3
  <2>3. Is(g, m + 1)
    <3> DEFINE h == [i \in 1..(m + 1) |-> Step(g, i)]
    <3>1. \A i \in 1..(m + 1) : g[i] = h[i]
      BY <2>2
    <3> QED BY <3>1
  <2> HIDE DEF Is, g
  <2> QED BY <2>3
<1>3. Nat \subseteq S
  <2> HIDE DEF S
  <2> QED BY <1>1, <1>2, SetInduction
<1>4. PICK f : Is(f, Len(s))
  BY <1>3
<1> DEFINE k == CHOOSE f0 : Is(f0, Len(s))
<1>5. Is(k, Len(s))
  BY <1>4
<1>6. FlattenSeq(s) = k[Len(s)]
  BY DEF FlattenSeq
<1> QED BY <1>5, <1>6

\* One more line.
LEMMA FlattenAppend ==
  ASSUME NEW T, NEW s \in Seq(Seq(T)), NEW t \in Seq(T)
  PROVE  /\ FlattenSeq(s) \in Seq(T)
         /\ FlattenSeq(Append(s, t)) = FlattenSeq(s) \o t
<1> DEFINE u == Append(s, t)
<1>1. /\ Len(u) = Len(s) + 1 /\ Len(s) \in Nat /\ u[Len(u)] = t
      /\ \A i \in 1..Len(s) : u[i] = s[i] /\ s[i] \in Seq(T)
  OBVIOUS
<1>2. PICK k : /\ k = [i \in 1..Len(u) |-> IF i = 1 THEN u[i] ELSE k[i - 1] \o u[i]]
               /\ FlattenSeq(u) = k[Len(u)]
  <2>1. Len(u) \in Nat \ {0}
    BY <1>1
  <2> HIDE DEF u
  <2> QED BY <2>1, FlattenDef
<1>3. CASE Len(s) = 0
  <2>1. s = <<>>
    BY <1>3
  <2>2. FlattenSeq(s) = <<>>
    BY <2>1 DEF FlattenSeq
  <2> HIDE DEF u
  <2>3. FlattenSeq(u) = t
    BY <1>1, <1>2, <1>3
  <2> QED BY <2>2, <2>3 DEF u
<1>4. CASE Len(s) # 0
  <2>1. PICK h : /\ h = [i \in 1..Len(s) |-> IF i = 1 THEN s[i] ELSE h[i - 1] \o s[i]]
                 /\ FlattenSeq(s) = h[Len(s)]
    BY <1>1, <1>4, FlattenDef
  <2> DEFINE S == {m \in Nat : m + 1 <= Len(s) => k[m + 1] = h[m + 1] /\ h[m + 1] \in Seq(T)}
  <2> HIDE DEF u
  <2>2. \A i \in 1..Len(s) : /\ k[i] = IF i = 1 THEN s[i] ELSE k[i - 1] \o s[i]
                             /\ h[i] = IF i = 1 THEN s[i] ELSE h[i - 1] \o s[i]
    <3> SUFFICES ASSUME NEW i \in 1..Len(s)
                 PROVE  /\ k[i] = IF i = 1 THEN s[i] ELSE k[i - 1] \o s[i]
                        /\ h[i] = IF i = 1 THEN s[i] ELSE h[i - 1] \o s[i]
      OBVIOUS
    <3>1. i \in 1..Len(u) /\ u[i] = s[i]
      BY <1>1
    <3>2. h[i] = IF i = 1 THEN s[i] ELSE h[i - 1] \o s[i]
      BY <2>1
    <3>3. k[i] = IF i = 1 THEN u[i] ELSE k[i - 1] \o u[i]
      BY <1>2, <3>1
    <3> QED BY <3>1, <3>2, <3>3
  <2>3. 0 \in S
    BY <1>1, <2>2
  <2>4. ASSUME NEW m \in Nat, m \in S PROVE m + 1 \in S
    <3> SUFFICES ASSUME (m + 1) + 1 <= Len(s)
                 PROVE  k[(m + 1) + 1] = h[(m + 1) + 1] /\ h[(m + 1) + 1] \in Seq(T)
      OBVIOUS
    <3>1. /\ (m + 1) + 1 \in 1..Len(s) /\ (m + 1) + 1 # 1 /\ ((m + 1) + 1) - 1 = m + 1
          /\ m + 1 <= Len(s)
      BY <1>1
    <3>2. k[m + 1] = h[m + 1] /\ h[m + 1] \in Seq(T)
      BY <2>4, <3>1
    <3>3. s[(m + 1) + 1] \in Seq(T)
      BY <1>1, <3>1
    <3>4. /\ k[(m + 1) + 1] = k[m + 1] \o s[(m + 1) + 1]
          /\ h[(m + 1) + 1] = h[m + 1] \o s[(m + 1) + 1]
      BY <2>2, <3>1
    <3> QED BY <3>2, <3>3, <3>4, ConcatProperties
  <2>5. Nat \subseteq S
    <3> HIDE DEF S
    <3> QED BY <2>3, <2>4, SetInduction
  <2>6. k[Len(s)] = h[Len(s)] /\ h[Len(s)] \in Seq(T)
    <3>1. Len(s) - 1 \in Nat /\ (Len(s) - 1) + 1 = Len(s)
      BY <1>1, <1>4
    <3>2. Len(s) - 1 \in S
      <4> HIDE DEF S
      <4> QED BY <2>5, <3>1
    <3> QED BY <3>1, <3>2
  <2>7. k[Len(u)] = k[Len(s)] \o t
    <3>1. Len(u) \in 1..Len(u) /\ Len(u) # 1 /\ Len(u) - 1 = Len(s)
      BY <1>1, <1>4
    <3>2. k[Len(u)] = IF Len(u) = 1 THEN u[Len(u)] ELSE k[Len(u) - 1] \o u[Len(u)]
      BY <1>2, <3>1
    <3> QED BY <1>1, <3>1, <3>2
  <2> QED BY <1>2, <2>1, <2>6, <2>7 DEF u
<1> QED BY <1>3, <1>4

\* More lines.
LEMMA FlattenConcat ==
  ASSUME NEW T, NEW a \in Seq(Seq(T)), NEW b \in Seq(Seq(T))
  PROVE  FlattenSeq(a \o b) = FlattenSeq(a) \o FlattenSeq(b)
<1> DEFINE S == {n \in Nat : \A c \in Seq(Seq(T)) : Len(c) = n =>
                               FlattenSeq(a \o c) = FlattenSeq(a) \o FlattenSeq(c)}
<1>0. FlattenSeq(a) \in Seq(T)
  <2>1. <<>> \in Seq(T)
    OBVIOUS
  <2> QED BY <2>1, FlattenAppend
<1>1. 0 \in S
  <2> SUFFICES ASSUME NEW c \in Seq(Seq(T)), Len(c) = 0
               PROVE  FlattenSeq(a \o c) = FlattenSeq(a) \o FlattenSeq(c)
    OBVIOUS
  <2>1. c = <<>> /\ a \o c = a
    OBVIOUS
  <2>2. FlattenSeq(c) = <<>>
    BY <2>1 DEF FlattenSeq
  <2> QED BY <1>0, <2>1, <2>2
<1>2. ASSUME NEW n \in Nat, n \in S PROVE n + 1 \in S
  <2> SUFFICES ASSUME NEW c \in Seq(Seq(T)), Len(c) = n + 1
               PROVE  FlattenSeq(a \o c) = FlattenSeq(a) \o FlattenSeq(c)
    OBVIOUS
  <2>1. PICK d \in Seq(Seq(T)), e \in Seq(T) : c = Append(d, e)
    <3>1. c # <<>>
      OBVIOUS
    <3> QED BY <3>1, SequenceEmptyOrAppend
  <2>2. Len(d) = n
    BY <2>1
  <2>3. FlattenSeq(a \o d) = FlattenSeq(a) \o FlattenSeq(d)
    BY <1>2, <2>2
  <2>4. a \o c = Append(a \o d, e) /\ a \o d \in Seq(Seq(T))
    BY <2>1
  <2>5. /\ FlattenSeq(a \o c) = FlattenSeq(a \o d) \o e
        /\ FlattenSeq(c) = FlattenSeq(d) \o e /\ FlattenSeq(d) \in Seq(T)
    BY <2>1, <2>4, FlattenAppend
  <2> DEFINE fa == FlattenSeq(a)  fd == FlattenSeq(d)
  <2>6. (fa \o fd) \o e = fa \o (fd \o e)
    <3>1. fa \in Seq(T) /\ fd \in Seq(T)
      BY <1>0, <2>5
    <3> HIDE DEF fa, fd
    <3> QED BY <3>1
  <2> QED BY <2>3, <2>5, <2>6
<1>3. Nat \subseteq S
  <2> HIDE DEF S
  <2> QED BY <1>1, <1>2, SetInduction
<1>4. Len(b) \in S
  <2>1. Len(b) \in Nat
    OBVIOUS
  <2> HIDE DEF S
  <2> QED BY <1>3, <2>1
<1> QED BY <1>4

-----------------------------------------------------------------------------
(* The scan of what follows the first line.                                *)

\* Appending a line.
LEMMA AppendLine ==
  ASSUME NEW T, NEW s \in Seq(T), NEW e \in T
  PROVE  /\ Append(s, e) \in Seq(T) /\ Len(Append(s, e)) = Len(s) + 1
         /\ Append(s, e)[Len(s) + 1] = e
         /\ \A j \in 1..Len(s) : Append(s, e)[j] = s[j]
OBVIOUS

\* Lines whose only end of line is at their end, of which none but the last is %exit,
\* and that one if and only if x.
WholeLines(ls, x) ==
  /\ \A j \in 1..Len(ls) : Newlines(ls[j]) = {Len(ls[j])}
  /\ \A j \in 1..Len(ls) : IsExit(ls[j]) <=> j = Len(ls) /\ x
  /\ x => ls # <<>>

\* The scan after m bytes: the lines found are the bytes before respLen, and there is
\* no end of line from there on, unless %exit ended the scan.
Scanned(buf, m, a) ==
  /\ a.lines \in Seq(Seq(Bytes)) /\ a.respLen \in 0..m
  /\ a.exited \in BOOLEAN /\ a.rem \in Nat
  /\ FlattenSeq(a.lines) = SubSeq(buf, 1, a.respLen)
  /\ WholeLines(a.lines, a.exited)
  /\ ~a.exited => \A p \in (a.respLen + 1)..m : buf[p].c # "\n"

\* One more byte, in the code's loop.
ScanStep(buf, a, i) ==
  IF a.exited \/ buf[i].c # "\n" THEN a
  ELSE LET line == SubSeq(buf, a.respLen + 1, i) IN
       [lines |-> Append(a.lines, line), respLen |-> i,
        exited |-> IsExit(line), rem |-> IF IsExit(line) THEN Len(buf) - i ELSE 0]

\* The recursion in Scan has a solution, and Scan is its value at the end.
LEMMA ScanDef ==
  ASSUME NEW buf, Len(buf) \in Nat
  PROVE  \E k : /\ k[0] = ScanStart /\ Scan(buf) = k[Len(buf)]
                /\ \A m \in Nat : m + 1 <= Len(buf) => k[m + 1] = ScanStep(buf, k[m], m + 1)
<1> DEFINE Step(f, i) ==
             IF i = 0 THEN ScanStart
             ELSE IF f[i - 1].exited \/ buf[i].c # "\n" THEN f[i - 1]
             ELSE LET line == SubSeq(buf, f[i - 1].respLen + 1, i) IN
                  [lines |-> Append(f[i - 1].lines, line), respLen |-> i,
                   exited |-> IsExit(line), rem |-> IF IsExit(line) THEN Len(buf) - i ELSE 0]
           Is(f, m) == f = [i \in 0..m |-> Step(f, i)]
           S == {m \in Nat : \E f : Is(f, m)}
<1>0. \A f : \A i \in Nat :
         Step(f, i) = IF i = 0 THEN ScanStart ELSE ScanStep(buf, f[i - 1], i)
  BY DEF ScanStep
<1>1. \A f, g : \A i \in Nat : (i # 0 => f[i - 1] = g[i - 1]) => Step(f, i) = Step(g, i)
  <2> HIDE DEF Step
  <2> QED BY <1>0
<1>2. 0 \in S
  <2>1. Is([i \in 0..0 |-> ScanStart], 0)
    OBVIOUS
  <2> QED BY <2>1
<1>3. ASSUME NEW m \in Nat, m \in S PROVE m + 1 \in S
  <2>1. PICK f : Is(f, m)
    BY <1>3
  <2> HIDE DEF Step
  <2> DEFINE g == [i \in 0..(m + 1) |-> IF i = m + 1 THEN Step(f, i) ELSE f[i]]
  <2>2. \A i \in 0..(m + 1) : g[i] = Step(g, i)
    <3> SUFFICES ASSUME NEW i \in 0..(m + 1) PROVE g[i] = Step(g, i)
      OBVIOUS
    <3>1. i # 0 => i - 1 \in 0..m /\ g[i - 1] = f[i - 1]
      OBVIOUS
    <3>2. i # m + 1 => f[i] = Step(f, i)
      <4>1. i # m + 1 => i \in 0..m
        OBVIOUS
      <4> QED BY <2>1, <4>1
    <3>3. g[i] = Step(f, i)
      BY <3>2
    <3> HIDE DEF g
    <3>4. i \in Nat
      OBVIOUS
    <3> QED BY <1>1, <3>1, <3>3, <3>4
  <2>3. Is(g, m + 1)
    <3> DEFINE h == [i \in 0..(m + 1) |-> Step(g, i)]
    <3>1. \A i \in 0..(m + 1) : g[i] = h[i]
      BY <2>2
    <3> QED BY <3>1
  <2> HIDE DEF Is, g
  <2> QED BY <2>3
<1>4. Nat \subseteq S
  <2> HIDE DEF S
  <2> QED BY <1>2, <1>3, SetInduction
<1>5. PICK f : Is(f, Len(buf))
  BY <1>4
<1> DEFINE k == CHOOSE f0 : Is(f0, Len(buf))
<1>6. Is(k, Len(buf))
  BY <1>5
<1>7. Scan(buf) = k[Len(buf)]
  BY DEF Scan
<1> HIDE DEF k
<1>8. \A i \in 0..Len(buf) : k[i] = Step(k, i)
  <2> HIDE DEF Step
  <2> QED BY <1>6
<1>9. k[0] = ScanStart
  <2>1. 0 \in 0..Len(buf)
    OBVIOUS
  <2> HIDE DEF Step
  <2> QED BY <1>8, <1>0, <2>1
<1>10. ASSUME NEW m \in Nat, m + 1 <= Len(buf) PROVE k[m + 1] = ScanStep(buf, k[m], m + 1)
  <2>1. m + 1 \in 0..Len(buf) /\ m + 1 # 0 /\ (m + 1) - 1 = m
    BY <1>10
  <2>2. k[m + 1] = Step(k, m + 1)
    <3> HIDE DEF Step
    <3> QED BY <1>8, <2>1
  <2>3. Step(k, m + 1) = ScanStep(buf, k[m], m + 1)
    <3> HIDE DEF Step
    <3> QED BY <1>0, <2>1
  <2> HIDE DEF Step
  <2> QED BY <2>2, <2>3
<1> QED BY <1>7, <1>9, <1>10

\* What the scan finds: the loop invariant of fromBackend, at the end of the loop.
LEMMA ScanFinds ==
  ASSUME NEW buf \in Seq(Bytes)
  PROVE  Scanned(buf, Len(buf), Scan(buf))
<1>1. PICK k : /\ k[0] = ScanStart /\ Scan(buf) = k[Len(buf)]
               /\ \A m \in Nat : m + 1 <= Len(buf) => k[m + 1] = ScanStep(buf, k[m], m + 1)
  <2>1. Len(buf) \in Nat
    OBVIOUS
  <2> QED BY <2>1, ScanDef
<1> DEFINE S == {m \in Nat : m <= Len(buf) => Scanned(buf, m, k[m])}
<1>2. 0 \in S
  <2>1. FlattenSeq(<<>>) = <<>>
    BY DEF FlattenSeq
  <2>2. SubSeq(buf, 1, 0) = <<>> /\ <<>> \in Seq(Seq(Bytes)) /\ Len(<<>>) = 0
    OBVIOUS
  <2>3. /\ ScanStart.lines = <<>> /\ ScanStart.respLen = 0
        /\ ScanStart.exited = FALSE /\ ScanStart.rem = 0
    BY DEF ScanStart
  <2>4. Scanned(buf, 0, ScanStart)
    <3> DEFINE z == ScanStart
    <3>1. z.exited \in BOOLEAN /\ z.lines \in Seq(Seq(Bytes)) /\ z.respLen \in 0..0 /\ z.rem \in Nat
      BY <2>2 DEF ScanStart
    <3>2. FlattenSeq(z.lines) = SubSeq(buf, 1, z.respLen)
      BY <2>1, <2>2, <2>3
    <3>3. WholeLines(z.lines, z.exited)
      BY <2>2, <2>3 DEF WholeLines
    <3>4. \A p \in (z.respLen + 1)..0 : FALSE
      BY <2>3
    <3> QED BY <3>1, <3>2, <3>3, <3>4 DEF Scanned
  <2> QED BY <1>1, <2>4
<1>3. ASSUME NEW m \in Nat, m \in S PROVE m + 1 \in S
  <2> SUFFICES ASSUME m + 1 <= Len(buf) PROVE Scanned(buf, m + 1, k[m + 1])
    OBVIOUS
  <2> DEFINE a == k[m]
  <2>1. Scanned(buf, m, a) /\ k[m + 1] = ScanStep(buf, a, m + 1)
    BY <1>1, <1>3
  <2> HIDE DEF a
  <2>2. CASE a.exited \/ buf[m + 1].c # "\n"
    <3>1. k[m + 1] = a
      BY <2>1, <2>2 DEF ScanStep
    <3>2. ASSUME ~a.exited, NEW p \in (a.respLen + 1)..(m + 1) PROVE buf[p].c # "\n"
      BY <2>1, <2>2, <3>2 DEF Scanned
    <3> QED BY <2>1, <3>1, <3>2 DEF Scanned
  <2>3. CASE ~a.exited /\ buf[m + 1].c = "\n"
    <3> DEFINE r == a.respLen
               line == SubSeq(buf, r + 1, m + 1)
               ls == Append(a.lines, line)
               b == k[m + 1]
    <3>1. /\ b = [lines |-> ls, respLen |-> m + 1, exited |-> IsExit(line),
                  rem |-> IF IsExit(line) THEN Len(buf) - (m + 1) ELSE 0]
      BY <2>1, <2>3 DEF ScanStep
    <3>2. /\ a.lines \in Seq(Seq(Bytes)) /\ r \in 0..m /\ ~a.exited
          /\ FlattenSeq(a.lines) = SubSeq(buf, 1, r)
          /\ WholeLines(a.lines, FALSE)
          /\ \A p \in (r + 1)..m : buf[p].c # "\n"
      BY <2>1, <2>3 DEF Scanned
    <3> HIDE DEF r
    <3>3. /\ line \in Seq(Bytes) /\ Len(line) = m + 1 - r
          /\ \A p \in 1..(m + 1 - r) : line[p] = buf[r + p]
      BY <3>2
    <3>4. Newlines(line) = {Len(line)}
      <4>1. \A p \in 1..(m + 1 - r) : line[p].c = "\n" <=> p = m + 1 - r
        <5> SUFFICES ASSUME NEW p \in 1..(m + 1 - r) PROVE line[p].c = "\n" <=> p = m + 1 - r
          OBVIOUS
        <5>1. p # m + 1 - r => r + p \in (r + 1)..m
          BY <3>2
        <5>2. p = m + 1 - r => r + p = m + 1
          BY <3>2
        <5>3. line[p] = buf[r + p]
          BY <3>3
        <5> HIDE DEF line
        <5> QED BY <2>3, <3>2, <5>1, <5>2, <5>3
      <4>2. DOMAIN line = 1..(m + 1 - r) /\ m + 1 - r \in 1..(m + 1 - r)
        <5> HIDE DEF line
        <5> QED BY <3>2, <3>3
      <4> HIDE DEF line
      <4> QED BY <3>3, <4>1, <4>2 DEF Newlines
    <3>5. FlattenSeq(ls) = SubSeq(buf, 1, m + 1)
      <4>1. FlattenSeq(ls) = FlattenSeq(a.lines) \o line
        <5> HIDE DEF line
        <5> QED BY <3>2, <3>3, FlattenAppend
      <4>2. SubSeq(buf, 1, r) \o SubSeq(buf, r + 1, m + 1) = SubSeq(buf, 1, m + 1)
        BY <3>2
      <4> QED BY <3>2, <4>1, <4>2
    <3> HIDE DEF line
    <3>6. /\ ls \in Seq(Seq(Bytes)) /\ Len(ls) = Len(a.lines) + 1 /\ ls[Len(a.lines) + 1] = line
          /\ \A j \in 1..Len(a.lines) : ls[j] = a.lines[j]
      BY <3>2, <3>3, AppendLine
    <3> HIDE DEF ls
    <3>7. WholeLines(ls, IsExit(line))
      <4>1. Len(a.lines) \in Nat
        BY <3>2
      <4>2. \A j \in 1..Len(ls) : j = Len(ls) \/ j \in 1..Len(a.lines)
        BY <3>6, <4>1
      <4>3. \A j \in 1..Len(a.lines) : j # Len(ls)
        BY <3>6, <4>1
      <4>4. ls # <<>>
        BY <3>6, <4>1
      <4> QED BY <3>2, <3>4, <3>6, <4>2, <4>3, <4>4 DEF WholeLines
    <3>8. m + 1 \in 0..(m + 1) /\ Len(buf) - (m + 1) \in Nat
      OBVIOUS
    <3>9. IsExit(line) \in BOOLEAN
      BY DEF IsExit
    <3>10. \A p \in ((m + 1) + 1)..(m + 1) : FALSE
      OBVIOUS
    <3>11. /\ b.lines = ls /\ b.respLen = m + 1 /\ b.exited = IsExit(line)
           /\ b.rem \in Nat
      BY <3>1, <3>8
    <3> HIDE DEF b
    <3>12. Scanned(buf, m + 1, b)
      BY <3>5, <3>6, <3>7, <3>8, <3>9, <3>10, <3>11 DEF Scanned
    <3> QED BY <3>12 DEF b
  <2>4. a.exited \in BOOLEAN
    BY <2>1 DEF Scanned
  <2> QED BY <2>2, <2>3, <2>4
<1>4. Nat \subseteq S
  <2> HIDE DEF S
  <2> QED BY <1>2, <1>3, SetInduction
<1>5. Len(buf) \in S
  <2>1. Len(buf) \in Nat
    OBVIOUS
  <2> HIDE DEF S
  <2> QED BY <1>4, <2>1
<1> QED BY <1>1, <1>5

-----------------------------------------------------------------------------
(* fromBackend.                                                            *)

\* What fromBackend makes of a read: whole lines, and unless one was %exit all of the
\* bytes are in them or kept.
Split(data, r) ==
  /\ r.lines \in Seq(Seq(Bytes)) /\ r.buffer \in Seq(Bytes)
  /\ r.exited \in BOOLEAN /\ r.rc \in Nat
  /\ WholeLines(r.lines, r.exited)
  /\ Newlines(r.buffer) = {}
  /\ ~r.exited => FlattenSeq(r.lines) \o r.buffer = buffer \o data

\* A sequence of one line, and the first of several.
LEMMA OneLine ==
  ASSUME NEW T, NEW e \in Seq(T)
  PROVE  /\ <<e>> \in Seq(Seq(T)) /\ Len(<<e>>) = 1 /\ <<e>>[1] = e
         /\ FlattenSeq(<<e>>) = e
<1>1. /\ <<>> \in Seq(Seq(T)) /\ Append(<<>>, e) = <<e>> /\ <<>> \o e = e
      /\ <<e>> \in Seq(Seq(T)) /\ Len(<<e>>) = 1 /\ <<e>>[1] = e
  OBVIOUS
<1>2. FlattenSeq(<<>>) = <<>>
  BY DEF FlattenSeq
<1>3. FlattenSeq(Append(<<>>, e)) = FlattenSeq(<<>>) \o e
  BY <1>1, FlattenAppend
<1> QED BY <1>1, <1>2, <1>3

\* Lines before which other lines are put that are not %exit.
LEMMA WholeLinesConcat ==
  ASSUME NEW a \in Seq(Seq(Bytes)), NEW b \in Seq(Seq(Bytes)), NEW x \in BOOLEAN,
         WholeLines(a, FALSE), WholeLines(b, x)
  PROVE  a \o b \in Seq(Seq(Bytes)) /\ WholeLines(a \o b, x)
<1> DEFINE c == a \o b
<1>1. /\ c \in Seq(Seq(Bytes)) /\ Len(c) = Len(a) + Len(b) /\ Len(a) \in Nat /\ Len(b) \in Nat
      /\ \A j \in 1..Len(a) : c[j] = a[j]
      /\ \A j \in 1..Len(b) : c[Len(a) + j] = b[j]
      /\ b # <<>> => c # <<>> /\ Len(b) # 0
  OBVIOUS
<1> HIDE DEF c
<1>2. ASSUME NEW j \in 1..Len(c)
      PROVE  Newlines(c[j]) = {Len(c[j])} /\ (IsExit(c[j]) <=> j = Len(c) /\ x)
  <2>1. CASE j <= Len(a)
    <3>1. j \in 1..Len(a) /\ c[j] = a[j]
      BY <1>1, <2>1
    <3>2. x => j # Len(c)
      BY <1>1, <3>1 DEF WholeLines
    <3> QED BY <3>1, <3>2 DEF WholeLines
  <2>2. CASE j > Len(a)
    <3> DEFINE i == j - Len(a)
    <3>1. i \in 1..Len(b) /\ Len(a) + i = j /\ (j = Len(c) <=> i = Len(b))
      BY <1>1, <2>2
    <3> HIDE DEF i
    <3>2. c[j] = b[i]
      BY <1>1, <3>1
    <3> QED BY <3>1, <3>2 DEF WholeLines
  <2> QED BY <1>1, <2>1, <2>2
<1>3. x => c # <<>>
  BY <1>1 DEF WholeLines
<1> QED BY <1>1, <1>2, <1>3 DEF WholeLines, c

LEMMA FromBackendSplits ==
  ASSUME NEW data \in Seq(Bytes), buffer \in Seq(Bytes), Newlines(buffer) = {}
  PROVE  Split(data, FromBackend(data))
<1> DEFINE r == FromBackend(data)
<1>0. FlattenSeq(<<>>) = <<>> /\ <<>> \in Seq(Seq(Bytes)) /\ Len(<<>>) = 0
  BY DEF FlattenSeq
<1>1. CASE Newlines(data) = {}
  <2>1. r = [lines |-> <<>>, buffer |-> buffer \o data, exited |-> FALSE, rc |-> Len(data)]
    BY <1>1 DEF FromBackend
  <2>2. buffer \o data \in Seq(Bytes) /\ Len(data) \in Nat
    OBVIOUS
  <2>3. Newlines(buffer \o data) = {}
    <3> SUFFICES ASSUME NEW i \in 1..(Len(buffer) + Len(data)) PROVE (buffer \o data)[i].c # "\n"
      BY DEF Newlines
    <3>1. CASE i <= Len(buffer)
      <4>1. i \in DOMAIN buffer /\ (buffer \o data)[i] = buffer[i]
        BY <3>1
      <4>2. buffer[i].c # "\n"
        BY <4>1 DEF Newlines
      <4> QED BY <4>1, <4>2
    <3>2. CASE i > Len(buffer)
      <4> DEFINE j == i - Len(buffer)
      <4>1. j \in DOMAIN data /\ (buffer \o data)[i] = data[j]
        BY <3>2
      <4> HIDE DEF j
      <4>2. data[j].c # "\n"
        BY <1>1, <4>1 DEF Newlines
      <4> QED BY <4>1, <4>2
    <3> QED BY <3>1, <3>2
  <2>4. <<>> \o (buffer \o data) = buffer \o data
    OBVIOUS
  <2>5. /\ r.lines = <<>> /\ r.buffer = buffer \o data /\ ~r.exited /\ r.exited \in BOOLEAN
        /\ r.rc = Len(data)
    BY <2>1
  <2> HIDE DEF r
  <2>6. WholeLines(r.lines, r.exited)
    BY <1>0, <2>5 DEF WholeLines
  <2>7. Split(data, r)
    BY <1>0, <2>2, <2>3, <2>4, <2>5, <2>6 DEF Split
  <2> QED BY <2>7 DEF r
<1>2. CASE Newlines(data) # {}
  <2> DEFINE n == Min(Newlines(data))
             first == buffer \o SubSeq(data, 1, n)
             rest == SubSeq(data, n + 1, Len(data))
             scan == Scan(rest)
  <2>1. n \in 1..Len(data) /\ data[n].c = "\n" /\ \A i \in 1..Len(data) : data[i].c = "\n" => n <= i
    <3>1. Newlines(data) \subseteq Nat
      BY DEF Newlines
    <3>2. n \in Newlines(data) /\ \A i \in Newlines(data) : n <= i
      BY <1>2, <3>1, MinIsLeast
    <3> HIDE DEF n
    <3> QED BY <3>2 DEF Newlines
  <2>2. r = IF IsExit(first)
            THEN [lines |-> <<first>>, buffer |-> <<>>, exited |-> TRUE, rc |-> Len(rest)]
            ELSE [lines |-> <<first>> \o scan.lines, buffer |-> Pending(rest, scan),
                  exited |-> scan.exited, rc |-> scan.rem]
    BY <1>2 DEF FromBackend
  <2> HIDE DEF n
  <2>3. /\ first \in Seq(Bytes) /\ Len(first) = Len(buffer) + n
        /\ \A i \in 1..Len(buffer) : first[i] = buffer[i]
        /\ \A i \in 1..n : first[Len(buffer) + i] = data[i]
    BY <2>1
  <2>4. rest \in Seq(Bytes) /\ Len(rest) = Len(data) - n /\ Len(rest) \in Nat
    BY <2>1
  <2>5. first \o rest = buffer \o data
    <3>1. SubSeq(data, 1, n) \o SubSeq(data, n + 1, Len(data)) = data
      <4>1. n \in 0..Len(data)
        BY <2>1
      <4> QED BY <4>1, Halves
    <3> DEFINE s == SubSeq(data, 1, n)
               t == SubSeq(data, n + 1, Len(data))
    <3>2. s \in Seq(Bytes) /\ t \in Seq(Bytes)
      BY <2>1
    <3> HIDE DEF s, t
    <3>3. (buffer \o s) \o t = buffer \o (s \o t)
      BY <3>2
    <3> QED BY <3>1, <3>3 DEF s, t
  <2> HIDE DEF first, rest
  <2>6. Newlines(first) = {Len(first)}
    <3>1. ASSUME NEW i \in DOMAIN first PROVE first[i].c = "\n" <=> i = Len(first)
      <4>0. i \in 1..Len(first) /\ Len(buffer) \in Nat
        BY <2>3
      <4>1. CASE i <= Len(buffer)
        <5>1. i \in DOMAIN buffer /\ first[i] = buffer[i] /\ i # Len(first)
          BY <2>1, <2>3, <4>0, <4>1
        <5>2. buffer[i].c # "\n"
          BY <5>1 DEF Newlines
        <5> QED BY <5>1, <5>2
      <4>2. CASE i > Len(buffer)
        <5> DEFINE j == i - Len(buffer)
        <5>1. j \in 1..n /\ Len(buffer) + j = i /\ (i = Len(first) <=> j = n) /\ j \in 1..Len(data)
          <6>1. Len(first) = Len(buffer) + n /\ n \in 1..Len(data) /\ Len(data) \in Nat
            BY <2>1, <2>3
          <6> QED BY <4>0, <4>2, <6>1
        <5> HIDE DEF j
        <5>2. first[i] = data[j]
          BY <2>3, <5>1
        <5>3. data[j].c = "\n" => n <= j
          BY <2>1, <5>1
        <5>4. data[j].c = "\n" <=> j = n
          BY <2>1, <5>1, <5>3
        <5> QED BY <5>1, <5>2, <5>4
      <4> QED BY <4>0, <4>1, <4>2
    <3>2. Len(first) \in DOMAIN first
      BY <2>1, <2>3
    <3> QED BY <3>1, <3>2 DEF Newlines
  <2>7. /\ <<first>> \in Seq(Seq(Bytes)) /\ Len(<<first>>) = 1 /\ <<first>>[1] = first
        /\ FlattenSeq(<<first>>) = first
    BY <2>3, OneLine
  <2>8. IsExit(first) \in BOOLEAN
    BY DEF IsExit
  <2>9. WholeLines(<<first>>, IsExit(first))
    <3> DEFINE l == <<first>>
    <3>1. l # <<>>
      OBVIOUS
    <3> HIDE DEF l
    <3>2. l[1] = first /\ \A j \in 1..Len(l) : j = 1 /\ j = Len(l)
      BY <2>7 DEF l
    <3>3. WholeLines(l, IsExit(first))
      BY <2>6, <3>1, <3>2 DEF WholeLines
    <3> QED BY <3>3 DEF l
  <2>10. CASE IsExit(first)
    <3>1. /\ r.lines = <<first>> /\ r.buffer = <<>> /\ r.exited /\ r.exited \in BOOLEAN
          /\ r.rc = Len(rest)
      BY <2>2, <2>10
    <3>2. <<>> \in Seq(Bytes) /\ Newlines(<<>>) = {}
      BY DEF Newlines
    <3> HIDE DEF r
    <3>3. WholeLines(r.lines, r.exited)
      BY <2>9, <2>10, <3>1 DEF WholeLines
    <3>4. Split(data, r)
      BY <2>4, <2>7, <3>1, <3>2, <3>3 DEF Split
    <3> QED BY <3>4 DEF r
  <2>11. CASE ~IsExit(first)
    <3>1. /\ r.lines = <<first>> \o scan.lines /\ r.buffer = Pending(rest, scan)
          /\ r.exited = scan.exited /\ r.rc = scan.rem
      BY <2>2, <2>11
    <3>2. Scanned(rest, Len(rest), scan)
      BY <2>4, ScanFinds
    <3> HIDE DEF r, scan
    <3>3. /\ scan.lines \in Seq(Seq(Bytes)) /\ scan.respLen \in 0..Len(rest)
          /\ scan.exited \in BOOLEAN /\ scan.rem \in Nat
          /\ FlattenSeq(scan.lines) = SubSeq(rest, 1, scan.respLen)
          /\ WholeLines(scan.lines, scan.exited)
          /\ ~scan.exited => \A p \in (scan.respLen + 1)..Len(rest) : rest[p].c # "\n"
      BY <3>2 DEF Scanned
    <3>4. WholeLines(<<first>>, FALSE)
      BY <2>9, <2>11 DEF WholeLines
    <3>5. r.lines \in Seq(Seq(Bytes)) /\ WholeLines(r.lines, r.exited)
      BY <2>7, <3>1, <3>3, <3>4, WholeLinesConcat
    <3>6. FlattenSeq(r.lines) = first \o FlattenSeq(scan.lines)
      <4> DEFINE a == <<first>>  b == scan.lines
      <4>1. a \in Seq(Seq(Bytes)) /\ b \in Seq(Seq(Bytes))
        BY <2>7, <3>3
      <4> HIDE DEF a, b
      <4>2. FlattenSeq(a \o b) = FlattenSeq(a) \o FlattenSeq(b)
        BY <4>1, FlattenConcat
      <4> QED BY <2>7, <3>1, <4>2 DEF a, b
    <3> DEFINE l == scan.respLen
               keep == SubSeq(rest, l + 1, Len(rest))
    <3>7. ~scan.exited => Pending(rest, scan) = keep
      BY DEF Pending
    <3>8. scan.exited => Pending(rest, scan) = <<>>
      BY DEF Pending
    <3>9. l \in 0..Len(rest)
      BY <3>3
    <3> HIDE DEF l
    <3>10. /\ keep \in Seq(Bytes) /\ Len(keep) = Len(rest) - l /\ DOMAIN keep = 1..(Len(rest) - l)
           /\ \A i \in 1..(Len(rest) - l) : keep[i] = rest[l + i]
      BY <2>4, <3>9
    <3>11. SubSeq(rest, 1, l) \o keep = rest
      BY <2>4, <3>9, Halves
    <3>12. SubSeq(rest, 1, l) \in Seq(Bytes)
      BY <2>4, <3>9
    <3> HIDE DEF keep
    <3>13. ~scan.exited => Newlines(keep) = {}
      <4> SUFFICES ASSUME ~scan.exited, NEW i \in DOMAIN keep PROVE keep[i].c # "\n"
        BY DEF Newlines
      <4>1. i \in 1..(Len(rest) - l) /\ l + i \in (l + 1)..Len(rest)
        BY <2>4, <3>9, <3>10
      <4> QED BY <3>3, <3>10, <4>1 DEF l
    <3>14. <<>> \in Seq(Bytes) /\ Newlines(<<>>) = {}
      BY DEF Newlines
    <3>15. r.buffer \in Seq(Bytes) /\ Newlines(r.buffer) = {}
      BY <3>1, <3>7, <3>8, <3>10, <3>13, <3>14
    <3>16. ~scan.exited => FlattenSeq(r.lines) \o r.buffer = buffer \o data
      <4> DEFINE s == SubSeq(rest, 1, l)
      <4>1. FlattenSeq(scan.lines) = s /\ s \in Seq(Bytes) /\ s \o keep = rest
        BY <3>3, <3>11, <3>12 DEF l
      <4> HIDE DEF s
      <4>2. (first \o s) \o keep = first \o (s \o keep)
        <5>1. first \in Seq(Bytes) /\ s \in Seq(Bytes) /\ keep \in Seq(Bytes)
          BY <2>3, <3>10, <4>1
        <5> QED BY <5>1, Assoc
      <4> QED BY <2>5, <3>1, <3>6, <3>7, <4>1, <4>2
    <3>17. Split(data, r)
      BY <3>1, <3>3, <3>5, <3>15, <3>16 DEF Split
    <3> QED BY <3>17 DEF r
  <2> QED BY <2>10, <2>11
<1> QED BY <1>1, <1>2

-----------------------------------------------------------------------------
(* The invariant.                                                          *)

LEMMA StreamInit == Init => StreamInv
<1> SUFFICES ASSUME Init PROVE StreamInv
  OBVIOUS
<1>1. input \in Seq(Bytes)
  <2>1. PICK n \in 0..MaxBytes : \E s \in [1..n -> Letters] : input = Numbered(s)
    BY DEF Init
  <2>2. PICK s \in [1..n -> Letters] : input = Numbered(s)
    BY <2>1
  <2>3. n \in Nat /\ input = [i \in 1..n |-> [c |-> s[i], at |-> i]]
    BY <2>2, StreamAssumption DEF Numbered
  <2>4. \A i \in 1..n : [c |-> s[i], at |-> i] \in Bytes
    BY <2>2, StreamAssumption DEF Bytes
  <2> QED BY <2>3, <2>4
<1>2. /\ pos = 0 /\ buffer = <<>> /\ parsed = <<>>
      /\ mode = "GATEWAY" /\ echoed = <<>> /\ shown = <<>>
  BY DEF Init
<1>3. Newlines(<<>>) = {} /\ SubSeq(input, 1, 0) = <<>> /\ Len(<<>>) = 0
  BY <1>1 DEF Newlines
<1>4. FlattenSeq(<<>>) = <<>> /\ <<>> \o <<>> = <<>>
  BY DEF FlattenSeq
<1>5. TypeOK
  BY <1>1, <1>2, <1>3 DEF TypeOK
<1>6. LinesAreWhole
  <2>1. \A i \in DOMAIN parsed : FALSE
    BY <1>2
  <2> QED BY <1>2, <1>3, <1>4, <1>5, <2>1 DEF LinesAreWhole, ParsedBytes
<1>7. ExitIsLast
  BY <1>2 DEF ExitIsLast
<1> QED BY <1>2, <1>3, <1>6, <1>7 DEF StreamInv

\* A read of n bytes moves the end of what was read, and puts it at the end.
LEMMA ReadData ==
  ASSUME NEW inp \in Seq(Bytes), NEW p \in 0..Len(inp), NEW n \in Nat, n > 0, p + n <= Len(inp)
  PROVE  LET data == SubSeq(inp, p + 1, p + n) IN
         /\ data \in Seq(Bytes) /\ Len(data) = n /\ p + n \in 0..Len(inp)
         /\ SubSeq(inp, 1, p) \o data = SubSeq(inp, 1, p + n)
<1> DEFINE data == SubSeq(inp, p + 1, p + n)
<1>1. data \in Seq(Bytes) /\ Len(data) = n /\ p + n \in 0..Len(inp)
  OBVIOUS
<1>2. SubSeq(inp, 1, p) \o data = SubSeq(inp, 1, p + n)
  <2>1. 1 \in 1..Len(inp) + 1 /\ p \in 1 - 1..Len(inp) /\ p + n \in p..Len(inp)
    OBVIOUS
  <2> QED BY <2>1, ConcatAdjacentSubSeq
<1> QED BY <1>1, <1>2

\* One step of any kind keeps the invariant: a read in control mode, by what
\* fromBackend makes of it, and a read after it.
LEMMA StreamStep == StreamInv /\ [Next]_vars => StreamInv'
<1> SUFFICES ASSUME StreamInv, [Next]_vars PROVE StreamInv'
  OBVIOUS
<1>1. /\ TypeOK /\ ExitIsLast
      /\ \A i \in DOMAIN parsed : Newlines(parsed[i]) = {Len(parsed[i])}
      /\ mode = "GATEWAY" =>
           ParsedBytes \o buffer = SubSeq(input, 1, pos) /\ Len(echoed) = pos /\ shown = <<>>
  BY DEF StreamInv, LinesAreWhole
<1>2. CASE UNCHANGED vars
  BY <1>2 DEF StreamInv, LinesAreWhole, ExitIsLast, TypeOK, ParsedBytes, vars
<1>3. ASSUME NEW n \in 1..MaxBytes, Read(n) PROVE StreamInv'
  <2> DEFINE data == SubSeq(input, pos + 1, pos + n)
             r == FromBackend(data)
  <2>1. /\ n \in Nat /\ n > 0 /\ pos + n <= Len(input) /\ pos' = pos + n /\ input' = input
        /\ input \in Seq(Bytes) /\ pos \in 0..Len(input)
    <3>1. n \in Nat
      BY StreamAssumption
    <3>2. n > 0 /\ pos + n <= Len(input) /\ pos' = pos + n /\ input' = input
      BY <1>3 DEF Read
    <3>3. input \in Seq(Bytes) /\ pos \in 0..Len(input)
      BY <1>1 DEF TypeOK
    <3> QED BY <3>1, <3>2, <3>3
  <2>2. /\ data \in Seq(Bytes) /\ Len(data) = n /\ pos' \in 0..Len(input)
        /\ SubSeq(input, 1, pos) \o data = SubSeq(input, 1, pos')
    BY <2>1, ReadData
  <2>3. /\ echoed' = IF mode = "GATEWAY" THEN echoed \o data ELSE echoed
        /\ IF mode = "GATEWAY"
           THEN /\ parsed' = parsed \o r.lines
                /\ buffer' = r.buffer
                /\ IF ~r.exited
                   THEN mode' = mode /\ shown' = shown
                   ELSE IF r.rc > 0 /\ r.rc < n
                   THEN mode' = "NONE" /\ shown' = SubSeq(data, r.rc + 1, n)
                   ELSE mode' = "DETACH_INIT" /\ shown' = data
           ELSE shown' = shown \o data /\ parsed' = parsed /\ buffer' = buffer /\ mode' = mode
    BY <1>3 DEF Read
  <2>4. Split(data, r)
    <3> HIDE DEF data
    <3> QED BY <1>1, <2>2, FromBackendSplits DEF TypeOK
  <2> HIDE DEF r
  <2>5. /\ buffer \in Seq(Bytes) /\ echoed \in Seq(Bytes) /\ shown \in Seq(Bytes)
        /\ parsed \in Seq(Seq(Bytes)) /\ Newlines(buffer) = {}
        /\ Len(shown) <= pos /\ shown = SubSeq(input, pos - Len(shown) + 1, pos)
        /\ mode \in {"GATEWAY", "DETACH_INIT", "NONE"}
    BY <1>1, Zenon DEF TypeOK
  <2>6. echoed \in Seq(Bytes) /\ Len(echoed) \in Int /\ DOMAIN parsed = 1..Len(parsed)
    <3>1. echoed \in Seq(Bytes) /\ parsed \in Seq(Seq(Bytes))
      BY <2>5
    <3> QED BY <3>1
  <2>7. /\ Len(echoed') <= pos' /\ echoed' = SubSeq(input, 1, Len(echoed'))
        /\ mode = "GATEWAY" => Len(echoed') = pos'
    <3>1. CASE mode = "GATEWAY"
      <4>1. echoed = SubSeq(input, 1, pos)
        BY <1>1, <3>1 DEF TypeOK
      <4>2. echoed' = SubSeq(input, 1, pos')
        BY <2>2, <2>3, <3>1, <4>1
      <4>3. Len(SubSeq(input, 1, pos')) = pos'
        BY <2>1, <2>2
      <4> QED BY <2>1, <4>2, <4>3
    <3>2. CASE mode # "GATEWAY"
      <4>1. echoed' = echoed /\ Len(echoed) <= pos /\ echoed = SubSeq(input, 1, Len(echoed))
        BY <1>1, <2>3, <3>2 DEF TypeOK
      <4>2. Len(echoed) <= pos'
        BY <2>1, <2>6, <4>1
      <4> QED BY <3>2, <4>1, <4>2, Zenon
    <3> QED BY <3>1, <3>2
  <2>8. \A i \in DOMAIN parsed : IsExit(parsed[i]) <=> i = Len(parsed) /\ mode # "GATEWAY"
    BY <1>1 DEF ExitIsLast
  <2>9. CASE mode = "GATEWAY"
    <3>1. /\ r.lines \in Seq(Seq(Bytes)) /\ r.buffer \in Seq(Bytes)
          /\ r.exited \in BOOLEAN /\ r.rc \in Nat
          /\ WholeLines(r.lines, r.exited) /\ Newlines(r.buffer) = {}
          /\ ~r.exited => FlattenSeq(r.lines) \o r.buffer = buffer \o data
      BY <2>4 DEF Split
    <3>2. WholeLines(parsed, FALSE)
      BY <1>1, <2>8, <2>6, <2>9 DEF WholeLines
    <3>3. parsed' \in Seq(Seq(Bytes)) /\ WholeLines(parsed', r.exited)
      <4>1. parsed \o r.lines \in Seq(Seq(Bytes)) /\ WholeLines(parsed \o r.lines, r.exited)
        BY <2>5, <3>1, <3>2, WholeLinesConcat
      <4> QED BY <2>3, <2>9, <4>1
    <3>4. mode' = "GATEWAY" <=> ~r.exited
      BY <2>3, <2>9
    <3>5. mode' \in {"GATEWAY", "DETACH_INIT", "NONE"} /\ buffer' = r.buffer
      BY <2>3, <2>9
    <3>6. /\ shown' \in Seq(Bytes) /\ Len(shown') <= pos'
          /\ shown' = SubSeq(input, pos' - Len(shown') + 1, pos')
          /\ ~r.exited => shown' = <<>>
      <4>1. CASE ~r.exited
        <5>1. shown' = <<>> /\ Len(<<>>) = 0
          BY <1>1, <2>3, <2>9, <4>1
        <5>2. SubSeq(input, pos' + 1, pos') = <<>>
          BY <2>1
        <5>3. pos' - 0 + 1 = pos' + 1 /\ 0 <= pos' /\ <<>> \in Seq(Bytes)
          BY <2>1
        <5> QED BY <5>1, <5>2, <5>3
      <4>2. CASE r.exited /\ r.rc > 0 /\ r.rc < n
        <5>1. shown' = SubSeq(data, r.rc + 1, n)
          BY <2>3, <2>9, <4>2
        <5> DEFINE q == r.rc
        <5>2. q \in 1..(n - 1)
          BY <2>1, <3>1, <4>2
        <5> HIDE DEF q
        <5>3. /\ SubSeq(data, q + 1, n) = SubSeq(input, pos + q + 1, pos + n)
              /\ Len(SubSeq(data, q + 1, n)) = n - q
              /\ SubSeq(data, q + 1, n) \in Seq(Bytes)
          BY <2>1, <5>2
        <5>4. pos' - (n - q) + 1 = pos + q + 1 /\ n - q <= pos'
          BY <2>1, <5>2
        <5> QED BY <2>1, <4>2, <5>1, <5>3, <5>4 DEF q
      <4>3. CASE r.exited /\ ~(r.rc > 0 /\ r.rc < n)
        <5>1. shown' = data
          BY <2>3, <2>9, <4>3
        <5>2. pos' - n + 1 = pos + 1 /\ n <= pos'
          BY <2>1
        <5> QED BY <2>1, <2>2, <4>3, <5>1, <5>2
      <4> QED BY <3>1, <4>1, <4>2, <4>3
    <3>7. echoed' \in Seq(Bytes)
      BY <2>2, <2>3, <2>5, <2>9
    <3>8. TypeOK'
      BY <2>1, <2>2, <2>7, <3>1, <3>3, <3>5, <3>6, <3>7 DEF TypeOK
    <3>9. ~r.exited => FlattenSeq(parsed') \o buffer' = SubSeq(input, 1, pos')
      <4> SUFFICES ASSUME ~r.exited PROVE FlattenSeq(parsed') \o buffer' = SubSeq(input, 1, pos')
        OBVIOUS
      <4> DEFINE f == FlattenSeq(parsed)
                 g == FlattenSeq(r.lines)
                 keep == r.buffer
      <4>0. <<>> \in Seq(Bytes)
        OBVIOUS
      <4>1. f \in Seq(Bytes) /\ g \in Seq(Bytes) /\ keep \in Seq(Bytes)
        BY <2>5, <3>1, <4>0, FlattenAppend
      <4>2. FlattenSeq(parsed') = f \o g /\ buffer' = keep
        <5>1. parsed' = parsed \o r.lines
          BY <2>3, <2>9
        <5>2. FlattenSeq(parsed \o r.lines) = f \o g
          BY <2>5, <3>1, FlattenConcat
        <5> QED BY <3>5, <5>1, <5>2
      <4>3. f \o buffer = SubSeq(input, 1, pos) /\ g \o keep = buffer \o data
        BY <1>1, <2>9, <3>1 DEF ParsedBytes
      <4> HIDE DEF f, g, keep, data
      <4>4. (f \o g) \o keep = f \o (g \o keep)
        BY <4>1, Assoc
      <4>5. (f \o buffer) \o data = f \o (buffer \o data)
        <5>1. data \in Seq(Bytes) /\ buffer \in Seq(Bytes) /\ f \in Seq(Bytes)
          BY <2>2, <2>5, <4>1
        <5> QED BY <5>1, Assoc
      <4> QED BY <2>2, <4>2, <4>3, <4>4, <4>5
    <3>10. DOMAIN parsed' = 1..Len(parsed')
      BY <3>3
    <3>11. LinesAreWhole'
      BY <2>1, <3>3, <3>4, <3>8, <3>9, <3>10 DEF LinesAreWhole, ParsedBytes, WholeLines
    <3>12. ExitIsLast'
      BY <3>1, <3>3, <3>4, <3>10 DEF ExitIsLast, WholeLines
    <3> QED BY <2>7, <2>9, <3>4, <3>6, <3>11, <3>12 DEF StreamInv
  <2>10. CASE mode # "GATEWAY"
    <3>1. /\ shown' = shown \o data /\ parsed' = parsed /\ buffer' = buffer /\ mode' = mode
          /\ echoed' = echoed
      BY <2>3, <2>10
    <3>2. /\ shown' \in Seq(Bytes) /\ Len(shown') <= pos'
          /\ shown' = SubSeq(input, pos' - Len(shown') + 1, pos')
      <4> DEFINE l == Len(shown)
      <4>1. l \in 0..pos /\ shown = SubSeq(input, pos - l + 1, pos)
        BY <2>1, <2>5
      <4>2. shown' = shown \o data /\ shown' \in Seq(Bytes) /\ Len(shown') = l + n
        BY <2>2, <2>5, <3>1
      <4> HIDE DEF l
      <4>3. SubSeq(input, pos - l + 1, pos) \o data = SubSeq(input, pos - l + 1, pos + n)
        <5>1. /\ pos - l + 1 \in 1..Len(input) + 1 /\ pos \in (pos - l + 1) - 1..Len(input)
              /\ pos + n \in pos..Len(input)
          BY <2>1, <4>1
        <5> QED BY <2>1, <5>1, ConcatAdjacentSubSeq
      <4>4. pos' - (l + n) + 1 = pos - l + 1 /\ l + n <= pos'
        BY <2>1, <4>1
      <4> QED BY <2>1, <4>1, <4>2, <4>3, <4>4
    <3>3. TypeOK'
      BY <2>1, <2>2, <2>7, <2>5, <3>1, <3>2 DEF TypeOK
    <3>4. LinesAreWhole' /\ ExitIsLast'
      BY <1>1, <2>8, <2>10, <3>1, <3>3 DEF LinesAreWhole, ExitIsLast
    <3> QED BY <2>10, <3>1, <3>4 DEF StreamInv
  <2> QED BY <2>9, <2>10
<1> QED BY <1>2, <1>3 DEF Next

-----------------------------------------------------------------------------
(* The theorems.                                                           *)

\* The lines parsed and the buffer are always what was read, %exit is the last line,
\* and while control mode lasts all that was read is echoed.
THEOREM StreamSafe == Spec => []StreamInv
BY StreamInit, StreamStep, PTL DEF Spec

\* However the bytes are cut into reads, fromBackend gives parseCommand the lines that
\* the server wrote, whole, once each and in order.
THEOREM LinesStayWhole == Spec => []LinesAreWhole
<1>1. StreamInv => LinesAreWhole
  BY DEF StreamInv
<1> QED BY <1>1, StreamSafe, PTL

\* Nothing is parsed after %exit, in whatever read it came.
THEOREM NothingAfterExit == Spec => []ExitIsLast
<1>1. StreamInv => ExitIsLast
  BY DEF StreamInv
<1> QED BY <1>1, StreamSafe, PTL
=============================================================================
