-------------------------- MODULE TmuxChannelProofs --------------------------
(***************************************************************************)
(* Proofs about TmuxChannel: the queue of TmuxGateway gives every answer   *)
(* to the command it answers, whatever the number of commands, lines and   *)
(* notifications.                                                          *)
(***************************************************************************)
EXTENDS TmuxChannel, SequenceTheorems, TLAPS

\* The ids of a burst of commands form a sequence of positive numbers.
LEMMA IdsProps ==
  ASSUME NEW m \in Nat, NEW b \in Nat
  PROVE  /\ Ids(m, b) \in Seq(Nat \ {0})
         /\ Len(Ids(m, b)) = b
         /\ \A i \in 1..b : Ids(m, b)[i] = m + i
  BY DEF Ids

\* The block of a command: a %begin, m numbered lines, an %end.
LEMMA BlockProps ==
  ASSUME NEW id \in Nat, NEW m \in Nat
  PROVE  /\ Block(id, m, "end") \in Seq(Line)
         /\ Len(Block(id, m, "end")) = m + 2
         /\ \A i \in 1..(m + 2) : Block(id, m, "end")[i] =
              [t |-> IF i = 1 THEN "begin" ELSE IF i = m + 2 THEN "end" ELSE "data",
               n |-> id,
               k |-> IF i = m + 2 THEN m ELSE i - 1]
  BY DEF Block, Line, Kinds

\* Taking the first line off the stream shifts the rest by one place.
LEMMA PopProps ==
  ASSUME NEW S, NEW s \in Seq(S), s # <<>>
  PROVE  /\ Len(s) \in Nat \ {0}
         /\ Head(s) = s[1]
         /\ s[1] \in S
         /\ Tail(s) \in Seq(S)
         /\ Len(Tail(s)) = Len(s) - 1
         /\ DOMAIN s = 1..Len(s)
         /\ DOMAIN Tail(s) = 1..(Len(s) - 1)
         /\ \A i \in 1..(Len(s) - 1) : Tail(s)[i] = s[i + 1]
  BY HeadTailProperties, EmptySeq, LenProperties

\* sendCommand keeps the queue and the wire numbered alike, and changes
\* neither what has begun nor what is answered.
LEMMA SendKeeps ==
  ASSUME TypeOK, QueueNumbered, WireNumbered, NEW b \in Nat, SendCommands(b)
  PROVE  /\ sent' \in Nat /\ sent' >= sent
         /\ cmdq' \in Seq(Nat \ {0})
         /\ toSrv' \in Seq(Nat \ {0})
         /\ Begun' = Begun /\ Begun \in Nat
         /\ Answered' = Answered /\ Answered \in Nat
         /\ QueueNumbered' /\ WireNumbered'
  <1> DEFINE new == Ids(sent, b)
  <1>1. /\ sent \in Nat /\ sent' = sent + b
        /\ cmdq \in Seq(Nat \ {0}) /\ toSrv \in Seq(Nat \ {0})
        /\ cmdq' = cmdq \o new /\ toSrv' = toSrv \o new
    BY DEF TypeOK, SendCommands
  <1>2. /\ new \in Seq(Nat \ {0}) /\ Len(new) = b
        /\ \A i \in 1..b : new[i] = sent + i
    BY <1>1, IdsProps
  <1> HIDE DEF new
  <1>3. /\ cmdq' \in Seq(Nat \ {0}) /\ Len(cmdq') = Len(cmdq) + b
        /\ \A i \in 1..(Len(cmdq) + b) :
              cmdq'[i] = IF i <= Len(cmdq) THEN cmdq[i] ELSE new[i - Len(cmdq)]
    BY <1>1, <1>2, ConcatProperties
  <1>4. /\ toSrv' \in Seq(Nat \ {0}) /\ Len(toSrv') = Len(toSrv) + b
        /\ \A i \in 1..(Len(toSrv) + b) :
              toSrv'[i] = IF i <= Len(toSrv) THEN toSrv[i] ELSE new[i - Len(toSrv)]
    BY <1>1, <1>2, ConcatProperties
  <1>5. /\ Len(cmdq) \in Nat /\ Len(cmdq) =< sent /\ DOMAIN cmdq = 1..Len(cmdq)
        /\ Len(toSrv) \in Nat /\ Len(toSrv) =< sent /\ DOMAIN toSrv = 1..Len(toSrv)
    BY <1>1, LenProperties DEF QueueNumbered, WireNumbered
  <1>6. /\ DOMAIN cmdq' = 1..(Len(cmdq) + b) /\ DOMAIN toSrv' = 1..(Len(toSrv) + b)
    BY <1>3, <1>4, LenProperties
  <1>7. /\ Begun' = Begun /\ Begun \in Nat /\ Answered' = Answered /\ Answered \in Nat
    BY <1>1, <1>3, <1>4, <1>5 DEF Begun, Answered
  <1>8. QueueNumbered'
    <2>1. ASSUME NEW i \in DOMAIN cmdq' PROVE cmdq'[i] = Begun' + i
      <3>1. CASE i <= Len(cmdq)
        BY <3>1, <1>3, <1>5, <1>6, <1>7 DEF QueueNumbered
      <3>2. CASE i > Len(cmdq)
        <4>1. /\ i - Len(cmdq) \in 1..b /\ cmdq'[i] = new[i - Len(cmdq)]
          BY <3>2, <1>3, <1>5, <1>6
        <4>2. cmdq'[i] = sent + (i - Len(cmdq))
          BY <4>1, <1>2
        <4>3. Begun = sent - Len(cmdq) BY DEF Begun
        <4>4. i \in Nat BY <1>5, <1>6
        <4> QED BY <4>2, <4>3, <4>4, <1>1, <1>5, <1>7
      <3> QED BY <3>1, <3>2, <1>5, <1>6
    <2>2. Len(cmdq') =< sent'
      BY <1>1, <1>3, <1>5
    <2> QED BY <2>1, <2>2 DEF QueueNumbered
  <1>9. WireNumbered'
    <2>1. ASSUME NEW i \in DOMAIN toSrv' PROVE toSrv'[i] = Answered' + i
      <3>1. CASE i <= Len(toSrv)
        BY <3>1, <1>4, <1>5, <1>6, <1>7 DEF WireNumbered
      <3>2. CASE i > Len(toSrv)
        <4>1. /\ i - Len(toSrv) \in 1..b /\ toSrv'[i] = new[i - Len(toSrv)]
          BY <3>2, <1>4, <1>5, <1>6
        <4>2. toSrv'[i] = sent + (i - Len(toSrv))
          BY <4>1, <1>2
        <4>3. Answered = sent - Len(toSrv) BY DEF Answered
        <4>4. i \in Nat BY <1>5, <1>6
        <4> QED BY <4>2, <4>3, <4>4, <1>1, <1>5, <1>7
      <3> QED BY <3>1, <3>2, <1>5, <1>6
    <2>2. Len(toSrv') =< sent'
      BY <1>1, <1>4, <1>5
    <2> QED BY <2>1, <2>2 DEF WireNumbered
  <1> QED BY <1>1, <1>3, <1>4, <1>7, <1>8, <1>9

\* Parsing the first line leaves a stream that follows the new parser state.
LEMMA PopKeeps ==
  ASSUME TypeOK, StreamFollows, stream # <<>>, stream' = Tail(stream),
         Begun' = stream[1].n,
         Len(stream) > 1 =>
            Unasked(2) \/ (cur' # 0 <=> stream[1].t \in {"begin", "data"}),
         cur' # 0 => Len(resp') = stream[1].k
  PROVE  StreamFollows'
  <1>1. stream \in Seq(Line)
    BY DEF TypeOK
  <1>2. /\ Len(stream) \in Nat \ {0} /\ DOMAIN stream = 1..Len(stream)
        /\ DOMAIN stream' = 1..(Len(stream) - 1)
        /\ \A i \in 1..(Len(stream) - 1) : stream'[i] = stream[i + 1]
    BY <1>1, PopProps
  <1>3. SUFFICES ASSUME NEW i \in DOMAIN stream'
                 PROVE  Unasked(i)' \/ LineFollows(i)'
    BY DEF StreamFollows
  <1>4. /\ i + 1 \in DOMAIN stream /\ stream'[i] = stream[i + 1] /\ i \in Nat /\ i + 1 # 1
        /\ (i + 1) - 1 = i
    BY <1>2
  <1>5. CASE Unasked(i + 1)
    BY <1>4, <1>5 DEF Unasked
  <1>6. CASE ~Unasked(i + 1)
    <2>1. LineFollows(i + 1)
      BY <1>4, <1>6 DEF StreamFollows
    <2>2. CASE i = 1
      <3>1. Len(stream) > 1
        BY <1>2, <2>2
      <3>2. cur' # 0 <=> stream[1].t \in {"begin", "data"}
        BY <3>1, <1>6, <2>2
      <3>3. /\ CountBefore(1)' = CountBefore(2) /\ OpenBefore(1)' = OpenBefore(2)
        BY <3>2 DEF CountBefore, OpenBefore
      <3>4. OpenBefore(2) => LinesBefore(1)' = LinesBefore(2)
        BY <3>2 DEF OpenBefore, LinesBefore
      <3> QED BY <2>1, <2>2, <3>3, <3>4, <1>4 DEF LineFollows
    <2>3. CASE i # 1
      <3>1. i - 1 \in 1..(Len(stream) - 1) /\ (i - 1) + 1 = i
        BY <1>2, <2>3
      <3>2. stream'[i - 1] = stream[i]
        BY <3>1, <1>2
      <3>3. /\ CountBefore(i)' = CountBefore(i + 1) /\ OpenBefore(i)' = OpenBefore(i + 1)
            /\ LinesBefore(i)' = LinesBefore(i + 1)
        BY <1>4, <2>3, <3>2 DEF CountBefore, OpenBefore, LinesBefore
      <3> QED BY <2>1, <3>3, <1>4 DEF LineFollows
    <2> QED BY <2>2, <2>3
  <1> QED BY <1>5, <1>6

\* Parsing a line leaves no line of the unasked block behind, unless the line
\* is the %begin of that block.
LEMMA PopUnasked ==
  ASSUME TypeOK, UnaskedFirst, stream # <<>>, stream' = Tail(stream),
         ~(Unasked(1) /\ stream[1].t = "begin")
  PROVE  \A i \in DOMAIN stream' : ~Unasked(i)'
  <1>1. stream \in Seq(Line)
    BY DEF TypeOK
  <1>2. /\ Len(stream) \in Nat \ {0} /\ DOMAIN stream = 1..Len(stream)
        /\ DOMAIN stream' = 1..(Len(stream) - 1)
        /\ \A i \in 1..(Len(stream) - 1) : stream'[i] = stream[i + 1]
    BY <1>1, PopProps
  <1>3. SUFFICES ASSUME NEW i \in DOMAIN stream', Unasked(i)' PROVE FALSE
    OBVIOUS
  <1>4. i + 1 \in DOMAIN stream /\ stream'[i] = stream[i + 1] /\ i + 1 # 1
    BY <1>2
  <1>5. Unasked(i + 1)
    BY <1>3, <1>4 DEF Unasked
  <1> QED BY <1>4, <1>5 DEF UnaskedFirst, Unasked

\* What the server appends follows what it wrote before.
LEMMA AppendKeeps ==
  ASSUME TypeOK, StreamFollows, UnaskedFirst, StreamEnds,
         NEW w \in Seq(Line), w # <<>>, stream' = stream \o w,
         UNCHANGED <<sent, cmdq, cur, resp>>,
         \/ w[1].t = "note" /\ w[1].n = Answered
         \/ w[1].t = "begin" /\ w[1].n = Answered + 1 /\ w[1].k = 0,
         \A j \in 1..Len(w) : w[j].t = "note" \/ w[j].n # 0,
         \A j \in 2..Len(w) :
            /\ w[j].t \in {"data", "end"} /\ w[j - 1].t \in {"begin", "data"}
            /\ w[j].n = w[j - 1].n
            /\ w[j].k = IF w[j].t = "data" THEN w[j - 1].k + 1 ELSE w[j - 1].k
  PROVE  StreamFollows' /\ UnaskedFirst'
  <1>1. /\ stream \in Seq(Line) /\ Len(stream) \in Nat /\ DOMAIN stream = 1..Len(stream)
        /\ Len(w) \in Nat \ {0}
    BY LenProperties, EmptySeq DEF TypeOK
  <1>2. /\ stream' \in Seq(Line) /\ Len(stream') = Len(stream) + Len(w)
        /\ \A i \in 1..(Len(stream) + Len(w)) :
             stream'[i] = IF i <= Len(stream) THEN stream[i] ELSE w[i - Len(stream)]
    BY <1>1, ConcatProperties
  <1>3. DOMAIN stream' = 1..(Len(stream) + Len(w))
    BY <1>2, LenProperties
  <1>4. \A i \in 1..Len(stream) : stream'[i] = stream[i] /\ (Unasked(i)' <=> Unasked(i))
    BY <1>1, <1>2 DEF Unasked
  <1>5. \A j \in 1..Len(w) : stream'[Len(stream) + j] = w[j]
    BY <1>1, <1>2
  <1>6. \A i \in DOMAIN stream' : i > Len(stream) => ~Unasked(i)'
    <2> SUFFICES ASSUME NEW i \in DOMAIN stream', i > Len(stream) PROVE ~Unasked(i)'
      OBVIOUS
    <2>1. PICK j \in 1..Len(w) : i = Len(stream) + j
      <3>1. i - Len(stream) \in 1..Len(w) /\ i = Len(stream) + (i - Len(stream))
        BY <1>1, <1>3
      <3> QED BY <3>1
    <2>2. stream'[i] = w[j]
      BY <2>1, <1>5
    <2> QED BY <2>2 DEF Unasked
  <1>7. Begun' = Begun
    BY DEF Begun
  <1>8. ASSUME NEW i \in DOMAIN stream' PROVE Unasked(i)' \/ LineFollows(i)'
    <2>1. CASE i <= Len(stream)
      <3>1. i \in DOMAIN stream /\ stream'[i] = stream[i]
        BY <2>1, <1>1, <1>3, <1>4
      <3>2. i # 1 => stream'[i - 1] = stream[i - 1]
        BY <2>1, <1>1, <1>3, <1>4
      <3>3. /\ CountBefore(i)' = CountBefore(i) /\ OpenBefore(i)' = OpenBefore(i)
            /\ LinesBefore(i)' = LinesBefore(i)
        BY <3>2, <1>7 DEF CountBefore, OpenBefore, LinesBefore
      <3> QED BY <3>1, <3>3, <1>4, <1>1 DEF StreamFollows, LineFollows
    <2>2. CASE i = Len(stream) + 1
      <3>1. stream'[i] = w[1]
        BY <2>2, <1>1, <1>5
      <3>2. CASE stream = <<>>
        <4>1. i = 1 BY <3>2, <2>2
        <4> QED BY <4>1, <3>1, <3>2, <1>7 DEF LineFollows, CountBefore, OpenBefore, StreamEnds
      <3>3. CASE stream # <<>>
        <4>1. i # 1 /\ i - 1 = Len(stream) /\ Len(stream) \in 1..Len(stream)
          BY <3>3, <2>2, <1>1, EmptySeq
        <4>2. stream'[i - 1] = stream[Len(stream)]
          BY <4>1, <1>4
        <4>3. /\ CountBefore(i)' = Answered /\ ~OpenBefore(i)'
          BY <4>1, <4>2, <3>3 DEF CountBefore, OpenBefore, StreamEnds
        <4> QED BY <4>3, <3>1 DEF LineFollows
      <3> QED BY <3>2, <3>3
    <2>3. CASE i > Len(stream) + 1
      <3>0. PICK j \in 2..Len(w) : i = Len(stream) + j
        <4>1. i - Len(stream) \in 2..Len(w) /\ i = Len(stream) + (i - Len(stream))
          BY <2>3, <1>1, <1>3
        <4> QED BY <4>1
      <3>1. /\ i # 1 /\ i - 1 = Len(stream) + (j - 1)
            /\ j - 1 \in 1..Len(w) /\ j \in 1..Len(w)
        BY <3>0, <1>1
      <3>2. /\ stream'[i] = w[j] /\ stream'[i - 1] = w[j - 1]
        BY <3>0, <3>1, <1>5
      <3>3. /\ CountBefore(i)' = w[j - 1].n /\ OpenBefore(i)' /\ LinesBefore(i)' = w[j - 1].k
        BY <3>1, <3>2 DEF CountBefore, OpenBefore, LinesBefore
      <3> QED BY <3>0, <3>2, <3>3 DEF LineFollows
    <2> QED BY <2>1, <2>2, <2>3, <1>1, <1>3
  <1>9. UnaskedFirst'
    <2>1. SUFFICES ASSUME NEW i \in DOMAIN stream', Unasked(i)'
                   PROVE  /\ sent' = 0
                          /\ cur' = 0
                          /\ stream'[i].t = "begin" =>
                               i = 1 /\ Len(stream') > 1 /\ Unasked(2)' /\ stream'[2].t = "end"
                          /\ stream'[i].t = "end" =>
                               i = 1 \/ (i = 2 /\ Unasked(1)' /\ stream'[1].t = "begin")
      BY DEF UnaskedFirst
    <2>2. i <= Len(stream)
      BY <1>1, <1>3, <1>6, <2>1
    <2>3. i \in DOMAIN stream /\ Unasked(i) /\ stream'[i] = stream[i]
      BY <2>2, <1>1, <1>3, <1>4, <2>1
    <2>4. CASE stream[i].t = "begin"
      BY <2>3, <2>4, <1>1, <1>2, <1>4 DEF UnaskedFirst
    <2>5. CASE stream[i].t = "end"
      BY <2>3, <2>5, <1>1, <1>4 DEF UnaskedFirst
    <2> QED BY <2>3, <2>4, <2>5 DEF Unasked
  <1> QED BY <1>8, <1>9 DEF StreamFollows

-----------------------------------------------------------------------------
\* The types are preserved by every step.
LEMMA TypeStep ==
  ASSUME TypeOK, QueueNumbered, WireNumbered, [Next]_vars
  PROVE  TypeOK'
  <1> USE ChannelAssumption
  <1>1. /\ sent \in Nat /\ cmdq \in Seq(Nat \ {0}) /\ cur \in Nat /\ resp \in Seq(Line)
        /\ callback \in [cmd : Nat, lines : Seq(Line), size : Nat]
        /\ toSrv \in Seq(Nat \ {0}) /\ stream \in Seq(Line) /\ notes \in Nat
    BY DEF TypeOK
  <1>2. stream # <<>> => Tail(stream) \in Seq(Line) /\ Head(stream) \in Line
    BY <1>1, HeadTailProperties
  <1>3. CASE SrvAnswer
    <2>1. PICK m \in 0..MaxLines : Answer(m, "end")
      BY <1>3 DEF SrvAnswer
    <2>2. Head(toSrv) \in Nat /\ Tail(toSrv) \in Seq(Nat \ {0})
      BY <1>1, <2>1, HeadTailProperties DEF Answer
    <2>3. Block(Head(toSrv), m, "end") \in Seq(Line)
      <3>1. m \in Nat BY <2>1
      <3> QED BY <2>2, <3>1, BlockProps
    <2>4. stream' \in Seq(Line)
      BY <2>1, <2>3, <1>1, ConcatProperties DEF Answer
    <2> QED BY <1>1, <2>1, <2>2, <2>4 DEF Answer, TypeOK
  <1>4. CASE SrvNotify
    <2>1. [t |-> "note", n |-> Answered, k |-> 0] \in Line
      BY <1>1, LenProperties DEF Line, Kinds, Answered, WireNumbered
    <2> QED BY <1>1, <1>4, <2>1 DEF SrvNotify, TypeOK
  <1>5. CASE ParseEnd
    <2>1. PICK b \in 0..MaxBurst : SendCommands(b)
      BY <1>5 DEF ParseEnd
    <2>2. sent' \in Nat /\ cmdq' \in Seq(Nat \ {0}) /\ toSrv' \in Seq(Nat \ {0})
      BY <2>1, SendKeeps
    <2>3. Head(stream).k \in Nat
      BY <1>2, <1>5 DEF ParseEnd, NextLine, Line
    <2>4. /\ callback' \in [cmd : Nat, lines : Seq(Line), size : Nat]
          /\ cur' \in Nat /\ resp' \in Seq(Line)
      BY <1>1, <1>5, <2>3 DEF ParseEnd
    <2> QED BY <1>1, <1>2, <1>5, <2>2, <2>4 DEF ParseEnd, NextLine, TypeOK
  <1>6. CASE ParseStrayEnd
    BY <1>1, <1>2, <1>6 DEF ParseStrayEnd, NextLine, TypeOK
  <1>7. CASE ParseResponseLine
    BY <1>1, <1>2, <1>7 DEF ParseResponseLine, NextLine, TypeOK
  <1>8. CASE ParseBegin
    <2>1. cmdq # <<>> => Head(cmdq) \in Nat /\ Tail(cmdq) \in Seq(Nat \ {0})
      BY <1>1, HeadTailProperties
    <2>2. cmdq' \in Seq(Nat \ {0}) /\ cur' \in Nat /\ resp' \in Seq(Line)
      <3>1. CASE cmdq = <<>>
        BY <1>1, <1>8, <3>1 DEF ParseBegin
      <3>2. CASE cmdq # <<>>
        <4>1. cur' = Head(cmdq) /\ cmdq' = Tail(cmdq) /\ resp' = <<>>
          BY <1>8, <3>2 DEF ParseBegin
        <4> QED BY <4>1, <3>2, <2>1, EmptySeq
      <3> QED BY <3>1, <3>2
    <2>3. stream' \in Seq(Line) /\ UNCHANGED <<sent, callback, toSrv, notes>>
      BY <1>2, <1>8 DEF ParseBegin, NextLine
    <2> QED BY <1>1, <2>2, <2>3 DEF TypeOK
  <1>9. CASE ParseNotification
    <2>1. PICK b \in 0..MaxBurst : SendCommands(b)
      BY <1>9 DEF ParseNotification
    <2>2. sent' \in Nat /\ cmdq' \in Seq(Nat \ {0}) /\ toSrv' \in Seq(Nat \ {0})
      BY <2>1, SendKeeps
    <2> QED BY <1>1, <1>2, <1>9, <2>2 DEF ParseNotification, NextLine, TypeOK
  <1>10. CASE UserSends
    <2>1. sent' \in Nat /\ cmdq' \in Seq(Nat \ {0}) /\ toSrv' \in Seq(Nat \ {0})
      BY <1>10, SendKeeps DEF UserSends
    <2> QED BY <1>1, <1>10, <2>1 DEF UserSends, TypeOK
  <1>11. CASE UNCHANGED vars
    BY <1>1, <1>11 DEF vars, TypeOK
  <1> QED BY <1>3, <1>4, <1>5, <1>6, <1>7, <1>8, <1>9, <1>10, <1>11 DEF Next, Parse

\* The state is a consistent point of the protocol initially.
LEMMA ChannelInit == Init => ChannelInv
  <1> SUFFICES ASSUME Init PROVE ChannelInv
    OBVIOUS
  <1> USE DEF Init
  <1>1. TypeOK
    BY DEF TypeOK, AttachBlock, Line, Kinds, NoCallback
  <1>2. /\ Begun = 0 /\ Answered = 0
    <2>1. Len(cmdq) = 0 /\ Len(toSrv) = 0 /\ sent = 0
      BY EmptySeq
    <2>2. sent - Len(cmdq) = 0 /\ sent - Len(toSrv) = 0
      <3> HIDE DEF Init
      <3> QED BY <2>1
    <2> QED BY <2>2 DEF Begun, Answered
  <1>3. QueueNumbered /\ WireNumbered
    BY DEF QueueNumbered, WireNumbered
  <1>4. /\ Len(stream) = 2 /\ DOMAIN stream = {1, 2} /\ Unasked(1) /\ Unasked(2)
        /\ stream[1].t = "begin" /\ stream[2].t = "end" /\ stream[2].n = 0
    BY DEF AttachBlock, Unasked
  <1>5. StreamFollows /\ UnaskedFirst
    BY <1>4 DEF StreamFollows, UnaskedFirst
  <1>6. StreamEnds
    <2>1. stream[1].n = 0 /\ stream # <<>>
      BY <1>4 DEF Unasked
    <2> HIDE DEF Init
    <2> QED BY <2>1, <1>2, <1>4 DEF StreamEnds
  <1>7. Collecting /\ CalledBack /\ AnswerMatchesCommand
    BY <1>2 DEF Collecting, CalledBack, AnswerMatchesCommand, NoCallback
  <1> QED BY <1>1, <1>3, <1>5, <1>6, <1>7 DEF ChannelInv

\* An answered command leaves the wire and its block enters the stream.
LEMMA SrvAnswerStep == ChannelInv /\ SrvAnswer => ChannelInv'
  <1> SUFFICES ASSUME ChannelInv, SrvAnswer PROVE ChannelInv'
    OBVIOUS
  <1> USE ChannelAssumption
  <1>1. PICK m \in 0..MaxLines : Answer(m, "end")
    BY DEF SrvAnswer
  <1>2. TypeOK'
    BY TypeStep DEF ChannelInv, Next
  <1>3. /\ UNCHANGED <<sent, cmdq, cur, resp, callback>>
        /\ toSrv # <<>> /\ toSrv' = Tail(toSrv)
        /\ stream' = stream \o Block(Head(toSrv), m, "end")
    BY <1>1 DEF Answer
  <1> DEFINE w == Block(Head(toSrv), m, "end")
  <1>4. /\ toSrv \in Seq(Nat \ {0}) /\ sent \in Nat /\ stream \in Seq(Line) /\ m \in Nat
    BY <1>1 DEF ChannelInv, TypeOK
  <1>5. /\ Len(toSrv) \in Nat \ {0} /\ Head(toSrv) = toSrv[1]
        /\ DOMAIN toSrv = 1..Len(toSrv) /\ DOMAIN toSrv' = 1..(Len(toSrv) - 1)
        /\ Len(toSrv') = Len(toSrv) - 1
        /\ \A i \in 1..(Len(toSrv) - 1) : toSrv'[i] = toSrv[i + 1]
    BY <1>3, <1>4, PopProps
  <1>6. /\ Answered \in Nat /\ Answered' = Answered + 1 /\ Len(toSrv) =< sent
    BY <1>3, <1>4, <1>5 DEF Answered, ChannelInv, WireNumbered
  <1>7. Head(toSrv) = Answered + 1 /\ Head(toSrv) \in Nat
    BY <1>5, <1>6 DEF ChannelInv, WireNumbered
  <1>8. WireNumbered'
    <2>1. ASSUME NEW i \in DOMAIN toSrv' PROVE toSrv'[i] = Answered' + i
      <3>1. i + 1 \in DOMAIN toSrv /\ toSrv'[i] = toSrv[i + 1] /\ i \in Nat
        BY <1>5
      <3>2. toSrv[i + 1] = Answered + (i + 1)
        BY <3>1 DEF ChannelInv, WireNumbered
      <3> QED BY <3>1, <3>2, <1>6
    <2> QED BY <2>1, <1>3, <1>4, <1>5, <1>6 DEF WireNumbered
  <1>9. /\ w \in Seq(Line) /\ Len(w) = m + 2
        /\ \A i \in 1..(m + 2) : w[i] =
             [t |-> IF i = 1 THEN "begin" ELSE IF i = m + 2 THEN "end" ELSE "data",
              n |-> Answered + 1,
              k |-> IF i = m + 2 THEN m ELSE i - 1]
    <2>1. \A id \in Nat : id = Head(toSrv) => Block(id, m, "end") = w
      OBVIOUS
    <2>2. Answered + 1 \in Nat /\ Block(Answered + 1, m, "end") = w
      BY <2>1, <1>6, <1>7
    <2> HIDE DEF w
    <2> QED BY <2>2, <1>4, BlockProps
  <1> HIDE DEF w
  <1>10. w # <<>>
    BY <1>4, <1>9, EmptySeq
  <1>11. w[1].t = "begin" /\ w[1].n = Answered + 1 /\ w[1].k = 0
    BY <1>4, <1>9
  <1>12. \A j \in 1..Len(w) : w[j].n # 0
    BY <1>4, <1>6, <1>9
  <1>13. ASSUME NEW j \in 2..Len(w)
         PROVE  /\ w[j].t \in {"data", "end"} /\ w[j - 1].t \in {"begin", "data"}
                /\ w[j].n = w[j - 1].n
                /\ w[j].k = IF w[j].t = "data" THEN w[j - 1].k + 1 ELSE w[j - 1].k
    <2>1. /\ j \in 1..(m + 2) /\ j - 1 \in 1..(m + 2) /\ j # 1 /\ j - 1 # m + 2
      BY <1>4, <1>9
    <2>2. w[j - 1] = [t |-> IF j - 1 = 1 THEN "begin" ELSE "data",
                      n |-> Answered + 1, k |-> (j - 1) - 1]
      BY <2>1, <1>9
    <2>3. w[j] = [t |-> IF j = m + 2 THEN "end" ELSE "data",
                  n |-> Answered + 1, k |-> IF j = m + 2 THEN m ELSE j - 1]
      BY <2>1, <1>9
    <2> QED BY <2>1, <2>2, <2>3, <1>4
  <1>14. StreamFollows' /\ UnaskedFirst'
    <2>1. stream' = stream \o w
      BY <1>3 DEF w
    <2> QED BY <2>1, <1>3, <1>9, <1>10, <1>11, <1>12, <1>13, AppendKeeps DEF ChannelInv
  <1>15. StreamEnds'
    <2>1. /\ Len(stream') = Len(stream) + Len(w) /\ Len(stream) \in Nat
          /\ \A i \in 1..(Len(stream) + Len(w)) :
               stream'[i] = IF i <= Len(stream) THEN stream[i] ELSE w[i - Len(stream)]
      BY <1>3, <1>4, <1>9, ConcatProperties, LenProperties DEF w
    <2>2. /\ Len(stream') = Len(stream) + (m + 2)
          /\ stream'[Len(stream')] = w[m + 2]
      BY <2>1, <1>4, <1>9
    <2>3. w[m + 2].t = "end" /\ w[m + 2].n = Answered'
      BY <1>4, <1>6, <1>9
    <2>4. stream' # <<>>
      BY <2>2, <2>1, <1>4, EmptySeq
    <2>5. ASSUME NEW i \in DOMAIN stream' PROVE stream'[i].n =< Answered'
      <3>1. i \in 1..(Len(stream) + Len(w)) /\ DOMAIN stream = 1..Len(stream)
        <4>1. stream' \in Seq(Line)
          BY <1>2 DEF TypeOK
        <4> QED BY <4>1, <2>1, <1>4, LenProperties
      <3>2. CASE i <= Len(stream)
        <4>1. i \in 1..Len(stream) /\ stream'[i] = stream[i]
          BY <3>1, <3>2, <2>1
        <4>2. stream[i] \in Line
          BY <4>1, <1>4, ElementOfSeq
        <4>3. stream[i].n \in Nat /\ stream[i].n =< Answered
          BY <4>1, <4>2, <3>1 DEF Line, ChannelInv, StreamEnds
        <4> QED BY <4>1, <4>3, <1>6
      <3>3. CASE ~(i <= Len(stream))
        <4>1. i - Len(stream) \in 1..(m + 2) /\ stream'[i] = w[i - Len(stream)]
          BY <3>1, <3>3, <2>1, <1>4, <1>9
        <4>2. stream'[i].n = Answered + 1
          BY <4>1, <1>9
        <4> QED BY <4>2, <1>6
      <3> QED BY <3>2, <3>3
    <2> QED BY <2>2, <2>3, <2>4, <2>5 DEF StreamEnds
  <1>16. QueueNumbered' /\ Collecting' /\ CalledBack' /\ AnswerMatchesCommand'
    BY <1>3 DEF ChannelInv, QueueNumbered, Collecting, CalledBack, AnswerMatchesCommand, Begun
  <1> QED BY <1>2, <1>8, <1>14, <1>15, <1>16 DEF ChannelInv

\* A notification is appended to a closed stream.
LEMMA SrvNotifyStep == ChannelInv /\ SrvNotify => ChannelInv'
  <1> SUFFICES ASSUME ChannelInv, SrvNotify PROVE ChannelInv'
    OBVIOUS
  <1>1. TypeOK'
    BY TypeStep DEF ChannelInv, Next
  <1> DEFINE l == [t |-> "note", n |-> Answered, k |-> 0]
             w == <<l>>
  <1>2. /\ UNCHANGED <<sent, cmdq, cur, resp, callback, toSrv>>
        /\ stream' = Append(stream, l)
    BY DEF SrvNotify
  <1>3. /\ toSrv \in Seq(Nat \ {0}) /\ sent \in Nat /\ stream \in Seq(Line)
        /\ Len(toSrv) \in Nat /\ Len(toSrv) =< sent
    BY LenProperties DEF ChannelInv, TypeOK, WireNumbered
  <1>4. Answered \in Nat /\ Answered' = Answered
    BY <1>2, <1>3 DEF Answered
  <1>5. /\ l \in Line /\ l.t = "note" /\ l.n = Answered
    BY <1>4 DEF Line, Kinds
  <1> HIDE DEF l
  <1>6. /\ w \in Seq(Line) /\ Len(w) = 1 /\ w # <<>> /\ w[1] = l
    BY <1>5
  <1>10. stream' = stream \o w
    BY <1>2, <1>3, <1>5, AppendIsConcat
  <1> HIDE DEF w
  <1>7. StreamFollows' /\ UnaskedFirst'
    <2>1. /\ w[1].t = "note" /\ w[1].n = Answered
          /\ \A j \in 1..Len(w) : w[j].t = "note" \/ w[j].n # 0
          /\ 2..Len(w) = {}
      BY <1>5, <1>6
    <2> QED BY <2>1, <1>2, <1>6, <1>10, AppendKeeps DEF ChannelInv
  <1>8. StreamEnds'
    <2>1. /\ Len(stream') = Len(stream) + 1 /\ stream'[Len(stream')] = l /\ stream' # <<>>
      BY <1>2, <1>3, <1>5
    <2>2. ASSUME NEW i \in DOMAIN stream' PROVE stream'[i].n =< Answered'
      <3>1. /\ i \in 1..(Len(stream) + 1) /\ DOMAIN stream = 1..Len(stream) /\ Len(stream) \in Nat
            /\ \A j \in 1..Len(stream) : stream'[j] = stream[j]
        <4>1. stream' \in Seq(Line)
          BY <1>1 DEF TypeOK
        <4> QED BY <4>1, <2>1, <1>2, <1>3, <1>5, LenProperties, AppendProperties
      <3>2. CASE i <= Len(stream)
        BY <3>1, <3>2, <1>4 DEF ChannelInv, StreamEnds
      <3>3. CASE i = Len(stream) + 1
        BY <3>3, <2>1, <1>4, <1>5
      <3> QED BY <3>1, <3>2, <3>3
    <2> QED BY <2>1, <2>2, <1>4, <1>5 DEF StreamEnds
  <1>9. QueueNumbered' /\ WireNumbered' /\ Collecting' /\ CalledBack' /\ AnswerMatchesCommand'
    BY <1>2 DEF ChannelInv, QueueNumbered, WireNumbered, Collecting, CalledBack,
                AnswerMatchesCommand, Begun, Answered
  <1> QED BY <1>1, <1>7, <1>8, <1>9 DEF ChannelInv

\* What parseCommand knows of the line it takes, whichever line that is.
LEMMA FirstLine ==
  ASSUME ChannelInv, stream # <<>>, stream' = Tail(stream)
  PROVE  /\ Head(stream) = stream[1] /\ stream[1] \in Line /\ 1 \in DOMAIN stream
         /\ Len(stream) \in Nat \ {0}
         /\ Begun \in Nat /\ Answered \in Nat /\ Len(cmdq) \in Nat /\ Len(cmdq) =< sent
         /\ Unasked(1) \/ LineFollows(1)
         /\ Unasked(1) => sent = 0 /\ cur = 0
         /\ Len(stream') = Len(stream) - 1
         /\ stream' = <<>> => Len(stream) = 1
         /\ stream' # <<>> => stream'[Len(stream')] = stream[Len(stream)]
  <1>1. /\ stream \in Seq(Line) /\ cmdq \in Seq(Nat \ {0}) /\ toSrv \in Seq(Nat \ {0})
        /\ sent \in Nat
    BY DEF ChannelInv, TypeOK
  <1>2. /\ Len(stream) \in Nat \ {0} /\ Head(stream) = stream[1] /\ stream[1] \in Line
        /\ DOMAIN stream = 1..Len(stream) /\ stream' \in Seq(Line)
        /\ Len(stream') = Len(stream) - 1
        /\ \A i \in 1..(Len(stream) - 1) : stream'[i] = stream[i + 1]
    BY <1>1, PopProps
  <1>3. /\ Len(cmdq) \in Nat /\ Len(cmdq) =< sent /\ Len(toSrv) \in Nat /\ Len(toSrv) =< sent
    BY <1>1, LenProperties DEF ChannelInv, QueueNumbered, WireNumbered
  <1>4. Begun \in Nat /\ Answered \in Nat
    BY <1>1, <1>3 DEF Begun, Answered
  <1>5. 1 \in DOMAIN stream
    BY <1>2
  <1>6. (Unasked(1) \/ LineFollows(1)) /\ (Unasked(1) => sent = 0 /\ cur = 0)
    BY <1>5 DEF ChannelInv, StreamFollows, UnaskedFirst
  <1>7. stream' = <<>> => Len(stream) = 1
    <2> SUFFICES ASSUME stream' = <<>> PROVE Len(stream) = 1
      OBVIOUS
    <2>1. Len(stream') = 0
      BY EmptySeq
    <2> QED BY <2>1, <1>2
  <1>8. stream' # <<>> => stream'[Len(stream')] = stream[Len(stream)]
    <2> SUFFICES ASSUME stream' # <<>> PROVE stream'[Len(stream')] = stream[Len(stream)]
      OBVIOUS
    <2>1. Len(stream') \in 1..(Len(stream) - 1) /\ Len(stream') + 1 = Len(stream)
      BY <1>2, EmptySeq
    <2> QED BY <2>1, <1>2
  <1> QED BY <1>2, <1>3, <1>4, <1>5, <1>6, <1>7, <1>8

\* After a line is parsed the stream still ends where the server stopped.
LEMMA PopEnds ==
  ASSUME ChannelInv, stream # <<>>, stream' = Tail(stream), Answered' = Answered,
         Begun' = stream[1].n, stream[1].t \in {"end", "note"} => cur' = 0
  PROVE  StreamEnds'
  <1>1. ASSUME NEW i \in DOMAIN stream' PROVE stream'[i].n =< Answered'
    <2>1. stream \in Seq(Line)
      BY DEF ChannelInv, TypeOK
    <2>2. i + 1 \in DOMAIN stream /\ stream'[i] = stream[i + 1]
      BY <2>1, PopProps
    <2> QED BY <2>2 DEF ChannelInv, StreamEnds
  <1>2. CASE stream' = <<>>
    <2>1. Len(stream) = 1
      BY <1>2, FirstLine
    <2> QED BY <2>1, <1>1, <1>2 DEF ChannelInv, StreamEnds
  <1>3. CASE stream' # <<>>
    <2>1. stream'[Len(stream')] = stream[Len(stream)]
      BY <1>3, FirstLine
    <2> QED BY <2>1, <1>1, <1>3 DEF ChannelInv, StreamEnds
  <1> QED BY <1>2, <1>3

\* %end of an open answer: the callback gets the whole block of its command.
LEMMA ParseEndStep == ChannelInv /\ ParseEnd => ChannelInv'
  <1> SUFFICES ASSUME ChannelInv, ParseEnd PROVE ChannelInv'
    OBVIOUS
  <1> USE ChannelAssumption
  <1>1. TypeOK'
    BY TypeStep DEF ChannelInv, Next, Parse
  <1>2. /\ stream # <<>> /\ Head(stream).t = "end" /\ stream' = Tail(stream)
        /\ cur # 0 /\ cur' = 0 /\ resp' = <<>>
        /\ callback' = [cmd |-> cur, lines |-> resp, size |-> Head(stream).k]
    BY DEF ParseEnd, NextLine
  <1>3. PICK b \in 0..MaxBurst : SendCommands(b)
    BY DEF ParseEnd
  <1>4. /\ Begun' = Begun /\ Answered' = Answered /\ Begun \in Nat
        /\ QueueNumbered' /\ WireNumbered'
    BY <1>3, SendKeeps DEF ChannelInv
  <1>5. /\ Head(stream) = stream[1] /\ LineFollows(1) /\ ~Unasked(1)
    BY <1>2, FirstLine
  <1>6. /\ stream[1].n = Begun /\ stream[1].k = Len(resp) /\ stream[1].t = "end"
    BY <1>2, <1>5 DEF LineFollows, CountBefore, LinesBefore, OpenBefore
  <1>7. StreamFollows'
    BY <1>2, <1>4, <1>6, PopKeeps DEF ChannelInv
  <1>8. UnaskedFirst'
    BY <1>2, <1>5, PopUnasked DEF ChannelInv, UnaskedFirst
  <1>9. StreamEnds'
    BY <1>2, <1>4, <1>6, PopEnds
  <1>10. Collecting'
    BY <1>2 DEF Collecting
  <1>11. cur = Begun /\ cur \in Nat
    BY <1>2 DEF ChannelInv, Collecting, TypeOK
  <1>12. CalledBack'
    BY <1>2, <1>4, <1>11 DEF CalledBack
  <1>13. AnswerMatchesCommand'
    BY <1>2, <1>5, <1>6 DEF ChannelInv, Collecting, AnswerMatchesCommand
  <1> QED BY <1>1, <1>4, <1>7, <1>8, <1>9, <1>10, <1>12, <1>13 DEF ChannelInv

\* %end outside an answer can only close the block nobody asked for.
LEMMA ParseStrayEndStep == ChannelInv /\ ParseStrayEnd => ChannelInv'
  <1> SUFFICES ASSUME ChannelInv, ParseStrayEnd PROVE ChannelInv'
    OBVIOUS
  <1>1. TypeOK'
    BY TypeStep DEF ChannelInv, Next, Parse
  <1>2. /\ stream # <<>> /\ Head(stream).t = "end" /\ stream' = Tail(stream) /\ cur = 0
        /\ UNCHANGED <<sent, cmdq, cur, resp, callback, toSrv>>
    BY DEF ParseStrayEnd, NextLine
  <1>3. Begun' = Begun /\ Answered' = Answered
    BY <1>2 DEF Begun, Answered
  <1>4. /\ Head(stream) = stream[1] /\ Begun \in Nat /\ Len(cmdq) \in Nat /\ Len(cmdq) =< sent
        /\ Unasked(1) \/ LineFollows(1)
        /\ Unasked(1) => sent = 0
    BY <1>2, FirstLine
  <1>5. Unasked(1)
    BY <1>2, <1>4 DEF LineFollows, OpenBefore
  <1>6. /\ stream[1].n = Begun /\ stream[1].t = "end"
    BY <1>2, <1>4, <1>5 DEF Begun, Unasked
  <1>7. StreamFollows'
    BY <1>2, <1>3, <1>6, PopKeeps DEF ChannelInv
  <1>8. UnaskedFirst'
    BY <1>2, <1>6, PopUnasked DEF ChannelInv, UnaskedFirst
  <1>9. StreamEnds'
    BY <1>2, <1>3, <1>6, PopEnds
  <1>10. QueueNumbered' /\ WireNumbered' /\ Collecting' /\ CalledBack' /\ AnswerMatchesCommand'
    BY <1>2 DEF ChannelInv, QueueNumbered, WireNumbered, Collecting, CalledBack,
                AnswerMatchesCommand, Begun, Answered
  <1> QED BY <1>1, <1>7, <1>8, <1>9, <1>10 DEF ChannelInv

\* A line collected for the current command is the next line of its block.
LEMMA ParseResponseLineStep == ChannelInv /\ ParseResponseLine => ChannelInv'
  <1> SUFFICES ASSUME ChannelInv, ParseResponseLine PROVE ChannelInv'
    OBVIOUS
  <1>1. TypeOK'
    BY TypeStep DEF ChannelInv, Next, Parse
  <1>2. /\ stream # <<>> /\ Head(stream).t # "end" /\ stream' = Tail(stream) /\ cur # 0
        /\ resp' = Append(resp, Head(stream))
        /\ UNCHANGED <<sent, cmdq, cur, callback, toSrv>>
    BY DEF ParseResponseLine, NextLine
  <1>3. Begun' = Begun /\ Answered' = Answered
    BY <1>2 DEF Begun, Answered
  <1>4. /\ Head(stream) = stream[1] /\ LineFollows(1) /\ ~Unasked(1) /\ stream[1] \in Line
    BY <1>2, FirstLine
  <1>5. /\ stream[1].t = "data" /\ stream[1].n = Begun /\ stream[1].k = Len(resp) + 1
    BY <1>2, <1>4 DEF LineFollows, CountBefore, LinesBefore, OpenBefore
  <1>6. cur = Begun /\ resp \in Seq(Line) /\ Len(resp) \in Nat
    BY <1>2, LenProperties DEF ChannelInv, Collecting, TypeOK
  <1>7. stream[1] = [t |-> "data", n |-> cur, k |-> Len(resp) + 1]
    BY <1>4, <1>5, <1>6 DEF Line
  <1>8. /\ Len(resp') = Len(resp) + 1 /\ DOMAIN resp = 1..Len(resp)
        /\ DOMAIN resp' = 1..(Len(resp) + 1)
        /\ \A i \in 1..Len(resp) : resp'[i] = resp[i]
        /\ resp'[Len(resp) + 1] = stream[1]
    <2>1. resp' \in Seq(Line)
      BY <1>1 DEF TypeOK
    <2> QED BY <1>2, <1>4, <1>6, <2>1, AppendProperties, LenProperties
  <1>9. Collecting'
    <2>1. ASSUME NEW i \in DOMAIN resp' PROVE resp'[i] = [t |-> "data", n |-> cur', k |-> i]
      <3>1. CASE i = Len(resp) + 1
        BY <3>1, <1>2, <1>7, <1>8
      <3>2. CASE i # Len(resp) + 1
        <4>1. i \in DOMAIN resp /\ resp'[i] = resp[i]
          BY <3>2, <1>6, <1>8
        <4> QED BY <4>1, <1>2 DEF ChannelInv, Collecting
      <3> QED BY <3>1, <3>2
    <2> QED BY <2>1, <1>2, <1>3, <1>6 DEF Collecting
  <1>10. StreamFollows'
    <2>1. /\ Begun' = stream[1].n /\ Len(resp') = stream[1].k
          /\ cur' # 0 <=> stream[1].t \in {"begin", "data"}
      BY <1>2, <1>3, <1>5, <1>8
    <2> QED BY <1>2, <2>1, PopKeeps DEF ChannelInv
  <1>11. UnaskedFirst'
    BY <1>2, <1>4, PopUnasked DEF ChannelInv, UnaskedFirst
  <1>12. StreamEnds'
    BY <1>2, <1>3, <1>5, PopEnds
  <1>13. QueueNumbered' /\ WireNumbered' /\ CalledBack' /\ AnswerMatchesCommand'
    BY <1>2 DEF ChannelInv, QueueNumbered, WireNumbered, CalledBack,
                AnswerMatchesCommand, Begun, Answered
  <1> QED BY <1>1, <1>9, <1>10, <1>11, <1>12, <1>13 DEF ChannelInv

\* %begin opens the answer of the oldest command; the unasked one is ignored.
LEMMA ParseBeginStep == ChannelInv /\ ParseBegin => ChannelInv'
  <1> SUFFICES ASSUME ChannelInv, ParseBegin PROVE ChannelInv'
    OBVIOUS
  <1>1. TypeOK'
    BY TypeStep DEF ChannelInv, Next, Parse
  <1>2. /\ stream # <<>> /\ Head(stream).t = "begin" /\ stream' = Tail(stream) /\ cur = 0
        /\ UNCHANGED <<sent, callback, toSrv>>
    BY DEF ParseBegin, NextLine
  <1>3. /\ Head(stream) = stream[1] /\ Begun \in Nat /\ Answered \in Nat
        /\ Len(cmdq) \in Nat /\ Len(cmdq) =< sent /\ 1 \in DOMAIN stream
        /\ Unasked(1) \/ LineFollows(1)
        /\ Unasked(1) => sent = 0
    BY <1>2, FirstLine
  <1>4. Answered' = Answered /\ stream[1].t = "begin"
    BY <1>2, <1>3 DEF Answered
  <1>5. cmdq \in Seq(Nat \ {0}) /\ sent \in Nat /\ stream \in Seq(Line)
    BY DEF ChannelInv, TypeOK
  <1>6. WireNumbered' /\ AnswerMatchesCommand'
    BY <1>2 DEF ChannelInv, WireNumbered, AnswerMatchesCommand, Answered
  <1>7. CASE Unasked(1)
    <2>1. cmdq = <<>>
      BY <1>3, <1>5, <1>7, EmptySeq
    <2>2. UNCHANGED <<cmdq, cur, resp>>
      BY <2>1 DEF ParseBegin
    <2>3. Begun' = Begun /\ stream[1].n = Begun
      BY <1>2, <1>3, <1>7, <2>2 DEF Begun, Unasked
    <2>4. Len(stream) > 1 /\ Unasked(2) /\ stream[2].t = "end"
      BY <1>3, <1>4, <1>7 DEF ChannelInv, UnaskedFirst
    <2>5. StreamFollows'
      BY <1>2, <2>2, <2>3, <2>4, PopKeeps DEF ChannelInv
    <2>6. UnaskedFirst'
      <3>1. /\ DOMAIN stream = 1..Len(stream) /\ DOMAIN stream' = 1..(Len(stream) - 1)
            /\ Len(stream) \in Nat
            /\ \A i \in 1..(Len(stream) - 1) : stream'[i] = stream[i + 1]
        BY <1>2, <1>5, PopProps
      <3>2. ASSUME NEW i \in DOMAIN stream', Unasked(i)'
            PROVE  i = 1 /\ stream'[i].t = "end"
        <4>1. i + 1 \in DOMAIN stream /\ stream'[i] = stream[i + 1] /\ i + 1 # 1
          BY <3>1
        <4>2. Unasked(i + 1)
          BY <4>1, <3>2 DEF Unasked
        <4>3. stream[i + 1].t = "end" /\ i + 1 = 2
          BY <4>1, <4>2 DEF ChannelInv, UnaskedFirst, Unasked
        <4> QED BY <4>1, <4>3, <3>1
      <3>3. sent' = 0 /\ cur' = 0
        BY <1>2, <1>3, <1>7, <2>2
      <3> QED BY <3>2, <3>3 DEF UnaskedFirst
    <2>7. StreamEnds'
      BY <1>2, <1>4, <2>3, PopEnds
    <2>8. QueueNumbered' /\ Collecting' /\ CalledBack'
      BY <1>2, <2>2 DEF ChannelInv, QueueNumbered, Collecting, CalledBack, Begun
    <2> QED BY <1>1, <1>6, <2>5, <2>6, <2>7, <2>8 DEF ChannelInv
  <1>8. CASE ~Unasked(1)
    <2>1. LineFollows(1) /\ stream[1].n = Begun + 1 /\ stream[1].k = 0
      BY <1>3, <1>4, <1>8 DEF LineFollows, CountBefore
    <2>2. Begun + 1 =< Answered /\ Answered =< sent
      <3>1. stream[1].n =< Answered
        BY <1>3 DEF ChannelInv, StreamEnds
      <3>2. Len(toSrv) \in Nat
        BY LenProperties DEF ChannelInv, TypeOK
      <3> QED BY <3>1, <3>2, <2>1, <1>5 DEF Answered
    <2>3. Len(cmdq) > 0 /\ cmdq # <<>>
      <3>1. Begun = sent - Len(cmdq)
        BY DEF Begun
      <3>2. Len(cmdq) > 0
        BY <2>2, <3>1, <1>3, <1>5
      <3> QED BY <3>2, EmptySeq
    <2>4. /\ cur' = Head(cmdq) /\ cmdq' = Tail(cmdq) /\ resp' = <<>>
      BY <2>3 DEF ParseBegin
    <2>5. /\ Head(cmdq) = cmdq[1] /\ Len(cmdq') = Len(cmdq) - 1
          /\ DOMAIN cmdq = 1..Len(cmdq) /\ DOMAIN cmdq' = 1..(Len(cmdq) - 1)
          /\ \A i \in 1..(Len(cmdq) - 1) : cmdq'[i] = cmdq[i + 1]
      BY <2>3, <2>4, <1>5, PopProps
    <2>6. Begun' = Begun + 1
      <3>1. Begun = sent - Len(cmdq) /\ Begun' = sent' - Len(cmdq')
        BY DEF Begun
      <3> QED BY <3>1, <2>5, <1>2, <1>3, <1>5
    <2>7. cur' = Begun + 1
      <3>1. 1 \in DOMAIN cmdq
        BY <2>3, <2>5, <1>3
      <3> QED BY <3>1, <2>4, <2>5 DEF ChannelInv, QueueNumbered
    <2>8. QueueNumbered'
      <3>1. ASSUME NEW i \in DOMAIN cmdq' PROVE cmdq'[i] = Begun' + i
        <4>1. i + 1 \in DOMAIN cmdq /\ cmdq'[i] = cmdq[i + 1] /\ i \in Nat
          BY <2>5, <1>3
        <4>2. cmdq[i + 1] = Begun + (i + 1)
          BY <4>1 DEF ChannelInv, QueueNumbered
        <4> QED BY <4>1, <4>2, <2>6, <1>3
      <3>2. Len(cmdq') =< sent'
        BY <2>5, <1>2, <1>3, <1>5
      <3> QED BY <3>1, <3>2 DEF QueueNumbered
    <2>9. Collecting'
      BY <2>4, <2>6, <2>7, <1>3 DEF Collecting
    <2>10. CalledBack'
      BY <2>6, <2>7, <1>2, <1>3 DEF ChannelInv, CalledBack
    <2>11. StreamFollows'
      <3>1. /\ Begun' = stream[1].n /\ Len(resp') = stream[1].k
            /\ cur' # 0 <=> stream[1].t \in {"begin", "data"}
        BY <2>1, <2>4, <2>6, <2>7, <1>3, <1>4
      <3> QED BY <1>2, <3>1, PopKeeps DEF ChannelInv
    <2>12. UnaskedFirst'
      BY <1>2, <1>8, PopUnasked DEF ChannelInv, UnaskedFirst
    <2>13. StreamEnds'
      BY <1>2, <1>4, <2>1, <2>6, PopEnds
    <2> QED BY <1>1, <1>6, <2>8, <2>9, <2>10, <2>11, <2>12, <2>13 DEF ChannelInv
  <1> QED BY <1>7, <1>8

\* A notification handler may send commands; it leaves the answers alone.
LEMMA ParseNotificationStep == ChannelInv /\ ParseNotification => ChannelInv'
  <1> SUFFICES ASSUME ChannelInv, ParseNotification PROVE ChannelInv'
    OBVIOUS
  <1> USE ChannelAssumption
  <1>1. TypeOK'
    BY TypeStep DEF ChannelInv, Next, Parse
  <1>2. /\ stream # <<>> /\ Head(stream).t = "note" /\ stream' = Tail(stream) /\ cur = 0
        /\ UNCHANGED <<cur, resp, callback>>
    BY DEF ParseNotification, NextLine
  <1>3. PICK b \in 0..MaxBurst : SendCommands(b)
    BY DEF ParseNotification
  <1>4. /\ Begun' = Begun /\ Answered' = Answered /\ QueueNumbered' /\ WireNumbered'
    BY <1>3, SendKeeps DEF ChannelInv
  <1>5. /\ Head(stream) = stream[1] /\ LineFollows(1) /\ ~Unasked(1)
    BY <1>2, FirstLine DEF Unasked
  <1>6. stream[1].n = Begun /\ stream[1].t = "note"
    BY <1>2, <1>5 DEF LineFollows, CountBefore
  <1>7. StreamFollows'
    BY <1>2, <1>4, <1>6, PopKeeps DEF ChannelInv
  <1>8. UnaskedFirst'
    BY <1>2, <1>5, PopUnasked DEF ChannelInv, UnaskedFirst
  <1>9. StreamEnds'
    BY <1>2, <1>4, <1>6, PopEnds
  <1>10. Collecting' /\ CalledBack' /\ AnswerMatchesCommand'
    BY <1>2, <1>4 DEF ChannelInv, Collecting, CalledBack, AnswerMatchesCommand
  <1> QED BY <1>1, <1>4, <1>7, <1>8, <1>9, <1>10 DEF ChannelInv

\* A user can only send once a callback has run, so after the unasked block.
LEMMA UserSendsStep == ChannelInv /\ UserSends => ChannelInv'
  <1> SUFFICES ASSUME ChannelInv, UserSends PROVE ChannelInv'
    OBVIOUS
  <1>1. TypeOK'
    BY TypeStep DEF ChannelInv, Next
  <1>2. /\ callback # NoCallback /\ SendCommands(1)
        /\ UNCHANGED <<cur, resp, callback, stream, notes>>
    BY DEF UserSends
  <1>3. /\ Begun' = Begun /\ Begun \in Nat /\ Answered' = Answered
        /\ QueueNumbered' /\ WireNumbered'
    BY <1>2, SendKeeps DEF ChannelInv
  <1>4. sent # 0
    <2>1. callback.cmd > 0 /\ callback.cmd \in Nat /\ cur \in Nat
      BY <1>2 DEF ChannelInv, CalledBack, TypeOK
    <2>2. Begun > 0
      BY <2>1, <1>3 DEF ChannelInv, CalledBack
    <2>3. Len(cmdq) \in Nat /\ sent \in Nat
      BY LenProperties DEF ChannelInv, TypeOK
    <2> QED BY <2>2, <2>3 DEF Begun
  <1>5. UnaskedFirst'
    BY <1>2, <1>4 DEF ChannelInv, UnaskedFirst, Unasked
  <1>6. StreamFollows'
    BY <1>2, <1>3 DEF ChannelInv, StreamFollows, LineFollows, Unasked,
                      CountBefore, OpenBefore, LinesBefore
  <1>7. StreamEnds' /\ Collecting' /\ CalledBack' /\ AnswerMatchesCommand'
    BY <1>2, <1>3 DEF ChannelInv, StreamEnds, Collecting, CalledBack, AnswerMatchesCommand
  <1> QED BY <1>1, <1>3, <1>5, <1>6, <1>7 DEF ChannelInv

\* Every step keeps the channel consistent.
LEMMA ChannelStep == ChannelInv /\ [Next]_vars => ChannelInv'
  <1> SUFFICES ASSUME ChannelInv, [Next]_vars PROVE ChannelInv'
    OBVIOUS
  <1>1. CASE SrvAnswer BY <1>1, SrvAnswerStep
  <1>2. CASE SrvNotify BY <1>2, SrvNotifyStep
  <1>3. CASE ParseEnd BY <1>3, ParseEndStep
  <1>4. CASE ParseStrayEnd BY <1>4, ParseStrayEndStep
  <1>5. CASE ParseResponseLine BY <1>5, ParseResponseLineStep
  <1>6. CASE ParseBegin BY <1>6, ParseBeginStep
  <1>7. CASE ParseNotification BY <1>7, ParseNotificationStep
  <1>8. CASE UserSends BY <1>8, UserSendsStep
  <1>9. CASE UNCHANGED vars
    BY <1>9 DEF vars, ChannelInv, TypeOK, QueueNumbered, WireNumbered, StreamFollows,
                UnaskedFirst, StreamEnds, Collecting, CalledBack, AnswerMatchesCommand,
                LineFollows, Unasked, CountBefore, OpenBefore, LinesBefore, Begun, Answered
  <1> QED BY <1>1, <1>2, <1>3, <1>4, <1>5, <1>6, <1>7, <1>8, <1>9 DEF Next, Parse

-----------------------------------------------------------------------------
\* The inductive invariant holds in every reachable state.
THEOREM ChannelInvariant == Spec => []ChannelInv
  BY ChannelInit, ChannelStep, PTL DEF Spec

\* Every variable keeps its type.
THEOREM ChannelTypes == Spec => []TypeOK
  <1>1. ChannelInv => TypeOK
    BY DEF ChannelInv
  <1> QED BY <1>1, ChannelInvariant, PTL

\* parseCommand hands every answer, whole and unmixed, to the command it answers.
THEOREM AnswersMatch == Spec => []AnswerMatchesCommand
  <1>1. ChannelInv => AnswerMatchesCommand
    BY DEF ChannelInv
  <1> QED BY <1>1, ChannelInvariant, PTL

\* No notification is swallowed by an answer being collected.
THEOREM NotesReachHandlers == Spec => []NotesNotSwallowed
  <1>1. ChannelInv => NotesNotSwallowed
    BY DEF ChannelInv, Collecting, NotesNotSwallowed
  <1> QED BY <1>1, ChannelInvariant, PTL

\* Callbacks run in the order in which sendCommand queued them, none left out.
THEOREM CallbackOrder == Spec => CallbacksInOrder
  <1>1. ChannelInv /\ [Next]_vars =>
          [callback' # callback => callback'.cmd = callback.cmd + 1]_vars
    <2> SUFFICES ASSUME ChannelInv, Next, callback' # callback
                 PROVE  callback'.cmd = callback.cmd + 1
      OBVIOUS
    <2>1. ParseEnd
      BY DEF Next, Parse, SrvAnswer, Answer, SrvNotify, ParseStrayEnd, ParseResponseLine,
             ParseBegin, ParseNotification, UserSends
    <2>2. callback'.cmd = cur /\ cur # 0
      BY <2>1 DEF ParseEnd
    <2>3. cur = Begun /\ callback.cmd = Begun - 1 /\ cur \in Nat
      BY <2>2 DEF ChannelInv, Collecting, CalledBack, TypeOK
    <2> QED BY <2>2, <2>3
  <1> QED BY <1>1, ChannelInvariant, PTL DEF Spec, CallbacksInOrder
=============================================================================
