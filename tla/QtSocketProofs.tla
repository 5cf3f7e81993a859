--------------------------- MODULE QtSocketProofs ---------------------------
(***************************************************************************)
(* Proofs that the socket of module QtSocket keeps writes in order and     *)
(* forgets no missed notification, for every amount of data, every buffer  *)
(* size and every backlog limit.                                           *)
(***************************************************************************)
EXTENDS QtSocket, SequenceTheorems, TLAPS

\* The smaller of two numbers is one of them and at most each.
LEMMA MinOfTwo ==
  ASSUME NEW a \in Nat, NEW b \in Nat
  PROVE  Min({a, b}) \in Nat /\ Min({a, b}) =< a /\ Min({a, b}) =< b
<1>1. \E x \in {a, b} : \A y \in {a, b} : x =< y
  <2>1. CASE a =< b
    BY <2>1
  <2>2. CASE b =< a
    BY <2>2
  <2> QED BY <2>1, <2>2
<1>2. Min({a, b}) \in {a, b} /\ \A y \in {a, b} : Min({a, b}) =< y
  BY <1>1 DEF Min
<1> QED BY <1>2

\* The larger of 1 and a number.
LEMMA MaxWithOne ==
  ASSUME NEW a \in Int
  PROVE  Max({1, a}) \in Nat
<1>1. \E x \in {1, a} : \A y \in {1, a} : x >= y
  <2>1. CASE 1 >= a
    BY <2>1
  <2>2. CASE a >= 1
    BY <2>2
  <2> QED BY <2>1, <2>2
<1>2. Max({1, a}) \in {1, a} /\ \A y \in {1, a} : Max({1, a}) >= y
  BY <1>1 DEF Max
<1> QED BY <1>2

\* The output callback writes a prefix of out_raw.
LEMMA WritesPrefix ==
  ASSUME TypeOK
  PROVE  Writes \in 0..Len(outRaw)
<1>1. Len(outRaw) \in Nat
  BY DEF TypeOK
<1>2. MaxBacklog + 1 - toWrite \in Int
  BY SocketAssumption DEF TypeOK
<1>3. Max({1, MaxBacklog + 1 - toWrite}) \in Nat
  BY <1>2, MaxWithOne
<1>4. \A m \in Nat : Min({Len(outRaw), m}) \in 0..Len(outRaw)
  BY <1>1, MinOfTwo
<1>5. Min({Len(outRaw), Max({1, MaxBacklog + 1 - toWrite})}) \in 0..Len(outRaw)
  BY <1>3, <1>4, Zenon
<1>6. CASE writable
  BY <1>5, <1>6, Zenon DEF Writes
<1>7. CASE ~writable
  BY <1>1, <1>7 DEF Writes
<1> QED BY <1>6, <1>7

\* The socket starts in the invariant.
LEMMA SocketInvInit == Init => SocketInv
<1> SUFFICES ASSUME Init PROVE SocketInv
  OBVIOUS
<1>1. <<>> \in Seq(Nat) /\ Len(<<>>) = 0
  BY EmptySeq
<1>2. TypeOK
  <2>1. /\ alive \in BOOLEAN /\ writable \in BOOLEAN
        /\ frozen \in BOOLEAN /\ frozenReadable \in BOOLEAN
        /\ posted \in BOOLEAN /\ told \in BOOLEAN
        /\ cbQueued \in BOOLEAN /\ throttled \in BOOLEAN
    BY Zenon DEF Init
  <2>2. toWrite \in 0..Len(wire) /\ unread \in 0..arrived /\ arrived \in Nat /\ produced \in Nat
    BY <1>1 DEF Init
  <2>3. wire \in Seq(Nat) /\ outputData \in Seq(Nat) /\ outRaw \in Seq(Nat)
    BY <1>1 DEF Init
  <2> QED BY <2>1, <2>2, <2>3 DEF Init, TypeOK
<1>3. ModesAgree /\ MissedIsRemembered
  BY DEF Init, ModesAgree, MissedIsRemembered
<1>4. AllAccounted
  BY <1>1 DEF Init, AllAccounted
<1>5. WritesInOrder
  BY <1>1 DEF Init, WritesInOrder
<1> QED BY <1>2, <1>3, <1>4, <1>5 DEF SocketInv

\* Steps that leave the data alone keep the invariant.
LEMMA QuietStep ==
  ASSUME SocketInv,
         UNCHANGED <<link, writable, inVars, outVars, outRaw, produced>>,
         TypeOK'
  PROVE  SocketInv'
BY DEF SocketInv, ModesAgree, AllAccounted, WritesInOrder, MissedIsRemembered, inVars, outVars

\* Steps of the receiving side leave the sending side alone.
LEMMA InStep ==
  ASSUME SocketInv,
         UNCHANGED <<link, writable, outVars, outRaw, produced>>,
         TypeOK', MissedIsRemembered'
  PROVE  SocketInv'
BY DEF SocketInv, ModesAgree, AllAccounted, WritesInOrder, outVars

\* on_connected sends what was held back, after nothing else.
LEMMA ConnectStep ==
  ASSUME SocketInv, OnConnected
  PROVE  SocketInv'
<1> USE DEF SocketInv
<1>1. wire \in Seq(Nat) /\ outputData \in Seq(Nat) /\ outRaw \in Seq(Nat)
  BY DEF TypeOK
<1>2. /\ wire' \in Seq(Nat) /\ Len(wire') = Len(wire) + Len(outputData)
      /\ \A i \in 1..Len(wire') :
            wire'[i] = IF i =< Len(wire) THEN wire[i] ELSE outputData[i - Len(wire)]
  BY <1>1, ConcatProperties DEF OnConnected
<1>3. outputData' = <<>> /\ Len(outputData') = 0 /\ outputData' \in Seq(Nat)
  BY DEF OnConnected
<1>4. /\ DOMAIN wire = 1..Len(wire) /\ DOMAIN outputData = 1..Len(outputData)
      /\ DOMAIN wire' = 1..Len(wire') /\ DOMAIN outputData' = {}
      /\ Len(wire) \in Nat /\ Len(outputData) \in Nat /\ Len(outRaw) \in Nat
  BY <1>1, <1>2, <1>3, LenProperties
<1>5. outRaw' = outRaw /\ produced' = produced /\ link' = "connected" /\ writable' = TRUE
  BY DEF OnConnected, sshVars
<1>6. link = "connecting"
  BY DEF OnConnected
<1>7. TypeOK'
  <2>1. toWrite' \in 0..Len(wire')
    BY <1>2, <1>4 DEF TypeOK, OnConnected
  <2> QED BY <1>2, <1>3, <2>1 DEF TypeOK, OnConnected, inVars, sshVars, endVars
<1>8. \A i \in DOMAIN wire' : wire'[i] = i
  <2> TAKE i \in DOMAIN wire'
  <2>1. CASE i =< Len(wire)
    BY <1>2, <1>4, <2>1 DEF WritesInOrder
  <2>2. CASE ~(i =< Len(wire))
    <3>1. i - Len(wire) \in DOMAIN outputData
      BY <1>2, <1>4, <2>2
    <3>2. outputData[i - Len(wire)] = Len(wire) + (i - Len(wire))
      BY <3>1, <1>6 DEF WritesInOrder
    <3> QED BY <1>2, <1>4, <2>2, <3>2
  <2> QED BY <2>1, <2>2
<1>9. \A i \in DOMAIN outRaw' : outRaw'[i] = Len(wire') + Len(outputData') + i
  <2>1. \A i \in DOMAIN outRaw : outRaw[i] = Len(wire) + Len(outputData) + i
    BY <1>6 DEF WritesInOrder
  <2>2. \A i \in DOMAIN outRaw : i \in Nat
    BY <1>1, LenProperties
  <2> QED BY <1>2, <1>3, <1>4, <1>5, <2>1, <2>2
<1>10. WritesInOrder'
  BY <1>4, <1>8, <1>9 DEF WritesInOrder
<1>11. AllAccounted'
  BY <1>2, <1>3, <1>4, <1>5, <1>6 DEF AllAccounted
<1>12. ModesAgree' /\ MissedIsRemembered'
  BY <1>3, <1>5 DEF ModesAgree, MissedIsRemembered, OnConnected, inVars
<1> QED BY <1>7, <1>10, <1>11, <1>12

\* A connection that ends leaves what was sent; the rest no longer counts.
LEMMA EndStep ==
  ASSUME SocketInv, OnConnectError \/ OnDisconnected
  PROVE  SocketInv'
<1> USE DEF SocketInv
<1>1. /\ link' \in {"failed", "closed"} /\ writable' = FALSE
      /\ wire' = wire /\ outputData' = <<>> /\ UNCHANGED inVars
  BY DEF OnConnectError, OnDisconnected
<1>2. TypeOK'
  <2>1. <<>> \in Seq(Nat)
    BY EmptySeq
  <2>2. CASE OnConnectError
    BY <2>1, <2>2 DEF TypeOK, OnConnectError, inVars, sshVars, endVars
  <2>3. CASE OnDisconnected
    BY <2>1, <2>3 DEF TypeOK, OnDisconnected, inVars, sshVars, endVars
  <2> QED BY <2>2, <2>3
<1> QED BY <1>1, <1>2 DEF ModesAgree, AllAccounted, WritesInOrder, MissedIsRemembered, inVars

\* A piece produced is the next in number.
LEMMA ProduceStep ==
  ASSUME SocketInv, Produce
  PROVE  SocketInv'
<1> USE DEF SocketInv
<1>1. outRaw \in Seq(Nat) /\ produced \in Nat
  BY DEF TypeOK
<1>2. /\ outRaw' \in Seq(Nat) /\ Len(outRaw') = Len(outRaw) + 1
      /\ \A i \in 1..Len(outRaw) : outRaw'[i] = outRaw[i]
      /\ outRaw'[Len(outRaw) + 1] = produced + 1
  BY <1>1, AppendProperties DEF Produce
<1>3. /\ DOMAIN outRaw = 1..Len(outRaw) /\ DOMAIN outRaw' = 1..Len(outRaw')
      /\ Len(outRaw) \in Nat /\ Len(wire) \in Nat /\ Len(outputData) \in Nat
  BY <1>1, <1>2, LenProperties DEF TypeOK
<1>4. UNCHANGED <<link, writable, inVars, outVars>> /\ produced' = produced + 1
  BY DEF Produce
<1>5. TypeOK'
  BY <1>2, <1>4 DEF TypeOK, Produce, inVars, outVars, endVars
<1>6. ASSUME link \in {"connecting", "connected"}, NEW i \in DOMAIN outRaw'
      PROVE  outRaw'[i] = Len(wire) + Len(outputData) + i
  <2>1. CASE i \in 1..Len(outRaw)
    BY <1>2, <1>3, <1>6, <2>1 DEF WritesInOrder
  <2>2. CASE i = Len(outRaw) + 1
    <3>1. produced = Len(wire) + Len(outputData) + Len(outRaw)
      BY <1>6 DEF AllAccounted
    <3> QED BY <1>2, <1>3, <2>2, <3>1
  <2> QED BY <1>2, <1>3, <1>6, <2>1, <2>2
<1>7. WritesInOrder'
  BY <1>4, <1>6 DEF WritesInOrder, outVars
<1>8. AllAccounted'
  BY <1>1, <1>2, <1>3, <1>4 DEF AllAccounted, outVars
<1>9. ModesAgree' /\ MissedIsRemembered'
  BY <1>4 DEF ModesAgree, MissedIsRemembered, inVars, outVars
<1> QED BY <1>5, <1>7, <1>8, <1>9

\* The output callback moves a prefix of out_raw to where it belongs.
LEMMA OutputStep ==
  ASSUME SocketInv, OutputCallback
  PROVE  SocketInv'
<1> USE DEF SocketInv
<1> DEFINE k == Writes
           data == SubSeq(outRaw, 1, k)
           rest == SubSeq(outRaw, k + 1, Len(outRaw))
<1>1. wire \in Seq(Nat) /\ outputData \in Seq(Nat) /\ outRaw \in Seq(Nat)
  BY DEF TypeOK
<1>2. /\ DOMAIN wire = 1..Len(wire) /\ DOMAIN outputData = 1..Len(outputData)
      /\ DOMAIN outRaw = 1..Len(outRaw)
      /\ Len(wire) \in Nat /\ Len(outputData) \in Nat /\ Len(outRaw) \in Nat
      /\ \A i \in 1..Len(outRaw) : outRaw[i] \in Nat
  BY <1>1, LenProperties
<1>3. k \in 0..Len(outRaw)
  BY WritesPrefix
<1>4. outRaw' = rest /\ link' = link /\ writable' = writable /\ produced' = produced
  BY DEF OutputCallback
<1>5. UNCHANGED inVars
  BY DEF OutputCallback
<1>6. IF writable
      THEN wire' = wire \o data /\ outputData' = outputData
           /\ toWrite' = toWrite + Len(data)
      ELSE outputData' = outputData \o data /\ wire' = wire /\ toWrite' = toWrite
  BY DEF OutputCallback
<1> HIDE DEF k
<1>7. /\ data \in Seq(Nat) /\ Len(data) = k
      /\ \A i \in 1..k : data[i] = outRaw[i]
  <2>1. \A i \in 1..k : outRaw[i] \in Nat
    BY <1>2, <1>3
  <2>2. k \in Int /\ 1 \in Int /\ k - 1 + 1 = k /\ \A i \in 1..k : 1 + i - 1 = i
    BY <1>2, <1>3
  <2>3. /\ data \in Seq(Nat) /\ Len(data) = (IF 1 =< k THEN k - 1 + 1 ELSE 0)
        /\ \A i \in 1..(k - 1 + 1) : data[i] = outRaw[1 + i - 1]
    BY <2>1, <2>2, SubSeqProperties
  <2> QED BY <1>2, <1>3, <2>2, <2>3
<1>8. /\ rest \in Seq(Nat) /\ Len(rest) = Len(outRaw) - k
      /\ \A i \in 1..(Len(outRaw) - k) : rest[i] = outRaw[k + i]
  <2> DEFINE n == Len(outRaw)
             m == k + 1
  <2>1. n \in Int /\ m \in Int /\ n - m + 1 = n - k /\ \A i \in 1..(n - k) : m + i - 1 = k + i
    BY <1>2, <1>3
  <2>2. \A i \in m..n : outRaw[i] \in Nat
    BY <1>2, <1>3
  <2>3. /\ rest \in Seq(Nat) /\ Len(rest) = (IF m =< n THEN n - m + 1 ELSE 0)
        /\ \A i \in 1..(n - m + 1) : rest[i] = outRaw[m + i - 1]
    BY <2>1, <2>2, SubSeqProperties
  <2>a. n \in Nat /\ k \in Nat /\ k =< n
    BY <1>2, <1>3
  <2> HIDE DEF rest
  <2>4. Len(rest) = n - k
    <3>1. CASE k < n
      <4>1. m =< n /\ n - m + 1 = n - k
        BY <1>2, <1>3, <3>1
      <4> QED BY <2>3, <4>1
    <3>2. CASE ~(k < n)
      <4>1. ~(m =< n) /\ n - k = 0
        BY <2>a, <3>2
      <4> QED BY <2>3, <4>1
    <3> QED BY <3>1, <3>2, Zenon
  <2> QED BY <2>1, <2>3, <2>4
<1> HIDE DEF data, rest
<1>9. DOMAIN outRaw' = 1..Len(outRaw') /\ outRaw' \in Seq(Nat) /\ Len(outRaw') = Len(outRaw) - k
  BY <1>4, <1>8, LenProperties
<1>10. CASE writable
  <2>0. link = "connected" /\ outputData = <<>> /\ Len(outputData) = 0
    BY <1>10 DEF ModesAgree
  <2>1. /\ wire' \in Seq(Nat) /\ Len(wire') = Len(wire) + k
        /\ \A i \in 1..(Len(wire) + k) :
              wire'[i] = IF i =< Len(wire) THEN wire[i] ELSE data[i - Len(wire)]
    <3>1. wire' = wire \o data
      BY <1>6, <1>10
    <3>2. /\ wire \o data \in Seq(Nat) /\ Len(wire \o data) = Len(wire) + Len(data)
          /\ \A i \in 1..(Len(wire) + Len(data)) :
               (wire \o data)[i] = IF i =< Len(wire) THEN wire[i] ELSE data[i - Len(wire)]
      BY <1>1, <1>7, ConcatProperties
    <3> QED BY <1>7, <3>1, <3>2
  <2>2. DOMAIN wire' = 1..(Len(wire) + k)
    BY <2>1, LenProperties
  <2>3. \A i \in DOMAIN outRaw : outRaw[i] = Len(wire) + i
    BY <1>2, <2>0 DEF WritesInOrder
  <2>4. \A i \in DOMAIN wire' : wire'[i] = i
    <3> TAKE i \in DOMAIN wire'
    <3>1. CASE i =< Len(wire)
      BY <1>2, <2>1, <2>2, <3>1 DEF WritesInOrder
    <3>2. CASE ~(i =< Len(wire))
      <4>1. i - Len(wire) \in 1..k /\ i - Len(wire) \in DOMAIN outRaw
        BY <1>2, <1>3, <2>2, <3>2
      <4>2. outRaw[i - Len(wire)] = Len(wire) + (i - Len(wire))
        BY <4>1, <2>3
      <4>3. wire'[i] = outRaw[i - Len(wire)]
        BY <1>7, <2>1, <2>2, <3>2, <4>1
      <4> QED BY <1>2, <1>3, <2>2, <4>2, <4>3
    <3> QED BY <3>1, <3>2
  <2>5. \A i \in DOMAIN outRaw' : outRaw'[i] = Len(wire') + Len(outputData') + i
    <3> TAKE i \in DOMAIN outRaw'
    <3>1. i \in 1..(Len(outRaw) - k) /\ k + i \in DOMAIN outRaw
      BY <1>2, <1>3, <1>9
    <3>2. outRaw'[i] = Len(wire) + (k + i)
      BY <1>4, <1>8, <2>3, <3>1
    <3>3. Len(outputData') = 0
      BY <1>6, <1>10, <2>0
    <3> QED BY <1>2, <1>3, <2>1, <3>1, <3>2, <3>3
  <2>6. WritesInOrder'
    <3>1. \A i \in DOMAIN outputData' : outputData'[i] = Len(wire') + i
      BY <1>2, <1>6, <1>10, <2>0
    <3> QED BY <2>4, <2>5, <3>1 DEF WritesInOrder
  <2>7. AllAccounted'
    <3>1. produced = Len(wire) + 0 + Len(outRaw)
      BY <2>0 DEF AllAccounted
    <3>2. Len(outputData') = 0
      BY <1>6, <1>10, <2>0
    <3> QED BY <1>2, <1>3, <1>4, <1>9, <2>1, <3>1, <3>2 DEF AllAccounted
  <2>8. ModesAgree' /\ MissedIsRemembered'
    BY <1>4, <1>5, <1>6, <1>10, <2>0 DEF ModesAgree, MissedIsRemembered, inVars
  <2>9. TypeOK'
    <3>1. toWrite' \in 0..Len(wire')
      BY <1>2, <1>3, <1>6, <1>7, <1>10, <2>1 DEF TypeOK
    <3>2. throttled' \in BOOLEAN /\ cbQueued' \in BOOLEAN
      BY <1>10 DEF OutputCallback
    <3>3. UNCHANGED <<link, alive, writable, inVars, endVars, produced, outputData>>
      BY <1>10 DEF OutputCallback
    <3> QED BY <1>9, <2>1, <3>1, <3>2, <3>3 DEF TypeOK, inVars, endVars
  <2> QED BY <2>6, <2>7, <2>8, <2>9
<1>11. CASE ~writable
  <2>0. link # "connected"
    BY <1>11 DEF ModesAgree
  <2>1. /\ outputData' \in Seq(Nat) /\ Len(outputData') = Len(outputData) + k
        /\ \A i \in 1..(Len(outputData) + k) :
              outputData'[i] = IF i =< Len(outputData) THEN outputData[i]
                               ELSE data[i - Len(outputData)]
    <3>1. outputData' = outputData \o data
      BY <1>6, <1>11
    <3>2. /\ outputData \o data \in Seq(Nat) /\ Len(outputData \o data) = Len(outputData) + Len(data)
          /\ \A i \in 1..(Len(outputData) + Len(data)) :
               (outputData \o data)[i] = IF i =< Len(outputData) THEN outputData[i] ELSE data[i - Len(outputData)]
      BY <1>1, <1>7, ConcatProperties
    <3> QED BY <1>7, <3>1, <3>2
  <2>2. DOMAIN outputData' = 1..(Len(outputData) + k)
    BY <2>1, LenProperties
  <2>3. wire' = wire /\ toWrite' = toWrite
    BY <1>6, <1>11
  <2>4. ASSUME link = "connecting"
        PROVE  /\ \A i \in DOMAIN outputData' : outputData'[i] = Len(wire) + i
               /\ \A i \in DOMAIN outRaw' : outRaw'[i] = Len(wire) + Len(outputData') + i
    <3>1. \A i \in DOMAIN outRaw : outRaw[i] = Len(wire) + Len(outputData) + i
      BY <2>4 DEF WritesInOrder
    <3>2. ASSUME NEW i \in DOMAIN outputData'
          PROVE  outputData'[i] = Len(wire) + i
      <4>1. CASE i =< Len(outputData)
        BY <1>2, <2>1, <2>2, <2>4, <4>1 DEF WritesInOrder
      <4>2. CASE ~(i =< Len(outputData))
        <5>1. i - Len(outputData) \in 1..k /\ i - Len(outputData) \in DOMAIN outRaw
          BY <1>2, <1>3, <2>2, <4>2
        <5>2. outRaw[i - Len(outputData)] = Len(wire) + Len(outputData) + (i - Len(outputData))
          BY <5>1, <3>1
        <5>3. outputData'[i] = outRaw[i - Len(outputData)]
          BY <1>7, <2>1, <2>2, <4>2, <5>1
        <5> QED BY <1>2, <1>3, <2>2, <5>2, <5>3
      <4> QED BY <4>1, <4>2
    <3>3. ASSUME NEW i \in DOMAIN outRaw'
          PROVE  outRaw'[i] = Len(wire) + Len(outputData') + i
      <4>1. i \in 1..(Len(outRaw) - k) /\ k + i \in DOMAIN outRaw
        BY <1>2, <1>3, <1>9
      <4>2. outRaw'[i] = Len(wire) + Len(outputData) + (k + i)
        BY <1>4, <1>8, <3>1, <4>1
      <4> QED BY <1>2, <1>3, <2>1, <4>1, <4>2
    <3> QED BY <3>2, <3>3
  <2>5. WritesInOrder'
    BY <1>4, <2>0, <2>3, <2>4 DEF WritesInOrder
  <2>6. AllAccounted'
    BY <1>2, <1>3, <1>4, <1>9, <2>0, <2>1, <2>3 DEF AllAccounted
  <2>7. ModesAgree' /\ MissedIsRemembered'
    BY <1>4, <1>5, <1>11, <2>0 DEF ModesAgree, MissedIsRemembered, inVars
  <2>8. TypeOK'
    <3>1. throttled' \in BOOLEAN /\ cbQueued' \in BOOLEAN
      BY <1>11 DEF OutputCallback, TypeOK
    <3>2. UNCHANGED <<link, alive, writable, inVars, endVars, produced>>
      BY DEF OutputCallback
    <3> QED BY <1>9, <2>1, <2>3, <3>1, <3>2 DEF TypeOK, inVars, endVars
  <2> QED BY <2>5, <2>6, <2>7, <2>8
<1> QED BY <1>10, <1>11

\* Data that arrives is read at once or, in a frozen socket, remembered.
LEMMA ReadyReadStep ==
  ASSUME SocketInv, OnReadyRead
  PROVE  SocketInv'
<1>1. TypeOK' /\ MissedIsRemembered'
  <2>1. PICK k \in 1..MaxIn : arrived' = arrived + k /\ unread' = unread + k
    BY DEF OnReadyRead
  <2>2. arrived \in Nat /\ unread \in 0..arrived /\ k \in Nat
    BY <2>1, SocketAssumption DEF SocketInv, TypeOK
  <2>3. arrived' \in Nat /\ unread' \in 0..arrived'
    BY <2>1, <2>2
  <2>4. CASE frozen
    <3>1. frozenReadable' = TRUE /\ loop' = loop /\ frozen' = frozen
      BY <2>4 DEF OnReadyRead
    <3> QED BY <2>3, <2>4, <3>1
          DEF SocketInv, TypeOK, MissedIsRemembered, OnReadyRead, outVars, sshVars, endVars
  <2>5. CASE ~frozen
    <3>1. loop' = "signal" /\ frozenReadable' = frozenReadable /\ frozen' = frozen
      BY <2>5 DEF OnReadyRead
    <3> QED BY <2>3, <3>1
          DEF SocketInv, TypeOK, MissedIsRemembered, OnReadyRead, outVars, sshVars, endVars
  <2> QED BY <2>4, <2>5
<1>2. UNCHANGED <<link, writable, outVars, outRaw, produced>>
  BY DEF OnReadyRead, sshVars
<1> QED BY <1>1, <1>2, InStep

\* The loop ends with nothing left, whatever the plug did meanwhile.
LEMMA ReceiveStep ==
  ASSUME SocketInv, ReadAndReceive
  PROVE  SocketInv'
<1>1. /\ arrived \in Nat /\ unread \in 0..arrived /\ unread \in Nat /\ ReadSize \in Nat
  BY SocketAssumption DEF SocketInv, TypeOK
<1>2. unread' \in 0..arrived
  <2>1. Min({unread, ReadSize}) \in Nat /\ Min({unread, ReadSize}) =< unread
    BY <1>1, MinOfTwo
  <2>2. unread' = unread - Min({unread, ReadSize})
    BY DEF ReadAndReceive
  <2> QED BY <1>1, <2>1, <2>2
<1>3. loop' \in {"no", "signal", "unfreeze"} /\ (loop' = "no" => ~(unread' > 0))
  BY DEF ReadAndReceive, SocketInv, TypeOK
<1>4. MissedIsRemembered'
  BY <1>3 DEF MissedIsRemembered
<1>5. frozenReadable' \in BOOLEAN /\ frozen' \in BOOLEAN
  BY DEF ReadAndReceive
<1>6. TypeOK'
  BY <1>2, <1>3, <1>5 DEF SocketInv, TypeOK, ReadAndReceive, outVars, sshVars, endVars
<1>7. UNCHANGED <<link, writable, outVars, outRaw, produced>>
  BY DEF ReadAndReceive, sshVars
<1> QED BY <1>4, <1>6, <1>7, InStep

\* Unfreezing a socket that missed a notification starts the loop.
LEMMA FreezeStep ==
  ASSUME SocketInv, NEW b \in BOOLEAN, SetFrozen(b)
  PROVE  SocketInv'
<1>1. CASE ~b /\ frozenReadable
  <2>1. loop' = "unfreeze" /\ frozenReadable' = frozenReadable /\ frozen' = b
    BY <1>1 DEF SetFrozen
  <2>2. MissedIsRemembered'
    BY <2>1 DEF MissedIsRemembered
  <2>3. TypeOK'
    BY <2>1 DEF SocketInv, TypeOK, SetFrozen, outVars, sshVars, endVars
  <2>4. UNCHANGED <<link, writable, outVars, outRaw, produced>>
    BY DEF SetFrozen, sshVars
  <2> QED BY <2>2, <2>3, <2>4, InStep
<1>2. CASE ~(~b /\ frozenReadable)
  <2>1. /\ loop' = loop /\ frozenReadable' = FALSE /\ frozen' = b
        /\ loop = "no" /\ frozen # b /\ unread' = unread
    BY <1>2 DEF SetFrozen, Event
  <2>2. ~(unread > 0)
    <3>1. CASE b
      <4>1. ~frozen
        BY <2>1, <3>1 DEF SocketInv, TypeOK
      <4> QED BY <2>1, <4>1 DEF SocketInv, MissedIsRemembered
    <3>2. CASE ~b
      BY <1>2, <2>1, <3>2 DEF SocketInv, MissedIsRemembered
    <3> QED BY <3>1, <3>2
  <2>3. MissedIsRemembered'
    BY <2>1, <2>2 DEF MissedIsRemembered
  <2>4. TypeOK'
    BY <2>1 DEF SocketInv, TypeOK, SetFrozen, outVars, sshVars, endVars
  <2>5. UNCHANGED <<link, writable, outVars, outRaw, produced>>
    BY DEF SetFrozen, sshVars
  <2> QED BY <2>3, <2>4, <2>5, InStep
<1> QED BY <1>1, <1>2

\* Closing the socket, and Qt sending, leave the data alone.
LEMMA OtherStep ==
  ASSUME SocketInv, InvokePlugClosing \/ SkClose \/ OnBytesWritten
  PROVE  SocketInv'
<1>1. CASE InvokePlugClosing
  <2>1. TypeOK'
    <3>1. CASE alive
      BY <1>1, <3>1 DEF SocketInv, TypeOK, InvokePlugClosing, inVars, outVars, sshVars
    <3>2. CASE ~alive
      BY <1>1, <3>2 DEF SocketInv, TypeOK, InvokePlugClosing, inVars, outVars, sshVars
    <3> QED BY <3>1, <3>2
  <2> QED BY <1>1, <2>1, QuietStep DEF InvokePlugClosing, sshVars
<1>2. CASE SkClose
  <2>1. TypeOK'
    BY <1>2 DEF SocketInv, TypeOK, SkClose, inVars, outVars, sshVars, endVars
  <2> QED BY <1>2, <2>1, QuietStep DEF SkClose, sshVars
<1>3. CASE OnBytesWritten
  <2>1. toWrite' \in 0..Len(wire') /\ wire' = wire /\ outputData' = outputData
    BY <1>3 DEF SocketInv, TypeOK, OnBytesWritten
  <2>2. UNCHANGED <<link, alive, writable, inVars, sshVars, endVars>>
    BY <1>3 DEF OnBytesWritten
  <2>3. TypeOK'
    BY <2>1, <2>2 DEF SocketInv, TypeOK, inVars, sshVars, endVars
  <2> QED BY <2>1, <2>2, <2>3
        DEF SocketInv, ModesAgree, AllAccounted, WritesInOrder, MissedIsRemembered, inVars, sshVars
<1> QED BY <1>1, <1>2, <1>3

\* Every step keeps the invariant.
LEMMA SocketInvNext == SocketInv /\ [Next]_vars => SocketInv'
<1> SUFFICES ASSUME SocketInv, [Next]_vars PROVE SocketInv'
  OBVIOUS
<1>1. CASE OnConnected
  BY <1>1, ConnectStep
<1>2. CASE OnConnectError \/ OnDisconnected
  BY <1>2, EndStep
<1>3. CASE InvokePlugClosing \/ SkClose \/ OnBytesWritten
  BY <1>3, OtherStep
<1>4. CASE OnReadyRead
  BY <1>4, ReadyReadStep
<1>5. CASE ReadAndReceive
  BY <1>5, ReceiveStep
<1>6. CASE \E b \in BOOLEAN : SetFrozen(b)
  BY <1>6, FreezeStep
<1>7. CASE Produce
  BY <1>7, ProduceStep
<1>8. CASE OutputCallback
  BY <1>8, OutputStep
<1>9. CASE UNCHANGED vars
  <2>1. TypeOK'
    BY <1>9 DEF SocketInv, TypeOK, vars, inVars, outVars, sshVars, endVars
  <2> QED BY <1>9, <2>1, QuietStep DEF vars, sshVars
<1> QED BY <1>1, <1>2, <1>3, <1>4, <1>5, <1>6, <1>7, <1>8, <1>9 DEF Next

\* The invariant holds throughout.
THEOREM SocketInvariant == Spec => []SocketInv
BY SocketInvInit, SocketInvNext, PTL DEF Spec

\* Every variable keeps its type.
THEOREM SocketTypes == Spec => []TypeOK
<1>1. SocketInv => TypeOK
  BY DEF SocketInv
<1> QED BY <1>1, SocketInvariant, PTL

\* What sk_tcp_write and on_connected hand to Qt is what the backend wrote, in
\* order, for any number of writes before and after the connection is made.
THEOREM WritesKeepOrder == Spec => []WritesInOrder
<1>1. SocketInv => WritesInOrder
  BY DEF SocketInv
<1> QED BY <1>1, SocketInvariant, PTL

\* sk_tcp_set_frozen and on_readyRead lose no wake-up, for any amount of data and
\* any size of the read buffer.
THEOREM NoLostWakeup == Spec => []MissedIsRemembered
<1>1. SocketInv => MissedIsRemembered
  BY DEF SocketInv
<1> QED BY <1>1, SocketInvariant, PTL
=============================================================================
