---------------------------- MODULE SocketProofs ----------------------------
(* Proofs about the reader of a datagram and the reused receive buffer.      *)
EXTENDS Socket, FiniteSetTheorems, TLAPS

\* A stream whose position is within its datagram.
InBounds(s) == s \in Stream /\ s.offset <= Len(s.data)

\* The operations of a stream keep its data.
SameData(s, t) == t.data = s.data

-----------------------------------------------------------------------------
\* A stream starts at the first byte of the datagram.
LEMMA OpenInBounds ==
    ASSUME NEW data \in Seq(Byte)
    PROVE  InBounds(Open(data)) /\ Open(data).data = data /\ Open(data).offset = 0
  BY DEF Open, InBounds, Stream

\* Setting the underflow flag moves nothing.
LEMMA UnderflowInBounds ==
    ASSUME NEW s, InBounds(s)
    PROVE  InBounds(Underflow(s)) /\ SameData(s, Underflow(s)) /\ Underflowed(Underflow(s))
  BY DEF Underflow, InBounds, Stream, SameData, Underflowed

\* Moving over bytes that are there stays in bounds and keeps the flag.
LEMMA AdvanceInBounds ==
    ASSUME NEW s, InBounds(s), NEW count \in Nat, count <= RemainingBytes(s)
    PROVE  /\ InBounds(Advance(s, count)) /\ SameData(s, Advance(s, count))
           /\ Underflowed(Advance(s, count)) = Underflowed(s)
  <1>1. Advance(s, count) \in Stream
    BY DEF Advance, InBounds, Stream
  <1>2. /\ Advance(s, count).offset = s.offset + count
        /\ Advance(s, count).data = s.data
        /\ Advance(s, count).underflow = s.underflow
    BY DEF Advance, InBounds, Stream
  <1>3. s.offset \in Nat /\ Len(s.data) \in Nat
    BY DEF InBounds, Stream
  <1>4. s.offset + count <= Len(s.data)
    BY <1>3 DEF RemainingBytes
  <1> QED
    BY <1>1, <1>2, <1>4 DEF InBounds, SameData, Underflowed

\* A string ends within the datagram.
LEMMA StringLengthInBounds ==
    ASSUME NEW s, InBounds(s), RemainingBytes(s) > 0
    PROVE  StringLength(s) \in Nat /\ StringLength(s) <= RemainingBytes(s)
  <1> DEFINE R == RemainingBytes(s)
             string == {n \in 1 .. R : \A m \in 1 .. n - 1 : s.data[s.offset + m] # NUL}
  <1>1. R \in Nat
    BY DEF InBounds, Stream, RemainingBytes
  <1>2. IsFiniteSet(1 .. R) /\ Cardinality(1 .. R) = R
    BY <1>1, FS_Interval
  <1>3. string \subseteq 1 .. R
    OBVIOUS
  <1>4. Cardinality(string) \in Nat /\ Cardinality(string) <= R
    BY <1>2, <1>3, FS_Subset, FS_CardinalityType
  <1>5. StringLength(s) = Cardinality(string)
    BY DEF StringLength
  <1> QED
    BY <1>4, <1>5

\* No operation of a stream leaves the datagram, and once a read went beyond
\* its end the stream remembers it (binary_input_stream.cpp:27-125).
THEOREM StreamStaysInBounds ==
    ASSUME NEW s, InBounds(s), NEW count \in Nat
    PROVE  \A t \in {SkipBytes(s, count), Read(s, count), ReadString(s)} :
              /\ InBounds(t) /\ SameData(s, t)
              /\ Underflowed(s) => Underflowed(t)
  <1>1. RemainingBytes(s) \in Nat
    BY DEF InBounds, Stream, RemainingBytes
  <1>2. InBounds(SkipBytes(s, count)) /\ SameData(s, SkipBytes(s, count))
        /\ (Underflowed(s) => Underflowed(SkipBytes(s, count)))
    BY <1>1, AdvanceInBounds, UnderflowInBounds DEF SkipBytes
  <1>3. InBounds(Read(s, count)) /\ SameData(s, Read(s, count))
        /\ (Underflowed(s) => Underflowed(Read(s, count)))
    <2>1. CASE RemainingBytes(s) >= count
      BY <1>1, <2>1, AdvanceInBounds DEF Read
    <2>2. CASE RemainingBytes(s) < count
      <3> DEFINE t == Advance(s, RemainingBytes(s))
      <3>1. InBounds(t) /\ SameData(s, t)
        BY <1>1, AdvanceInBounds
      <3>2. InBounds(Underflow(t)) /\ SameData(t, Underflow(t)) /\ Underflowed(Underflow(t))
        BY <3>1, UnderflowInBounds
      <3>3. Read(s, count) = Underflow(t)
        BY <1>1, <2>2 DEF Read
      <3> QED
        BY <3>1, <3>2, <3>3 DEF SameData
    <2> QED
      BY <1>1, <2>1, <2>2
  <1>4. InBounds(ReadString(s)) /\ SameData(s, ReadString(s))
        /\ (Underflowed(s) => Underflowed(ReadString(s)))
    BY <1>1, StringLengthInBounds, AdvanceInBounds, UnderflowInBounds DEF ReadString
  <1> QED
    BY <1>2, <1>3, <1>4

-----------------------------------------------------------------------------
\* A datagram that parses as a command holds the header of one.
LEMMA CommandHoldsHeader ==
    ASSUME NEW data \in Seq(Byte), AdminCommandParses(data)
    PROVE  Len(data) >= Len(AdminCommandHeader)
  <1> DEFINE header == SkipBytes(Open(data), Len(AdminCommandHeader))
             word == Read(header, WordLength)
             hash == SkipBytes(word, AdminHashLength)
  <1>1. Len(AdminCommandHeader) \in Nat /\ WordLength \in Nat /\ AdminHashLength \in Nat
    BY SocketAssumption DEF HeaderOf, Kind
  <1>2. InBounds(Open(data)) /\ RemainingBytes(Open(data)) = Len(data) /\ Len(data) \in Nat
    BY OpenInBounds DEF RemainingBytes
  <1>3. InBounds(header)
    BY <1>1, <1>2, StreamStaysInBounds
  <1>4. InBounds(word) /\ (Underflowed(header) => Underflowed(word))
    BY <1>1, <1>3, StreamStaysInBounds
  <1>5. InBounds(hash) /\ (Underflowed(word) => Underflowed(hash))
    BY <1>1, <1>4, StreamStaysInBounds
  <1>6. Underflowed(hash) => Underflowed(ReadString(hash))
    BY <1>1, <1>5, StreamStaysInBounds
  <1>7. ~Underflowed(header)
    BY <1>4, <1>5, <1>6 DEF AdminCommandParses
  <1>8. Len(data) < Len(AdminCommandHeader) => Underflowed(header)
    BY <1>1, <1>2, UnderflowInBounds DEF SkipBytes
  <1> QED
    BY <1>1, <1>2, <1>7, <1>8

\* What a datagram is handled as, but for the admin challenge, has its header
\* within the size of the buffer.
LEMMA OutcomeHoldsHeader ==
    ASSUME NEW buffer \in [1 .. Capacity -> Byte], NEW count \in 0 .. Capacity,
           NEW kind \in Outcomes(buffer, count), kind # "ignored", kind # "adminchallenge"
    PROVE  /\ kind \in Kind
           /\ Len(HeaderOf[kind]) <= count
           /\ StartsWith(buffer, HeaderOf[kind])
  <1> DEFINE data == [i \in 1 .. count |-> buffer[i]]
  <1>1. PICK j \in Matching(buffer) :
          kind = Branches[j] /\ ValidSize(count) /\ Parses(Branches[j], data)
    BY DEF Outcomes
  <1>2. j \in 1 .. 5 /\ kind \in Kind /\ StartsWith(buffer, HeaderOf[kind])
    BY <1>1 DEF Matching, Branches, Kind
  <1>3. data \in Seq(Byte) /\ Len(data) = count /\ count >= 2
    <2>1. count \in Nat /\ \A i \in 1 .. count : buffer[i] \in Byte
      BY SocketAssumption
    <2> QED
      BY <1>1, <2>1 DEF ValidSize
  <1>4. Len(HeaderOf["query"]) <= 2 /\ Len(HeaderOf["challenge"]) <= 2 /\ Len(HeaderOf["append"]) <= 2
    <2>1. /\ HeaderOf["query"] = ClientQueryHeader
          /\ HeaderOf["challenge"] = ServerChallengeHeader
          /\ HeaderOf["append"] = ServerAppendHeader
      BY DEF HeaderOf
    <2>2. Len(ClientQueryHeader) <= 2 /\ Len(ServerChallengeHeader) = 2 /\ Len(ServerAppendHeader) = 2
      BY SocketAssumption
    <2> QED
      BY <2>1, <2>2
  <1>5. \A k \in Kind : Len(HeaderOf[k]) \in Nat
    BY SocketAssumption
  <1>6. CASE kind = "admincommand"
    <2>1. AdminCommandParses(data)
      BY <1>1, <1>6 DEF Parses
    <2> QED
      BY <1>2, <1>3, <1>6, <2>1, CommandHoldsHeader DEF HeaderOf
  <1>7. CASE kind \in {"query", "challenge", "append"}
    BY <1>2, <1>3, <1>4, <1>5, <1>7
  <1> QED
    BY <1>2, <1>6, <1>7 DEF Kind

-----------------------------------------------------------------------------
\* The vector holds the last datagram as far as it fits.
HoldsReceived ==
    /\ size = BytesCount(received)
    /\ \A i \in 1 .. size : m_dataBuffer[i] = received[i]

SocketInv == SocketTypeOK /\ HoldsReceived /\ StaleFromPrevious /\ HeaderIsOwn

\* A reception overwrites as much as it brings, keeps the rest of the datagram
\* before it, and zeroes all else.
LEMMA ReceptionInv ==
    ASSUME SocketInv, NEW datagram \in Datagram, RecvCallback(datagram)
    PROVE  SocketInv'
  <1> DEFINE count == BytesCount(datagram)
  <1>1. /\ datagram \in Seq(Byte) /\ Len(datagram) \in Nat /\ Capacity \in Nat
        /\ \A i \in 1 .. Len(datagram) : datagram[i] \in Byte
    BY SocketAssumption
  <1>2. count \in 0 .. Capacity /\ count <= Len(datagram)
        /\ (count = Len(datagram) \/ count = Capacity)
    BY <1>1 DEF BytesCount
  <1>3. /\ m_dataBuffer' = [i \in 1 .. Capacity |->
              IF i <= count THEN datagram[i] ELSE IF i <= size THEN m_dataBuffer[i] ELSE NUL]
        /\ size' = count /\ received' = datagram /\ previous' = received
    BY DEF RecvCallback, RecvFrom
  <1>4. m_dataBuffer' \in [1 .. Capacity -> Byte]
    <2> SUFFICES ASSUME NEW i \in 1 .. Capacity
                 PROVE  (IF i <= count THEN datagram[i]
                         ELSE IF i <= size THEN m_dataBuffer[i] ELSE NUL) \in Byte
      BY <1>3
    <2>1. m_dataBuffer[i] \in Byte /\ NUL \in Byte
      BY ByteAssumption DEF SocketInv, SocketTypeOK
    <2>2. i <= count => i \in 1 .. Len(datagram)
      BY <1>1, <1>2
    <2> QED
      BY <1>1, <2>1, <2>2
  <1>5. handled' \in Outcomes(m_dataBuffer', size')
    BY DEF RecvCallback
  <1>6. handled' \in Kind \cup {"ignored"}
    BY <1>2, <1>3, <1>4, <1>5, OutcomeHoldsHeader DEF Kind
  <1>7. SocketTypeOK'
    BY <1>1, <1>2, <1>3, <1>4, <1>6 DEF SocketInv, SocketTypeOK
  <1>8. HoldsReceived'
    BY <1>1, <1>2, <1>3 DEF HoldsReceived
  <1>9. StaleFromPrevious'
    <2> SUFFICES ASSUME NEW i \in 1 .. Capacity
                 PROVE  \/ i <= Len(datagram) /\ m_dataBuffer'[i] = datagram[i]
                        \/ /\ i > Len(datagram)
                           /\ \/ i <= Len(received) /\ m_dataBuffer'[i] = received[i]
                              \/ m_dataBuffer'[i] = NUL
      BY <1>3 DEF StaleFromPrevious
    <2>1. CASE i <= count
      BY <1>1, <1>2, <1>3, <2>1
    <2>2. CASE i > count /\ i <= size
      <3>1. i > Len(datagram) /\ m_dataBuffer'[i] = m_dataBuffer[i]
        BY <1>1, <1>2, <1>3, <2>2
      <3>2. size \in 0 .. Capacity /\ size = BytesCount(received) /\ Len(received) \in Nat
        BY DEF SocketInv, SocketTypeOK, HoldsReceived
      <3>3. size <= Len(received)
        BY <1>1, <3>2 DEF BytesCount
      <3>4. m_dataBuffer[i] = received[i]
        BY <2>2, <3>2 DEF SocketInv, HoldsReceived
      <3> QED
        BY <2>2, <3>1, <3>2, <3>3, <3>4
    <2>3. CASE i > count /\ i > size
      <3>1. i > Len(datagram) /\ m_dataBuffer'[i] = NUL
        <4>1. size \in 0 .. Capacity
          BY DEF SocketInv, SocketTypeOK
        <4> QED
          BY <1>1, <1>2, <1>3, <2>3, <4>1
      <3> QED
        BY <3>1
    <2> QED
      <3>1. count \in Nat /\ size \in Nat
        BY <1>1, <1>2 DEF SocketInv, SocketTypeOK
      <3> QED
        BY <2>1, <2>2, <2>3, <3>1
  <1>10. HeaderIsOwn'
    <2> SUFFICES ASSUME handled' \notin {"ignored", "adminchallenge"}
                 PROVE  /\ Len(datagram) >= Len(HeaderOf[handled'])
                        /\ \A i \in 1 .. Len(HeaderOf[handled']) :
                              datagram[i] = HeaderOf[handled'][i]
      BY <1>3 DEF HeaderIsOwn
    <2>1. /\ handled' \in Kind
          /\ Len(HeaderOf[handled']) <= count
          /\ StartsWith(m_dataBuffer', HeaderOf[handled'])
      BY <1>2, <1>3, <1>4, <1>5, OutcomeHoldsHeader
    <2>2. Len(HeaderOf[handled']) \in Nat
      BY <2>1, SocketAssumption
    <2> DEFINE L == Len(HeaderOf[handled'])
    <2>3. ASSUME NEW i \in 1 .. L PROVE datagram[i] = HeaderOf[handled'][i]
      <3>1. i \in 1 .. Capacity /\ i <= count
        BY <1>1, <1>2, <2>1, <2>2, <2>3
      <3>2. m_dataBuffer'[i] = datagram[i]
        BY <1>3, <3>1
      <3> QED
        BY <2>1, <2>3, <3>2 DEF StartsWith
    <2> QED
      BY <1>1, <1>2, <2>1, <2>2, <2>3
  <1> QED
    BY <1>7, <1>8, <1>9, <1>10 DEF SocketInv

\* Every reception (socket.cpp:91-128) keeps the buffer's invariant: its size is the last
\* datagram's, and what lies behind is of the one before or zero.
THEOREM SocketInvariance == SocketSpec => []SocketInv
  <1>1. SocketInit => SocketInv
    <2> SUFFICES ASSUME SocketInit PROVE SocketInv
      OBVIOUS
    <2>1. /\ Capacity \in Nat /\ size = Capacity /\ handled = "ignored"
          /\ m_dataBuffer = [i \in 1 .. Capacity |-> NUL]
          /\ received = [i \in 1 .. Capacity |-> NUL] /\ previous = <<>>
      BY SocketAssumption DEF SocketInit
    <2>2. received \in Seq(Byte) /\ Len(received) = Capacity /\ previous \in Seq(Byte)
      BY <2>1, ByteAssumption
    <2>3. SocketTypeOK
      BY <2>1, <2>2, ByteAssumption DEF SocketTypeOK
    <2>4. HoldsReceived /\ StaleFromPrevious /\ HeaderIsOwn
      BY <2>1, <2>2 DEF HoldsReceived, StaleFromPrevious, HeaderIsOwn, BytesCount
    <2> QED
      BY <2>3, <2>4 DEF SocketInv
  <1>2. SocketInv /\ [SocketNext]_socketVars => SocketInv'
    <2> SUFFICES ASSUME SocketInv, [SocketNext]_socketVars PROVE SocketInv'
      OBVIOUS
    <2>1. CASE SocketNext
      BY <2>1, ReceptionInv DEF SocketNext
    <2>2. CASE UNCHANGED socketVars
      BY <2>2 DEF socketVars, SocketInv, SocketTypeOK, HoldsReceived, StaleFromPrevious,
                  HeaderIsOwn
    <2> QED
      BY <2>1, <2>2
  <1> QED
    BY <1>1, <1>2, PTL DEF SocketSpec

\* Nothing of a datagram outlives the next reception (socket.cpp:89-129).
THEOREM OnlyPreviousIsStale == SocketSpec => []StaleFromPrevious
  <1>1. SocketInv => StaleFromPrevious
    BY DEF SocketInv
  <1> QED
    BY <1>1, SocketInvariance, PTL

\* No request that is parsed borrows its header from an earlier datagram
\* (request_handler.cpp:47-107), whatever the headers and the capacity are.
THEOREM HeadersAreOwn == SocketSpec => []HeaderIsOwn
  <1>1. SocketInv => HeaderIsOwn
    BY DEF SocketInv
  <1> QED
    BY <1>1, SocketInvariance, PTL
=============================================================================
