------------------------------- MODULE Socket -------------------------------
(* One socket's receive buffer and what a datagram in it is taken for        *)
(* (socket.cpp, the dispatch of request_handler.cpp, Parse of packet_types/).*)
(* The buffer is reused: a datagram shorter than the one before leaves the   *)
(* end of that one in place, and headers are compared with the storage,      *)
(* whatever the size of the datagram is.                                     *)
EXTENDS BinaryInputStream

CONSTANTS Capacity,                 \* of m_dataBuffer
          ClientQueryHeader, ServerChallengeHeader, ServerAppendHeader,
          AdminChallengeHeader, AdminCommandHeader,
          WordLength,               \* sizeof(uint32_t)
          AdminHashLength,          \* admin_hash_length
          Datagram                  \* what arrives

Kind == {"query", "challenge", "append", "adminchallenge", "admincommand"}

HeaderOf == [query |-> ClientQueryHeader, challenge |-> ServerChallengeHeader,
             append |-> ServerAppendHeader, adminchallenge |-> AdminChallengeHeader,
             admincommand |-> AdminCommandHeader]

ASSUME SocketAssumption ==
    /\ Capacity \in Nat /\ WordLength \in Nat /\ AdminHashLength \in Nat
    /\ \A kind \in Kind : HeaderOf[kind] \in Seq(Byte) /\ Len(HeaderOf[kind]) <= Capacity
    /\ Len(ClientQueryHeader) <= 2
    /\ Len(ServerChallengeHeader) = 2 /\ Len(ServerAppendHeader) = 2
    /\ Datagram \subseteq Seq(Byte)

VARIABLES m_dataBuffer,   \* the storage of the vector, up to its capacity
          size,           \* the size of the vector
          handled,        \* the request the last datagram was handled as
          received,       \* history: the last datagram
          previous        \* history: the datagram before it

socketVars == <<m_dataBuffer, size, handled, received, previous>>

SocketTypeOK ==
    /\ m_dataBuffer \in [1 .. Capacity -> Byte]
    /\ size \in 0 .. Capacity
    /\ handled \in Kind \cup {"ignored"}
    /\ received \in Seq(Byte) /\ previous \in Seq(Byte)

\* The constructor: a buffer of zeros, as if a datagram of zeros had come.
SocketInit ==
    /\ m_dataBuffer = [i \in 1 .. Capacity |-> NUL]
    /\ size = Capacity
    /\ handled = "ignored"
    /\ received = [i \in 1 .. Capacity |-> NUL]
    /\ previous = <<>>

-----------------------------------------------------------------------------
\* recvfrom drops what does not fit.
BytesCount(datagram) == IF Len(datagram) < Capacity THEN Len(datagram) ELSE Capacity

\* Mutated form of RecvFrom: the buffer is not resized to its capacity first.
RecvFromUnresized(datagram) ==
    /\ m_dataBuffer' = [i \in 1 .. Capacity |->
           IF i <= BytesCount(datagram) THEN datagram[i] ELSE m_dataBuffer[i]]
    /\ size' = BytesCount(datagram)

\* Resizing to the capacity zeroes what lies beyond the last datagram; the
\* resize to the new size writes nothing.
RecvFrom(datagram) ==
    /\ m_dataBuffer' = [i \in 1 .. Capacity |->
           IF i <= BytesCount(datagram) THEN datagram[i]
           ELSE IF i <= size THEN m_dataBuffer[i] ELSE NUL]
    /\ size' = BytesCount(datagram)

-----------------------------------------------------------------------------
\* memcmp with the storage, not with the vector.
StartsWith(buffer, header) == \A i \in 1 .. Len(header) : buffer[i] = header[i]

\* The branches of HandleRequest in their order.
Branches == <<"query", "challenge", "append", "adminchallenge", "admincommand">>
Matching(buffer) == {i \in DOMAIN Branches : StartsWith(buffer, HeaderOf[Branches[i]])}

\* ClientQueryRequest::Parse as far as the stream goes: an address to skip and
\* a string behind it.
ClientQueryParses(data) ==
    LET address == SkipBytes(Open(data), 2)
        info == ReadString(address)
    IN  ~EndOfFile(address) /\ ~EndOfFile(info)

ServerAppendParses(data) == ~EndOfFile(SkipBytes(Open(data), 2))

\* Mutated form of AdminCommandParses: underflows are not looked at.
AdminCommandParsesAnyway(data) == TRUE

\* AdminCommandRequest::Parse: every read is tried, the flag is looked at last.
AdminCommandParses(data) ==
    LET header == SkipBytes(Open(data), Len(AdminCommandHeader))
        hash == SkipBytes(Read(header, WordLength), AdminHashLength)
    IN  ~Underflowed(ReadString(hash))

Parses(kind, data) ==
    /\ kind = "query" => ClientQueryParses(data)
    /\ kind = "append" => ServerAppendParses(data)
    /\ kind = "admincommand" => AdminCommandParses(data)

\* HandlePacket ignores a datagram of less than two bytes.
ValidSize(count) == count >= 2

\* What a datagram may be handled as: the first branch that matches, if its
\* request parses; its contents and the state of the server decide the rest.
Outcomes(buffer, count) ==
    LET data == [i \in 1 .. count |-> buffer[i]] IN
    {"ignored"} \cup
      {Branches[i] : i \in {j \in Matching(buffer) :
          /\ ValidSize(count)
          /\ \A k \in Matching(buffer) : j <= k
          /\ Parses(Branches[j], data)}}

RecvCallback(datagram) ==
    /\ RecvFrom(datagram)
    /\ handled' \in Outcomes(m_dataBuffer', size')
    /\ received' = datagram
    /\ previous' = received

SocketNext == \E datagram \in Datagram : RecvCallback(datagram)

SocketSpec == SocketInit /\ [][SocketNext]_socketVars

-----------------------------------------------------------------------------
\* What a comparison beyond the datagram can see is the end of the one before
\* it and zeros: nothing of an earlier datagram survives two receptions.
StaleFromPrevious ==
    \A i \in 1 .. Capacity :
        \/ i <= Len(received) /\ m_dataBuffer[i] = received[i]
        \/ /\ i > Len(received)
           /\ \/ i <= Len(previous) /\ m_dataBuffer[i] = previous[i]
              \/ m_dataBuffer[i] = NUL

\* Apart from the admin challenge, which has nothing to parse, a datagram that
\* is handled has the whole header in its own bytes, however much of a header
\* the datagram before it has left in the buffer (request_handler.cpp:47-107).
HeaderIsOwn ==
    handled \notin {"ignored", "adminchallenge"} =>
        /\ Len(received) >= Len(HeaderOf[handled])
        /\ \A i \in 1 .. Len(HeaderOf[handled]) : received[i] = HeaderOf[handled][i]

\* "invalid size packet, ignore it" (request_handler.cpp:49): a datagram that
\* is shorter than the header of a request is not handled as that request.
InvalidSizeIgnored ==
    handled # "ignored" => Len(received) >= Len(HeaderOf[handled])
=============================================================================
