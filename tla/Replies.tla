------------------------------ MODULE Replies -------------------------------
(* The bytes of what the master server sends: the records of RequestHandler's *)
(* sent, serialised (packet_types/).  Texts are so many bytes; values that   *)
(* are only echoed may be there or not.                                      *)
EXTENDS EventLoop, BinaryOutputStream

CONSTANTS AddressSpan,   \* the address bytes of each host
          TextLength     \* how long NetAddress::ToString of each host is

\* INET6_ADDRSTRLEN, with the terminator.
LongestText == 46

\* The bytes of an in_addr and of an in6_addr.
AddressLength(host) == IF FamilyOf[host] = "IPv6" THEN 16 ELSE 4

ASSUME RepliesAssumption ==
    /\ AddressSpan \in [Host -> Seq(0 .. 255)]
    /\ \A h \in Host : Len(AddressSpan[h]) = AddressLength(h)
    /\ TextLength \in [Host -> 1 .. LongestText - 1]
    /\ \A p \in Port : p < 65536

\* The bytes of an address and its port in a list, and how many they are.
AddressBytes(a) == AddressSpan[a.host] \o <<a.port \div 256, a.port % 256>>
SizeOf(a) == AddressLength(a.host) + 2

\* The null address, which stands for the end of a list.
NullBytes(size) == [i \in 1 .. size |-> 0]

\* No datagram comes from the unspecified address and port zero.
ASSUME SourceAssumption == \A a \in GameServer : AddressBytes(a) # NullBytes(SizeOf(a))

\* Mutated form of BufferSize.
BufferSizeHalf == 32

\* uint8_t buffer[64], of every reply but the two that have a vector.
BufferSize == 64

\* Bytes whose values nothing depends on; they are not zero.
Text(length) == [i \in 1 .. length |-> 255]
HeaderLength == [challenge |-> 6, adminchallenge |-> 18, servers |-> 6, nat |-> 6, info |-> 9]
Header(type) == Text(HeaderLength[type])
Word == Text(4)

\* Decimal digits of a port.
Digits(port) == 1 + Cardinality({power \in {10, 100, 1000, 10000} : port >= power})

-----------------------------------------------------------------------------
\* ServerChallengeResponse::Serialize
SerializeChallenge(echoes) ==
    LET answer == WriteBytes(WriteBytes(OpenFixed(BufferSize), Header("challenge")), Word)
    IN  IF echoes THEN WriteBytes(answer, Word) ELSE answer

\* AdminChallengeResponse::Serialize
SerializeAdminChallenge ==
    WriteBytes(WriteBytes(WriteBytes(OpenFixed(BufferSize), Header("adminchallenge")), Word), Word)

\* ServerNatAnnounce::Serialize: the address as text, a colon, and the port.
AnnouncedText(client) == TextLength[client.host] + 1 + Digits(client.port)
SerializeNatAnnounce(client) ==
    WriteBytes(WriteBytes(OpenFixed(BufferSize), Header("nat")), Text(AnnouncedText(client)))

\* ClientQueryResponse::Serialize: the header, the key if the request had one,
\* the servers in the order of the map, and a null address.
StartOfList(keyed) ==
    LET header == WriteBytes(OpenDynamic, Header("servers"))
    IN  IF keyed THEN WriteByte(WriteBytes(WriteByte(header, 127, 1), Word), 0, 1) ELSE header
EndMarkerLength == 6
SerializeServers(order, keyed) ==
    LET written[n \in 0 .. Len(order)] ==
            IF n = 0 THEN StartOfList(keyed)
            ELSE WriteNetAddress(written[n - 1], AddressSpan[order[n].host], order[n].port)
    IN  WriteByte(written[Len(order)], 0, EndMarkerLength)

-----------------------------------------------------------------------------
\* The messages of SendFakeServerInfo, InfostringData::ToString standing for all
\* the keys of one.
InfoMessages == 8
InfoText(i) == <<i>>

\* Mutated form of Cleared.
ClearedNever(s) == s

\* data.clear(): the stream writes at the end of the vector, and that is its start again.
Cleared(s) == [s EXCEPT !.written = <<>>]

\* One stream over one vector serves all the messages; each is sent as soon as it is written.
InfoStream[i \in 0 .. InfoMessages] ==
    IF i = 0 THEN OpenDynamic
    ELSE WriteBytes(WriteBytes(Cleared(InfoStream[i - 1]), Header("info")), InfoText(i))

-----------------------------------------------------------------------------
\* WriteBytes drops what does not fit without a word, and every Serialize goes
\* on and sends the rest; yet no reply is cut: the fixed buffer holds the longest
\* of them, the announcement of a client with an IPv6 address of 45 characters
\* and a port of five digits (request_handler.cpp:261).
RepliesWhole ==
    \A d \in sent :
        /\ d.type = "challenge" => \A echoes \in BOOLEAN :
             GetLength(SerializeChallenge(echoes)) = 10 + (IF echoes THEN 4 ELSE 0)
        /\ d.type = "adminchallenge" => GetLength(SerializeAdminChallenge) = 26
        /\ d.type = "nat" =>
             GetLength(SerializeNatAnnounce(d.client)) = 6 + AnnouncedText(d.client)

\* An outdated client gets every message for itself: the stream and the vector
\* that it shares with the messages before leave nothing of them in it
\* (request_handler.cpp:229-247).
InfoMessagesOwn ==
    \A d \in sent : d.type = "info" =>
        \A i \in 1 .. InfoMessages : InfoStream[i].written = Header("info") \o InfoText(i)

\* The addresses in the bytes of a list: as many as there are whole ones before
\* a null address or the end.
AddressesIn(bytes, size) ==
    LET Part(n) == SubSeq(bytes, (n - 1) * size + 1, n * size)
        whole == 1 .. Len(bytes) \div size
    IN  {Part(n) : n \in {k \in whole : \A j \in 1 .. k : Part(j) # NullBytes(size)}}

\* With or without a key, in whatever order the map has them.
ReadsBack(servers, client) ==
    \A keyed \in BOOLEAN, order \in Bijection(1 .. Cardinality(servers), servers) :
        LET bytes == SerializeServers(order, keyed).written
            list == SubSeq(bytes, GetLength(StartOfList(keyed)) + 1, Len(bytes))
        IN  AddressesIn(list, SizeOf(client)) = {AddressBytes(a) : a \in servers}

\* A list has no count of its addresses: a client of either family finds the
\* servers listed, their ports high byte first, and no other address.  The end
\* marker (client_query_response.cpp:70) is a null address in a list of IPv4
\* addresses, and too short for an address in a list of IPv6 ones.
ListReadsBack == \A d \in sent : d.type = "servers" => ReadsBack(d.servers, d.to)
=============================================================================
