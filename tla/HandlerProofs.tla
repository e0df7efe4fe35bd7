--------------------------- MODULE HandlerProofs ----------------------------
(* Proofs about what single handlers do: the answers to queries, the bytes   *)
(* of what is sent, and the authority behind a ban.                          *)
EXTENDS EventLoopProofs, Replies, NaturalLemmas, SequenceTheorems

\* Datagrams of which none is an answer to a query or an announcement.
Harmless(datagrams) == \A d \in datagrams : d.type # "nat" /\ d.type # "servers"

\* Such datagrams satisfy the property.
LEMMA HarmlessMatches ==
    ASSUME Harmless(sent')
    PROVE  NatAnnounceMatchesReply'
  BY DEF Harmless, NatAnnounceMatchesReply

\* The answer of SendServers names the servers that it announces the client to.
LEMMA SendServersMatches ==
    ASSUME NEW src, NEW request \in Queries, SendServers(src, request)
    PROVE  NatAnnounceMatchesReply'
  <1> DEFINE found == {a \in DOMAIN m_serversMap : Matches(a, src, request)}
             announced == ServersToAnnounce(found, request)
             reply == QueryResponse(src, found, request.nat)
  <1>1. sent' = {reply} \cup {NatAnnounce(a, src) : a \in announced}
    BY DEF SendServers
  <1>2. request.nat \in BOOLEAN
    BY InputAssumption DEF ClientQueryRequest
  <1>3. announced = IF request.nat THEN found ELSE {}
    BY DEF ServersToAnnounce
  <1>4. /\ reply.type = "servers" /\ reply.to = src
        /\ reply.servers = found /\ reply.nat = request.nat
    BY DEF QueryResponse
  <1>5. \A a : NatAnnounce(a, src).type = "nat" /\ NatAnnounce(a, src).to = a
                /\ NatAnnounce(a, src).client = src
    BY DEF NatAnnounce
  <1>6. ASSUME NEW d \in sent', d.type = "nat"
        PROVE  \E r \in sent' : r.type = "servers" /\ r.nat /\ r.to = d.client /\ d.to \in r.servers
    <2>1. PICK a \in announced : d = NatAnnounce(a, src)
      BY <1>1, <1>4, <1>6
    <2>2. request.nat /\ a \in found
      BY <1>2, <1>3, <2>1
    <2>3. reply \in sent' /\ reply.nat /\ reply.to = d.client /\ d.to \in reply.servers
      BY <1>1, <1>4, <1>5, <2>1, <2>2
    <2> QED
      BY <1>4, <2>3
  <1>7. ASSUME NEW d \in sent', d.type = "servers"
        PROVE  \A a \in d.servers :
                  /\ GetAddressFamily(a) = GetAddressFamily(d.to)
                  /\ d.nat => NatAnnounce(a, d.to) \in sent'
    <2>1. d = reply
      BY <1>1, <1>5, <1>7
    <2>2. SUFFICES ASSUME NEW a \in found
                   PROVE  /\ GetAddressFamily(a) = GetAddressFamily(src)
                          /\ request.nat => NatAnnounce(a, src) \in sent'
      BY <1>4, <2>1
    <2>3. GetAddressFamily(a) = GetAddressFamily(src)
      BY <2>2 DEF Matches
    <2>4. request.nat => a \in announced
      BY <1>3, <2>2
    <2> QED
      BY <1>1, <2>3, <2>4
  <1> QED
    BY <1>6, <1>7 DEF NatAnnounceMatchesReply, GetAddressFamily

\* No other handler sends servers or announcements.
LEMMA PacketMatches ==
    ASSUME NEW src, HandlePacket(src)
    PROVE  NatAnnounceMatchesReply'
  <1>1. CASE \E request \in Queries : ProcessClientQuery(src, request)
    <2>1. PICK request \in Queries : ProcessClientQuery(src, request)
      BY <1>1
    <2>2. CASE SendServers(src, request)
      BY <2>2, SendServersMatches
    <2>3. CASE SendFakeServerInfo(src, request)
      BY <2>3, HarmlessMatches DEF SendFakeServerInfo, FakeServerInfo, Harmless
    <2> QED
      BY <2>1, <2>2, <2>3 DEF ProcessClientQuery
  <1>2. CASE Dropped
    BY <1>2, HarmlessMatches DEF Dropped, Harmless
  <1>3. CASE HandleChallengeRequest(src)
    BY <1>2, <1>3, HarmlessMatches
       DEF HandleChallengeRequest, ProcessChallengeRequest, ChallengeResponse, Harmless
  <1>4. CASE \E request \in AppendRequests : HandleAppendRequest(src, request)
    BY <1>2, <1>4, HarmlessMatches DEF HandleAppendRequest, ProcessAddServerRequest, Harmless
  <1>5. CASE ProcessAdminChallengeRequest(src)
    BY <1>2, <1>5, HarmlessMatches
       DEF ProcessAdminChallengeRequest, AdminChallengeResponse, Harmless
  <1>6. CASE \E request \in Commands : HandleAdminCommand(src, request)
    BY <1>2, <1>6, HarmlessMatches DEF HandleAdminCommand, ProcessAdminCommandRequest, Harmless
  <1> QED
    BY <1>1, <1>2, <1>3, <1>4, <1>5, <1>6 DEF HandlePacket, HandleRequest

\* A client is announced to exactly the servers it was sent, all of its family
\* (client_query_response.cpp:42-66, request_handler.cpp:130-148, 259-270).
THEOREM AnnouncementsMatch == Spec => []NatAnnounceMatchesReply
  <1>1. Init => NatAnnounceMatchesReply
    BY DEF Init, HandlerInit, NatAnnounceMatchesReply
  <1>2. NatAnnounceMatchesReply /\ [Next]_vars => NatAnnounceMatchesReply'
    <2> SUFFICES ASSUME NatAnnounceMatchesReply, [Next]_vars
                 PROVE  NatAnnounceMatchesReply'
      OBVIOUS
    <2>1. ASSUME NEW family, RecvCallback(family) PROVE NatAnnounceMatchesReply'
      BY <2>1, PacketMatches DEF RecvCallback
    <2>2. CASE sent' = {}
      BY <2>2, HarmlessMatches DEF Harmless
    <2>3. CASE UNCHANGED sent
      BY <2>3 DEF NatAnnounceMatchesReply, GetAddressFamily, NatAnnounce
    <2> QED
      BY <2>1, <2>2, <2>3
         DEF Next, vars, handlerVars, RecvInetCallback, RecvInet6Callback,
             CleanupTimerCallback, Tick, SignalCallback, RecvFromThrows,
             HandlePacketThrows, HandlePacketAborts, End, Restart
  <1> QED
    BY <1>1, <1>2, PTL DEF Spec

-----------------------------------------------------------------------------
\* A fixed buffer with so many bytes in it.
Holds(s, length) ==
    /\ s \in [written : Seq(0 .. 255), bufferSize : Nat, dynamic : BOOLEAN]
    /\ s.bufferSize = BufferSize
    /\ GetLength(s) = length

\* The size, for the arithmetic.
LEMMA BufferIs64 == BufferSize = 64
  BY DEF BufferSize

\* It is empty at first.
LEMMA OpenHolds == Holds(OpenFixed(BufferSize), 0)
  <1>1. OpenFixed(BufferSize) =
          [written |-> <<>>, bufferSize |-> BufferSize, dynamic |-> FALSE]
    BY DEF OpenFixed
  <1>2. <<>> \in Seq(0 .. 255) /\ Len(<<>>) = 0 /\ BufferSize \in Nat
    BY DEF BufferSize
  <1> QED
    BY <1>1, <1>2 DEF Holds, GetLength

\* A text that fits is written as a whole.
LEMMA WriteHolds ==
    ASSUME NEW s, NEW n \in Nat, NEW m \in Nat, Holds(s, n), n + m <= BufferSize
    PROVE  Holds(WriteBytes(s, Text(m)), n + m)
  <1>1. Text(m) \in Seq(0 .. 255) /\ Len(Text(m)) = m
    BY DEF Text
  <1>2. s.written \in Seq(0 .. 255) /\ Len(s.written) = n
    BY DEF Holds, GetLength
  <1> DEFINE text == Text(m)
             longer == s.written \o text
  <1>3. longer \in Seq(0 .. 255) /\ Len(longer) = n + m
    BY <1>1, <1>2
  <1>4. WriteBytes(s, Text(m)) = [s EXCEPT !.written = longer]
    <2>1. GetLength(s) + Len(Text(m)) <= s.bufferSize
      BY <1>1 DEF Holds
    <2> QED
      BY <2>1 DEF WriteBytes
  <1> HIDE DEF longer
  <1>5. [s EXCEPT !.written = longer] \in
          [written : Seq(0 .. 255), bufferSize : Nat, dynamic : BOOLEAN]
    BY <1>3 DEF Holds
  <1>6. /\ [s EXCEPT !.written = longer].written = longer
        /\ [s EXCEPT !.written = longer].bufferSize = BufferSize
    BY DEF Holds
  <1> QED
    BY <1>3, <1>4, <1>5, <1>6 DEF Holds, GetLength

\* A port has five digits at most.
LEMMA DigitsBound == \A port : Digits(port) \in 1 .. 5
  <1> SUFFICES ASSUME NEW port PROVE Digits(port) \in 1 .. 5
    OBVIOUS
  <1> DEFINE powers == {10, 100, 1000, 10000}
             reached == {power \in powers : port >= power}
  <1>1. IsFiniteSet(powers) /\ Cardinality(powers) <= 4
    <2>1. IsFiniteSet({10}) /\ Cardinality({10}) = 1
      BY FS_Singleton
    <2> DEFINE two == {10} \cup {100}
               three == two \cup {1000}
    <2>2. IsFiniteSet(two) /\ Cardinality(two) \in Nat /\ Cardinality(two) <= 2
      <3>1. IsFiniteSet(two) /\ Cardinality(two) <= 2
        BY <2>1, FS_AddElement
      <3> QED
        BY <3>1, FS_CardinalityType
    <2>3. IsFiniteSet(three) /\ Cardinality(three) \in Nat /\ Cardinality(three) <= 3
      <3> HIDE DEF two
      <3>1. IsFiniteSet(three) /\ Cardinality(three) <= 3
        BY <2>2, FS_AddElement
      <3> QED
        BY <3>1, FS_CardinalityType
    <2>4. IsFiniteSet(three \cup {10000}) /\ Cardinality(three \cup {10000}) <= 4
      <3> HIDE DEF three
      <3> QED
        BY <2>3, FS_AddElement
    <2> QED
      <3>1. powers = three \cup {10000}
        OBVIOUS
      <3> QED
        BY <2>4, <3>1
  <1>2. Cardinality(powers) \in Nat
    BY <1>1, FS_CardinalityType
  <1>3. reached \in SUBSET powers
    OBVIOUS
  <1> HIDE DEF powers, reached
  <1>4. IsFiniteSet(reached) /\ Cardinality(reached) <= 4
    BY <1>1, <1>2, <1>3, FS_Subset, FS_CardinalityType
  <1>5. Cardinality(reached) \in Nat
    BY <1>4, FS_CardinalityType
  <1> QED
    BY <1>4, <1>5 DEF Digits, reached, powers

\* No reply with a buffer of fixed size is cut, whatever the lengths of the
\* addresses' texts: who is announced is somebody who was sent a list, and so
\* has an address (request_handler.cpp:179, 219, 261).
THEOREM RepliesAreWhole == Spec => []RepliesWhole
  <1>1. TypeOK /\ NatAnnounceMatchesReply => RepliesWhole
    <2> SUFFICES ASSUME TypeOK, NatAnnounceMatchesReply, NEW d \in sent
                 PROVE  /\ d.type = "challenge" => \A echoes \in BOOLEAN :
                             GetLength(SerializeChallenge(echoes)) = 10 + (IF echoes THEN 4 ELSE 0)
                        /\ d.type = "adminchallenge" => GetLength(SerializeAdminChallenge) = 26
                        /\ d.type = "nat" =>
                             GetLength(SerializeNatAnnounce(d.client)) = 6 + AnnouncedText(d.client)
      BY DEF RepliesWhole
    <2>1. ASSUME NEW echoes \in BOOLEAN
          PROVE  GetLength(SerializeChallenge(echoes)) = 10 + (IF echoes THEN 4 ELSE 0)
      <3>1. Holds(WriteBytes(OpenFixed(BufferSize), Text(6)), 6)
        BY OpenHolds, WriteHolds, BufferIs64
      <3>2. Holds(WriteBytes(WriteBytes(OpenFixed(BufferSize), Text(6)), Text(4)), 10)
        BY <3>1, WriteHolds, BufferIs64
      <3>3. Holds(WriteBytes(WriteBytes(WriteBytes(OpenFixed(BufferSize), Text(6)), Text(4)),
                             Text(4)), 14)
        BY <3>2, WriteHolds, BufferIs64
      <3> QED
        BY <3>2, <3>3 DEF SerializeChallenge, Holds, Header, HeaderLength, Word
    <2>2. GetLength(SerializeAdminChallenge) = 26
      <3>1. Holds(WriteBytes(OpenFixed(BufferSize), Text(18)), 18)
        BY OpenHolds, WriteHolds, BufferIs64
      <3>2. Holds(WriteBytes(WriteBytes(OpenFixed(BufferSize), Text(18)), Text(4)), 22)
        BY <3>1, WriteHolds, BufferIs64
      <3>3. Holds(WriteBytes(WriteBytes(WriteBytes(OpenFixed(BufferSize), Text(18)), Text(4)),
                             Text(4)), 26)
        BY <3>2, WriteHolds, BufferIs64
      <3> QED
        BY <3>3 DEF SerializeAdminChallenge, Holds, Header, HeaderLength, Word
    <2>3. ASSUME d.type = "nat"
          PROVE  GetLength(SerializeNatAnnounce(d.client)) = 6 + AnnouncedText(d.client)
      <3>1. d.client \in Address
        BY <2>3 DEF NatAnnounceMatchesReply, TypeOK, HandlerTypeOK
      <3>2. TextLength[d.client.host] \in 1 .. 45
        BY <3>1, RepliesAssumption DEF Address, LongestText
      <3>3. AnnouncedText(d.client) \in Nat /\ AnnouncedText(d.client) <= 51
        BY <3>2, DigitsBound DEF AnnouncedText
      <3>4. Holds(WriteBytes(OpenFixed(BufferSize), Text(6)), 6)
        BY OpenHolds, WriteHolds, BufferIs64
      <3>5. Holds(WriteBytes(WriteBytes(OpenFixed(BufferSize), Text(6)),
                             Text(AnnouncedText(d.client))), 6 + AnnouncedText(d.client))
        BY <3>3, <3>4, WriteHolds, BufferIs64
      <3> QED
        BY <3>5 DEF SerializeNatAnnounce, Holds, Header, HeaderLength
    <2> QED
      BY <2>1, <2>2, <2>3
  <1> QED
    BY <1>1, TypeCorrect, AnnouncementsMatch, PTL

-----------------------------------------------------------------------------
\* The challenge that stands behind a change of the ban list.
Authority(c, password, request) ==
    /\ request.master = m_adminChallengeMap[c].master
    /\ request.digest = Digest(password, m_adminChallengeMap[c].hash)
    /\ Commanded(request)

\* A handler that changes the ban list has checked a challenge and a password.
LEMMA PacketNeedsAuthority ==
    ASSUME NEW src, HandlePacket(src), m_banlist' # m_banlist
    PROVE  \E c \in DOMAIN m_adminChallengeMap, password \in Admins, request \in Commands :
              Authority(c, password, request)
  <1>1. PICK request \in Commands : HandleAdminCommand(src, request)
    BY DEF HandlePacket, HandleRequest, Dropped, ProcessClientQuery, SendServers,
           SendFakeServerInfo, HandleChallengeRequest, ProcessChallengeRequest,
           HandleAppendRequest, ProcessAddServerRequest, ProcessAdminChallengeRequest
  <1> DEFINE challenge == m_adminChallengeMap[src]
  <1>2. /\ src \in DOMAIN m_adminChallengeMap
        /\ challenge.master = request.master
        /\ HandleCommandRequest(request, challenge)
    BY <1>1 DEF HandleAdminCommand, ProcessAdminCommandRequest, Dropped, CheckAdminChallenge
  <1>3. PICK password \in Admins : Digest(password, challenge.hash) = request.digest
    BY <1>2 DEF HandleCommandRequest, Authorised
  <1>4. Commanded(request)
    BY <1>2 DEF HandleCommandRequest, HandleCommand, HandleBanCommand, HandleUnbanCommand,
                Commanded
  <1> QED
    BY <1>2, <1>3, <1>4 DEF Authority

\* No ban or unban without an administrator's digest over a challenge that was
\* handed out at most a time-out, a cleanup period and its lag ago
\* (request_handler.cpp:172-201, admin_command_handler.cpp:39-104).
THEOREM BansAreAuthorised == Spec => BanNeedsChallenge
  <1> DEFINE Justified ==
        (process' = "running" /\ m_banlist' # m_banlist) =>
            \E c \in DOMAIN m_adminChallengeMap, password \in Admins, request \in Commands :
                /\ m_adminChallengeMap[c].age
                     <= ChallengeTimeoutInterval + CleanupInterval + MaxLag
                /\ request.master = m_adminChallengeMap[c].master
                /\ request.digest = Digest(password, m_adminChallengeMap[c].hash)
                /\ Commanded(request)
  <1>1. IInv /\ [Next]_vars => [Justified]_vars
    <2> SUFFICES ASSUME IInv, Next, process' = "running", m_banlist' # m_banlist
                 PROVE  Justified
      OBVIOUS
    <2>1. PICK family : RecvCallback(family)
      BY DEF Next, RecvInetCallback, RecvInet6Callback, CleanupTimerCallback, Tick,
             SignalCallback, RecvFromThrows, HandlePacketThrows, HandlePacketAborts,
             End, Restart, handlerVars
    <2>2. PICK c \in DOMAIN m_adminChallengeMap, password \in Admins, request \in Commands :
              Authority(c, password, request)
      BY <2>1, PacketNeedsAuthority DEF RecvCallback
    <2>3. m_adminChallengeMap[c].age <= ChallengeTimeoutInterval + CleanupInterval + MaxLag
      <3>1. m_adminChallengeMap[c].age <= ChallengeTimeoutInterval + sinceCleanup
        BY DEF IInv, StalenessBound, NoOlder
      <3>2. /\ m_adminChallengeMap[c].age \in Nat
            /\ sinceCleanup \in 0 .. (CleanupInterval + MaxLag)
        BY DEF IInv, TypeOK, ListTypeOK, IsMap, AdminChallenge
      <3> QED
        BY <3>1, <3>2, ServerListAssumption, EventLoopAssumption
    <2> QED
      BY <2>2, <2>3 DEF Authority
  <1> QED
    BY <1>1, Invariance, PTL DEF Spec, BanNeedsChallenge

-----------------------------------------------------------------------------
\* Versions are ordered: of two versions exactly one is older, or they are the
\* same, a missing patch being patch 0; so a version that is accepted stays
\* accepted when it grows (version_info.cpp:30-89).
THEOREM VersionOrder ==
    ASSUME NEW u \in VersionInfo, NEW v \in VersionInfo, NEW w \in VersionInfo
    PROVE  /\ ~(Older(v, w) /\ Older(w, v))
           /\ SameVersion(v, w) <=> AtLeast(v, w) /\ AtLeast(w, v)
           /\ Older(u, v) /\ Older(v, w) => Older(u, w)
           /\ AtLeast(u, v) /\ AtLeast(v, w) => AtLeast(u, w)
  <1>1. \A x \in VersionInfo : x.major \in Nat /\ x.minor \in Nat /\ Patch(x) \in Nat
    BY VersionAssumption DEF VersionInfo, Patch
  <1> QED
    BY <1>1 DEF Older, SameVersion, AtLeast

-----------------------------------------------------------------------------
(* Streams over a vector: what is written and read back.                     *)

\* A stream over a vector that holds bytes.
Vector(bytes) == [written |-> bytes, bufferSize |-> 0, dynamic |-> TRUE]

\* It takes whatever is written.
LEMMA WriteVector ==
    ASSUME NEW bytes, NEW data
    PROVE  WriteBytes(Vector(bytes), data) = Vector(bytes \o data)
  BY DEF WriteBytes, Vector

\* The stream of one more message, when the vector is cleared before it.
LEMMA WriteInfo ==
    ASSUME NEW bytes, NEW i \in 1 .. InfoMessages
    PROVE  WriteBytes(WriteBytes(Cleared(Vector(bytes)), Header("info")), InfoText(i))
             = Vector(Header("info") \o InfoText(i))
  <1>1. Cleared(Vector(bytes)) = Vector(<<>>)
    <2>1. ASSUME NEW e PROVE [Vector(bytes) EXCEPT !.written = e] = Vector(e)
      <3>1. ASSUME NEW size, NEW dynamic
            PROVE  [[written |-> bytes, bufferSize |-> size, dynamic |-> dynamic]
                      EXCEPT !.written = e]
                     = [written |-> e, bufferSize |-> size, dynamic |-> dynamic]
        OBVIOUS
      <3> QED
        BY <3>1, Zenon DEF Vector
    <2> QED
      BY <2>1 DEF Cleared
  <1>2. <<>> \o Header("info") = Header("info")
    <2>1. Header("info") \in Seq(0 .. 255)
      BY DEF Header, HeaderLength, Text
    <2> QED
      BY <2>1, ConcatEmptySeq
  <1> QED
    BY <1>1, <1>2, WriteVector

\* What the streams of the messages hold, one after another.
InfoVector(i) == IF i = 0 THEN Vector(<<>>) ELSE Vector(Header("info") \o InfoText(i))

\* It satisfies the definition of InfoStream,
LEMMA InfoVectorIsOne ==
    LET streams == [i \in 0 .. InfoMessages |-> InfoVector(i)]
    IN  streams = [i \in 0 .. InfoMessages |->
                     IF i = 0 THEN OpenDynamic
                     ELSE WriteBytes(WriteBytes(Cleared(streams[i - 1]), Header("info")),
                                     InfoText(i))]
  <1> DEFINE streams == [i \in 0 .. InfoMessages |-> InfoVector(i)]
  <1>1. InfoVector(0) = OpenDynamic
    BY DEF InfoVector, Vector, OpenDynamic
  <1>2. ASSUME NEW i \in 0 .. InfoMessages, i # 0
        PROVE  InfoVector(i) =
                 WriteBytes(WriteBytes(Cleared(streams[i - 1]), Header("info")), InfoText(i))
    <2>1. i - 1 \in 0 .. InfoMessages /\ i \in 1 .. InfoMessages
      BY <1>2 DEF InfoMessages
    <2>2. streams[i - 1] = InfoVector(i - 1)
      BY <2>1
    <2>3. \E bytes : InfoVector(i - 1) = Vector(bytes)
      BY DEF InfoVector
    <2> QED
      BY <1>2, <2>1, <2>2, <2>3, WriteInfo DEF InfoVector
  <1> QED
    BY <1>1, <1>2

\* and nothing else does.
LEMMA InfoStreamIs ==
    \A i \in 0 .. InfoMessages : InfoStream[i] = InfoVector(i)
  <1>1. InfoStream = [i \in 0 .. InfoMessages |->
                        IF i = 0 THEN OpenDynamic
                        ELSE WriteBytes(WriteBytes(Cleared(InfoStream[i - 1]), Header("info")),
                                        InfoText(i))]
    BY InfoVectorIsOne DEF InfoStream
  <1> DEFINE S == {i \in Nat : i \in 0 .. InfoMessages => InfoStream[i] = InfoVector(i)}
  <1>2. 0 \in S
    <2>1. InfoStream[0] = OpenDynamic
      BY <1>1 DEF InfoMessages
    <2> QED
      BY <2>1 DEF InfoVector, Vector, OpenDynamic
  <1>3. ASSUME NEW i \in Nat \cap S, i + 1 \in 0 .. InfoMessages
        PROVE  InfoStream[i + 1] = InfoVector(i + 1)
    <2>1. i \in 0 .. InfoMessages /\ i + 1 # 0 /\ (i + 1) - 1 = i /\ i + 1 \in 1 .. InfoMessages
      BY <1>3 DEF InfoMessages
    <2>2. InfoStream[i] = InfoVector(i)
      BY <2>1
    <2>3. InfoStream[i + 1] =
            WriteBytes(WriteBytes(Cleared(InfoStream[i]), Header("info")), InfoText(i + 1))
      BY <1>1, <1>3, <2>1
    <2>4. \E bytes : InfoVector(i) = Vector(bytes)
      BY DEF InfoVector
    <2> QED
      BY <2>1, <2>2, <2>3, <2>4, WriteInfo DEF InfoVector
  <1> HIDE DEF S
  <1>4. Nat \subseteq S
    <2>1. \A i \in Nat \cap S : i + 1 \in S
      BY <1>3 DEF S
    <2> QED
      BY <1>2, <2>1, SetInduction
  <1> QED
    BY <1>4 DEF S, InfoMessages

\* Every message to an outdated client is sent without those before it
\* (request_handler.cpp:229-247).
THEOREM MessagesAreOwn == Spec => []InfoMessagesOwn
  <1>1. InfoMessagesOwn
    <2>1. ASSUME NEW i \in 1 .. InfoMessages
          PROVE  InfoStream[i].written = Header("info") \o InfoText(i)
      <3>1. InfoStream[i] = InfoVector(i) /\ i # 0
        BY InfoStreamIs DEF InfoMessages
      <3>2. ASSUME NEW e PROVE Vector(e).written = e
        BY DEF Vector
      <3> QED
        BY <3>1, <3>2 DEF InfoVector
    <2> QED
      BY <2>1 DEF InfoMessagesOwn
  <1> QED
    BY <1>1, PTL

-----------------------------------------------------------------------------
(* Lists: the bytes of a list of servers, and what a client finds in them.   *)

\* What a byte may be.
Byte == 0 .. 255

\* One byte, and two.
LEMMA PairOfBytes ==
    ASSUME NEW x \in Byte, NEW y \in Byte
    PROVE  /\ <<x>> \in Seq(Byte)
           /\ <<x, y>> \in Seq(Byte) /\ Len(<<x, y>>) = 2
           /\ <<x>> \o <<y>> = <<x, y>>
  <1>1. <<x>> \in Seq(Byte) /\ <<y>> \in Seq(Byte)
    OBVIOUS
  <1>2. <<x, y>> \in Seq(Byte) /\ Len(<<x, y>>) = 2
    OBVIOUS
  <1>3. <<x>> \o <<y>> = <<x, y>>
    <2> DEFINE pair == <<x>> \o <<y>>
    <2>1. pair \in Seq(Byte)
      BY <1>1, ConcatProperties
    <2>2. Len(pair) = 2
      OBVIOUS
    <2>3. \A i \in 1 .. 2 : pair[i] = <<x, y>>[i]
      OBVIOUS
    <2> HIDE DEF pair
    <2>4. pair = <<x, y>>
      BY <1>2, <2>1, <2>2, <2>3, SeqEqual
    <2> QED
      BY <2>4 DEF pair
  <1> QED
    BY <1>1, <1>2, <1>3

\* The bytes of a host, as many as its family has.
LEMMA SpanIs ==
    ASSUME NEW h \in Host
    PROVE  /\ AddressSpan[h] \in Seq(Byte)
           /\ Len(AddressSpan[h]) = AddressLength(h)
  <1>1. AddressSpan[h] \in Seq(0 .. 255)
    BY RepliesAssumption
  <1>2. Len(AddressSpan[h]) = AddressLength(h)
    BY RepliesAssumption
  <1> QED
    BY <1>1, <1>2 DEF Byte

\* A port has two bytes.
LEMMA PortIs ==
    ASSUME NEW a \in Address
    PROVE  /\ a.port \div 256 \in Byte /\ a.port % 256 \in Byte
           /\ (a.port \div 256) % 256 = a.port \div 256
  <1>1. a.port \in Port \cup {0}
    BY DEF Address
  <1>2. \A p \in Port : p < 65536
    BY RepliesAssumption
  <1>3. \A p \in Port : p \in Nat
    BY NetAddressAssumption
  <1>4. a.port \in Nat /\ a.port < 65536
    BY <1>1, <1>2, <1>3
  <1> QED
    BY <1>4 DEF Byte

\* The bytes of an address and its port.
LEMMA AddressBytesAre ==
    ASSUME NEW a \in Address
    PROVE  AddressBytes(a) \in Seq(Byte) /\ Len(AddressBytes(a)) = SizeOf(a)
  <1> DEFINE span == AddressSpan[a.host]
             port == <<a.port \div 256, a.port % 256>>
  <1>1. span \in Seq(Byte) /\ Len(span) = AddressLength(a.host)
    BY SpanIs DEF Address
  <1>2. port \in Seq(Byte) /\ Len(port) = 2
    BY PortIs, PairOfBytes
  <1>3. AddressBytes(a) = span \o port
    BY DEF AddressBytes
  <1> HIDE DEF span, port
  <1>4. span \o port \in Seq(Byte) /\ Len(span \o port) = Len(span) + Len(port)
    BY <1>1, <1>2, ConcatProperties
  <1> QED
    BY <1>1, <1>2, <1>3, <1>4 DEF SizeOf

\* WriteNetAddress appends them.
LEMMA WriteEntry ==
    ASSUME NEW bytes \in Seq(Byte), NEW a \in Address
    PROVE  WriteNetAddress(Vector(bytes), AddressSpan[a.host], a.port)
             = Vector(bytes \o AddressBytes(a))
  <1> DEFINE span == AddressSpan[a.host]
             high == a.port \div 256
             low == a.port % 256
  <1>1. /\ span \in Seq(Byte) /\ high \in Byte /\ low \in Byte
        /\ (a.port \div 256) % 256 = high
    BY SpanIs, PortIs DEF Address
  <1>2. ASSUME NEW v PROVE [i \in 1 .. 1 |-> v] = <<v>>
    OBVIOUS
  <1>3. WriteNetAddress(Vector(bytes), span, a.port)
          = Vector(((bytes \o span) \o <<high>>) \o <<low>>)
    <2>1. WriteBytes(Vector(bytes), span) = Vector(bytes \o span)
      BY WriteVector
    <2>2. ASSUME NEW x, NEW v PROVE WriteByte(Vector(x), v, 1) = Vector(x \o <<v>>)
      BY <1>2, WriteVector DEF WriteByte
    <2> HIDE DEF high, low
    <2>3. WriteByte(WriteByte(Vector(bytes \o span), high, 1), low, 1)
            = Vector(((bytes \o span) \o <<high>>) \o <<low>>)
      BY <2>2
    <2> QED
      BY <1>1, <2>1, <2>3 DEF WriteNetAddress, low
  <1>4. ((bytes \o span) \o <<high>>) \o <<low>> = bytes \o (span \o <<high, low>>)
    <2> HIDE DEF span, high, low
    <2>1. <<high>> \in Seq(Byte) /\ <<low>> \in Seq(Byte) /\ <<high, low>> = <<high>> \o <<low>>
      BY <1>1, PairOfBytes
    <2>2. ((bytes \o span) \o <<high>>) \o <<low>> = (bytes \o span) \o <<high, low>>
      <3>1. bytes \o span \in Seq(Byte)
        BY <1>1, ConcatProperties
      <3> QED
        BY <2>1, <3>1, ConcatAssociative
    <2>3. (bytes \o span) \o <<high, low>> = bytes \o (span \o <<high, low>>)
      <3>1. <<high, low>> \in Seq(Byte)
        BY <1>1, PairOfBytes
      <3> QED
        BY <1>1, <3>1, ConcatAssociative
    <2> QED
      BY <2>2, <2>3
  <1> QED
    BY <1>3, <1>4 DEF AddressBytes

\* Where the bytes of the addresses of a list are: the i-th byte of the k-th one,
LEMMA PlaceOf ==
    ASSUME NEW size \in {6, 18}, NEW k \in Nat, NEW i \in 1 .. size
    PROVE  /\ k * size + i - 1 \in Nat
           /\ (k * size + i - 1) \div size = k
           /\ (k * size + i - 1) % size = i - 1
  <1>1. CASE size = 6
    BY <1>1
  <1>2. CASE size = 18
    BY <1>2
  <1> QED
    BY <1>1, <1>2

\* and the byte at a place.
LEMMA PlaceHolds ==
    ASSUME NEW size \in {6, 18}, NEW n \in Nat, NEW j \in 1 .. n * size
    PROVE  \E k \in 0 .. n - 1, i \in 1 .. size : j = k * size + i
  <1> DEFINE k == (j - 1) \div size
             i == ((j - 1) % size) + 1
  <1>1. CASE size = 6
    <2>1. k \in 0 .. n - 1 /\ i \in 1 .. size /\ j = k * size + i
      BY <1>1
    <2> QED
      BY <2>1
  <1>2. CASE size = 18
    <2>1. k \in 0 .. n - 1 /\ i \in 1 .. size /\ j = k * size + i
      BY <1>2
    <2> QED
      BY <2>1
  <1> QED
    BY <1>1, <1>2

\* So many addresses of the same size.
Listable(order, count, size) ==
    /\ count \in Nat /\ size \in {6, 18}
    /\ order \in [1 .. count -> Address]
    /\ \A k \in 1 .. count : SizeOf(order[k]) = size

\* The bytes of the first n of them, one after another.
Entries(order, size, n) ==
    [j \in 1 .. n * size |->
        AddressBytes(order[(j - 1) \div size + 1])[((j - 1) % size) + 1]]

\* The bytes of the k-th address.
LEMMA EntryAt ==
    ASSUME NEW order, NEW count, NEW size, Listable(order, count, size),
           NEW n \in 0 .. count, NEW k \in 0 .. n - 1, NEW i \in 1 .. size
    PROVE  /\ k * size + i \in 1 .. n * size
           /\ Entries(order, size, n)[k * size + i] = AddressBytes(order[k + 1])[i]
           /\ AddressBytes(order[k + 1])[i] \in Byte
  <1>1. count \in Nat /\ size \in {6, 18} /\ n \in Nat /\ k \in Nat
    BY DEF Listable
  <1>2. k * size + i \in 1 .. n * size
    <2>1. CASE size = 6
      BY <1>1, <2>1
    <2>2. CASE size = 18
      BY <1>1, <2>2
    <2> QED
      BY <1>1, <2>1, <2>2
  <1> DEFINE j == k * size + i
  <1>3. /\ (j - 1) \div size = k /\ ((j - 1) % size) + 1 = i
    <2>1. (j - 1) \div size = k /\ (j - 1) % size = i - 1
      BY <1>1, PlaceOf
    <2> QED
      BY <1>1, <2>1
  <1>4. AddressBytes(order[k + 1]) \in Seq(Byte) /\ Len(AddressBytes(order[k + 1])) = size
    <2>1. k + 1 \in 1 .. count
      BY <1>1
    <2>2. order[k + 1] \in Address /\ SizeOf(order[k + 1]) = size
      BY <2>1 DEF Listable
    <2> QED
      BY <2>2, AddressBytesAre
  <1> HIDE DEF j
  <1>5. Entries(order, size, n)[j] = AddressBytes(order[(j - 1) \div size + 1])[((j - 1) % size) + 1]
    BY <1>2 DEF Entries, j
  <1> QED
    BY <1>1, <1>2, <1>3, <1>4, <1>5 DEF j

\* They are bytes, and all there.
LEMMA EntriesAre ==
    ASSUME NEW order, NEW count, NEW size, Listable(order, count, size), NEW n \in 0 .. count
    PROVE  /\ Entries(order, size, n) \in Seq(Byte)
           /\ Len(Entries(order, size, n)) = n * size
           /\ n * size \in Nat
  <1> DEFINE e == Entries(order, size, n)
  <1>1. n * size \in Nat
    BY DEF Listable
  <1>2. ASSUME NEW j \in 1 .. n * size PROVE e[j] \in Byte
    <2>1. PICK k \in 0 .. n - 1, i \in 1 .. size : j = k * size + i
      <3>1. size \in {6, 18} /\ n \in Nat
        BY DEF Listable
      <3> QED
        BY <3>1, PlaceHolds
    <2> QED
      BY <2>1, EntryAt
  <1>3. e = [j \in 1 .. n * size |-> e[j]]
    BY DEF Entries
  <1> HIDE DEF e
  <1>4. e \in [1 .. n * size -> Byte]
    BY <1>2, <1>3
  <1>5. e \in Seq(Byte) /\ Len(e) = n * size
    BY <1>1, <1>4
  <1> QED
    BY <1>1, <1>5 DEF e

\* One address more.
LEMMA EntriesGrow ==
    ASSUME NEW order, NEW count, NEW size, Listable(order, count, size),
           NEW n \in 0 .. count - 1
    PROVE  Entries(order, size, n + 1) = Entries(order, size, n) \o AddressBytes(order[n + 1])
  <1> DEFINE longer == Entries(order, size, n + 1)
             shorter == Entries(order, size, n)
             last == AddressBytes(order[n + 1])
  <1>1. count \in Nat /\ size \in {6, 18} /\ n \in Nat /\ n \in 0 .. count /\ n + 1 \in 0 .. count
    BY DEF Listable
  <1>2. /\ longer \in Seq(Byte) /\ Len(longer) = (n + 1) * size
        /\ shorter \in Seq(Byte) /\ Len(shorter) = n * size
    BY <1>1, EntriesAre
  <1>3. last \in Seq(Byte) /\ Len(last) = size
    <2>1. n + 1 \in 1 .. count
      BY <1>1
    <2>2. order[n + 1] \in Address /\ SizeOf(order[n + 1]) = size
      BY <2>1 DEF Listable
    <2> QED
      BY <2>2, AddressBytesAre
  <1>4. (n + 1) * size = n * size + size /\ n * size \in Nat /\ size \in Nat
    BY <1>1
  <1>5. ASSUME NEW k \in 0 .. n, NEW i \in 1 .. size
        PROVE  longer[k * size + i] = (shorter \o last)[k * size + i]
    <2>1. longer[k * size + i] = AddressBytes(order[k + 1])[i]
      <3>1. n + 1 \in 0 .. count /\ k \in 0 .. (n + 1) - 1
        BY <1>1
      <3> QED
        BY <3>1, EntryAt
    <2>2. CASE k \in 0 .. n - 1
      <3>1. k * size + i \in 1 .. n * size /\ shorter[k * size + i] = AddressBytes(order[k + 1])[i]
        <4>1. n \in 0 .. count
          BY <1>1
        <4> QED
          BY <2>2, <4>1, EntryAt
      <3> HIDE DEF shorter, last, longer
      <3>2. (shorter \o last)[k * size + i] = shorter[k * size + i]
        BY <1>2, <1>3, <1>4, <3>1, ConcatProperties
      <3> QED
        BY <2>1, <3>1, <3>2
    <2>3. CASE k = n
      <3> HIDE DEF shorter, longer
      <3> DEFINE j == n * size + i
      <3>1. j \in 1 .. n * size + size /\ ~(j <= n * size) /\ j - n * size = i
        BY <1>4
      <3> HIDE DEF j, last
      <3>2. (shorter \o last)[j] = last[i]
        BY <1>2, <1>3, <1>4, <3>1, ConcatProperties
      <3> QED
        BY <2>1, <2>3, <3>2 DEF j, last
    <2>4. k \in 0 .. n - 1 \/ k = n
      BY <1>1
    <2> QED
      BY <2>2, <2>3, <2>4
  <1> HIDE DEF longer, shorter, last
  <1>6. shorter \o last \in Seq(Byte) /\ Len(shorter \o last) = (n + 1) * size
    <2>1. shorter \o last \in Seq(Byte) /\ Len(shorter \o last) = Len(shorter) + Len(last)
      BY <1>2, <1>3, ConcatProperties
    <2> QED
      BY <1>2, <1>3, <1>4, <2>1
  <1>7. \A j \in 1 .. Len(longer) : longer[j] = (shorter \o last)[j]
    <2> SUFFICES ASSUME NEW j \in 1 .. (n + 1) * size
                 PROVE  longer[j] = (shorter \o last)[j]
      BY <1>2
    <2>1. PICK k \in 0 .. (n + 1) - 1, i \in 1 .. size : j = k * size + i
      <3>1. n + 1 \in Nat
        BY <1>1
      <3> QED
        BY <1>1, <3>1, PlaceHolds
    <2>2. k \in 0 .. n
      BY <1>1
    <2> QED
      BY <1>5, <2>1, <2>2
  <1>8. longer = shorter \o last
    BY <1>2, <1>6, <1>7, SeqEqual
  <1> QED
    BY <1>8 DEF longer, shorter, last

\* A list begins with bytes in a vector.
LEMMA StartIs ==
    ASSUME NEW keyed
    PROVE  \E start \in Seq(Byte) : StartOfList(keyed) = Vector(start)
  <1>1. OpenDynamic = Vector(<<>>) /\ <<>> \in Seq(Byte)
    BY DEF OpenDynamic, Vector
  <1>2. Header("servers") \in Seq(Byte) /\ Word \in Seq(Byte)
    BY DEF Header, HeaderLength, Word, Text, Byte
  <1>3. ASSUME NEW v \in Byte PROVE [i \in 1 .. 1 |-> v] \in Seq(Byte)
    OBVIOUS
  <1> DEFINE key == [i \in 1 .. 1 |-> 127]
             end == [i \in 1 .. 1 |-> 0]
             header == <<>> \o Header("servers")
             slash == header \o key
             word == slash \o Word
  <1>4. key \in Seq(Byte) /\ end \in Seq(Byte)
    BY <1>3 DEF Byte
  <1>5. WriteBytes(OpenDynamic, Header("servers")) = Vector(header)
    BY <1>1, WriteVector
  <1>6. WriteByte(Vector(header), 127, 1) = Vector(slash)
    BY WriteVector DEF WriteByte
  <1>7. WriteBytes(Vector(slash), Word) = Vector(word)
    BY WriteVector
  <1>8. WriteByte(Vector(word), 0, 1) = Vector(word \o end)
    BY WriteVector DEF WriteByte
  <1> HIDE DEF key, end
  <1>9. header \in Seq(Byte)
    BY <1>1, <1>2, ConcatProperties
  <1> HIDE DEF header
  <1>10. slash \in Seq(Byte)
    BY <1>4, <1>9, ConcatProperties
  <1> HIDE DEF slash
  <1>11. word \in Seq(Byte)
    BY <1>2, <1>10, ConcatProperties
  <1> HIDE DEF word
  <1>12. word \o end \in Seq(Byte)
    BY <1>4, <1>11, ConcatProperties
  <1>13. StartOfList(keyed) = IF keyed THEN Vector(word \o end) ELSE Vector(header)
    BY <1>5, <1>6, <1>7, <1>8 DEF StartOfList
  <1> QED
    BY <1>9, <1>12, <1>13

\* What the stream holds after each address.
IsListStream(written, order, count, keyed) ==
    written = [n \in 0 .. count |->
                 IF n = 0 THEN StartOfList(keyed)
                 ELSE WriteNetAddress(written[n - 1], AddressSpan[order[n].host], order[n].port)]

\* The start, and the addresses so far.
ListVector(start, order, size, n) == Vector(start \o Entries(order, size, n))

\* One address more in the vector.
LEMMA WriteOneMore ==
    ASSUME NEW order, NEW count, NEW size, Listable(order, count, size),
           NEW start \in Seq(Byte), NEW n \in 0 .. count - 1
    PROVE  WriteNetAddress(ListVector(start, order, size, n),
                           AddressSpan[order[n + 1].host], order[n + 1].port)
             = ListVector(start, order, size, n + 1)
  <1> DEFINE entries == Entries(order, size, n)
             last == AddressBytes(order[n + 1])
  <1>1. order[n + 1] \in Address
    <2>1. n + 1 \in 1 .. count
      BY DEF Listable
    <2> QED
      BY <2>1 DEF Listable
  <1>2. entries \in Seq(Byte)
    <2>1. n \in 0 .. count
      BY DEF Listable
    <2> QED
      BY <2>1, EntriesAre
  <1>3. last \in Seq(Byte)
    BY <1>1, AddressBytesAre
  <1>4. Entries(order, size, n + 1) = entries \o last
    BY EntriesGrow
  <1> HIDE DEF entries, last
  <1>5. start \o entries \in Seq(Byte)
    BY <1>2, ConcatProperties
  <1>6. WriteNetAddress(Vector(start \o entries), AddressSpan[order[n + 1].host], order[n + 1].port)
          = Vector((start \o entries) \o last)
    BY <1>1, <1>5, WriteEntry DEF last
  <1>7. (start \o entries) \o last = start \o (entries \o last)
    BY <1>2, <1>3, ConcatAssociative
  <1> QED
    BY <1>4, <1>6, <1>7 DEF ListVector, entries

\* There is such a stream,
LEMMA ListStreamExists ==
    ASSUME NEW order, NEW count, NEW size, Listable(order, count, size),
           NEW keyed, NEW start \in Seq(Byte), StartOfList(keyed) = Vector(start)
    PROVE  IsListStream([n \in 0 .. count |-> ListVector(start, order, size, n)],
                        order, count, keyed)
  <1> DEFINE streams == [n \in 0 .. count |-> ListVector(start, order, size, n)]
  <1>1. ListVector(start, order, size, 0) = StartOfList(keyed)
    <2>1. Entries(order, size, 0) = <<>>
      BY DEF Entries, Listable
    <2> QED
      BY <2>1, ConcatEmptySeq DEF ListVector
  <1>2. ASSUME NEW n \in 0 .. count, n # 0
        PROVE  ListVector(start, order, size, n) =
                 WriteNetAddress(streams[n - 1], AddressSpan[order[n].host], order[n].port)
    <2>1. n - 1 \in 0 .. count /\ n - 1 \in 0 .. count - 1 /\ (n - 1) + 1 = n
      BY <1>2 DEF Listable
    <2>2. streams[n - 1] = ListVector(start, order, size, n - 1)
      BY <2>1
    <2> HIDE DEF streams
    <2> DEFINE m == n - 1
    <2>3. m \in 0 .. count - 1 /\ m + 1 = n /\ streams[m] = ListVector(start, order, size, m)
      BY <2>1, <2>2
    <2> HIDE DEF m
    <2>4. WriteNetAddress(ListVector(start, order, size, m),
                          AddressSpan[order[m + 1].host], order[m + 1].port)
            = ListVector(start, order, size, m + 1)
      BY <2>3, WriteOneMore
    <2> QED
      BY <2>3, <2>4 DEF m
  <1> QED
    BY <1>1, <1>2 DEF IsListStream

\* and no other.
LEMMA ListStreamIs ==
    ASSUME NEW order, NEW count, NEW size, Listable(order, count, size),
           NEW keyed, NEW start \in Seq(Byte), StartOfList(keyed) = Vector(start),
           NEW written, IsListStream(written, order, count, keyed)
    PROVE  written[count] = ListVector(start, order, size, count)
  <1> DEFINE S == {n \in Nat : n \in 0 .. count => written[n] = ListVector(start, order, size, n)}
  <1>1. count \in Nat
    BY DEF Listable
  <1>2. 0 \in S
    <2>1. written[0] = StartOfList(keyed)
      BY <1>1 DEF IsListStream
    <2>2. Entries(order, size, 0) = <<>>
      BY DEF Entries, Listable
    <2>3. written[0] = ListVector(start, order, size, 0)
      BY <2>1, <2>2, ConcatEmptySeq DEF ListVector
    <2> QED
      BY <2>3
  <1>3. ASSUME NEW n \in Nat \cap S, n + 1 \in 0 .. count
        PROVE  written[n + 1] = ListVector(start, order, size, n + 1)
    <2>1. n \in 0 .. count - 1 /\ n \in 0 .. count /\ n + 1 # 0 /\ (n + 1) - 1 = n
      BY <1>1, <1>3
    <2>2. written[n] = ListVector(start, order, size, n)
      BY <2>1
    <2>3. written[n + 1] =
            WriteNetAddress(written[n], AddressSpan[order[n + 1].host], order[n + 1].port)
      BY <1>3, <2>1 DEF IsListStream
    <2> QED
      BY <2>1, <2>2, <2>3, WriteOneMore
  <1> HIDE DEF S
  <1>4. Nat \subseteq S
    <2>1. \A n \in Nat \cap S : n + 1 \in S
      BY <1>3 DEF S
    <2> QED
      BY <1>2, <2>1, SetInduction
  <1> QED
    BY <1>1, <1>4 DEF S

\* The bytes of the whole answer.
LEMMA ListWritten ==
    ASSUME NEW order, NEW count, NEW size, Listable(order, count, size),
           NEW keyed, NEW start \in Seq(Byte), StartOfList(keyed) = Vector(start)
    PROVE  SerializeServers(order, keyed).written
             = (start \o Entries(order, size, count)) \o NullBytes(EndMarkerLength)
  <1> DEFINE W == CHOOSE written : IsListStream(written, order, count, keyed)
  <1>1. Len(order) = count
    BY DEF Listable
  <1>2. SerializeServers(order, keyed) = WriteByte(W[count], 0, EndMarkerLength)
    BY <1>1 DEF SerializeServers, IsListStream
  <1>3. \E written : IsListStream(written, order, count, keyed)
    BY ListStreamExists
  <1>4. IsListStream(W, order, count, keyed)
    BY <1>3
  <1> HIDE DEF W
  <1>5. W[count] = ListVector(start, order, size, count)
    BY <1>4, ListStreamIs
  <1>6. WriteByte(W[count], 0, EndMarkerLength)
          = Vector((start \o Entries(order, size, count)) \o NullBytes(EndMarkerLength))
    BY <1>5, WriteVector DEF WriteByte, ListVector, NullBytes
  <1>7. ASSUME NEW e PROVE Vector(e).written = e
    BY DEF Vector
  <1> QED
    BY <1>2, <1>6, <1>7

\* The k-th part of the bytes of a list.
PartOf(bytes, size, k) == SubSeq(bytes, (k - 1) * size + 1, k * size)

\* It is the k-th address.
LEMMA PartIsEntry ==
    ASSUME NEW order, NEW count, NEW size, Listable(order, count, size),
           NEW rest \in Seq(Byte), NEW k \in 1 .. count
    PROVE  PartOf(Entries(order, size, count) \o rest, size, k) = AddressBytes(order[k])
  <1> DEFINE entries == Entries(order, size, count)
             address == AddressBytes(order[k])
             first == (k - 1) * size + 1
             last == k * size
             part == SubSeq(entries, first, last)
  <1>1. count \in Nat /\ size \in {6, 18} /\ count \in 0 .. count /\ k - 1 \in 0 .. count - 1
    BY DEF Listable
  <1>2. entries \in Seq(Byte) /\ Len(entries) = count * size /\ count * size \in Nat
    BY <1>1, EntriesAre
  <1>3. address \in Seq(Byte) /\ Len(address) = size
    <2>1. order[k] \in Address /\ SizeOf(order[k]) = size
      BY DEF Listable
    <2> QED
      BY <2>1, AddressBytesAre
  <1>4. /\ first \in 1 .. count * size /\ last \in 1 .. count * size
        /\ first \in Int /\ last \in Int /\ first <= last /\ last - first + 1 = size
        /\ \A i \in 1 .. size : first + i - 1 = (k - 1) * size + i
    <2>1. CASE size = 6
      BY <1>1, <2>1
    <2>2. CASE size = 18
      BY <1>1, <2>2
    <2> QED
      BY <1>1, <2>1, <2>2
  <1>5. ASSUME NEW i \in 1 .. size
        PROVE  entries[(k - 1) * size + i] = address[i]
    <2> DEFINE j == k - 1
    <2>1. j \in 0 .. count - 1 /\ j + 1 = k
      BY <1>1
    <2> HIDE DEF j
    <2>2. Entries(order, size, count)[j * size + i] = AddressBytes(order[j + 1])[i]
      <3>1. count \in 0 .. count
        BY <1>1
      <3> QED
        BY <2>1, <3>1, EntryAt
    <2> QED
      BY <2>1, <2>2 DEF j
  <1>6. SubSeq(entries \o rest, first, last) = part
    <2>1. first \in 1 .. Len(entries) /\ last \in 1 .. Len(entries)
      BY <1>2, <1>4
    <2> HIDE DEF entries, first, last
    <2> QED
      BY <1>2, <2>1, SubSeqOfConcat1
  <1>7. /\ part \in Seq(Byte) /\ Len(part) = size
        /\ \A i \in 1 .. size : part[i] = entries[(k - 1) * size + i]
    <2>1. first \in 1 .. Len(entries) /\ last \in 1 .. Len(entries)
      BY <1>2, <1>4
    <2> HIDE DEF entries, first, last
    <2>2. \A i \in first .. last : entries[i] \in Byte
      BY <1>2, <2>1
    <2>3. /\ part \in Seq(Byte)
          /\ Len(part) = IF first <= last THEN last - first + 1 ELSE 0
          /\ \A i \in 1 .. last - first + 1 : part[i] = entries[first + i - 1]
      BY <1>4, <2>2, SubSeqProperties
    <2> QED
      BY <1>4, <2>3
  <1> HIDE DEF part, entries, address
  <1>8. part = address
    BY <1>3, <1>5, <1>7, SeqEqual
  <1> QED
    BY <1>6, <1>8 DEF PartOf, part, entries, address

\* A list of no null addresses ends where its addresses do: the marker is a null
\* IPv4 address, and less than an IPv6 one.
LEMMA ListEnds ==
    ASSUME NEW order, NEW count, NEW size, Listable(order, count, size),
           \A k \in 1 .. count : AddressBytes(order[k]) # NullBytes(size)
    PROVE  AddressesIn(Entries(order, size, count) \o NullBytes(EndMarkerLength), size)
             = {AddressBytes(order[k]) : k \in 1 .. count}
  <1> DEFINE entries == Entries(order, size, count)
             marker == NullBytes(EndMarkerLength)
             bytes == entries \o marker
             whole == 1 .. Len(bytes) \div size
             before == {k \in whole : \A j \in 1 .. k : PartOf(bytes, size, j) # NullBytes(size)}
  <1>1. count \in Nat /\ size \in {6, 18} /\ count \in 0 .. count
    BY DEF Listable
  <1>2. entries \in Seq(Byte) /\ Len(entries) = count * size /\ count * size \in Nat
    BY <1>1, EntriesAre
  <1>3. marker \in Seq(Byte) /\ Len(marker) = 6
    BY DEF NullBytes, EndMarkerLength, Byte
  <1>4. \A k \in 1 .. count : PartOf(bytes, size, k) = AddressBytes(order[k])
    BY <1>3, PartIsEntry
  <1> HIDE DEF entries, marker
  <1>5. bytes \in Seq(Byte) /\ Len(bytes) = count * size + 6
    <2>1. bytes \in Seq(Byte) /\ Len(bytes) = Len(entries) + Len(marker)
      BY <1>2, <1>3, ConcatProperties
    <2> QED
      BY <1>2, <1>3, <2>1
  <1>6. size = 6 => PartOf(bytes, size, count + 1) = NullBytes(size)
    <2> SUFFICES ASSUME size = 6 PROVE PartOf(bytes, size, count + 1) = NullBytes(size)
      OBVIOUS
    <2>1. PartOf(bytes, size, count + 1) = SubSeq(bytes, count * 6 + 1, count * 6 + 6)
      <3>1. ((count + 1) - 1) * size + 1 = count * 6 + 1 /\ (count + 1) * size = count * 6 + 6
        BY <1>1
      <3> QED
        BY <3>1 DEF PartOf
    <2>2. SubSeq(bytes, count * 6 + 1, count * 6 + 6) = SubSeq(marker, 1, 6)
      <3> DEFINE first == count * 6 + 1
                 last == count * 6 + 6
      <3>1. /\ first \in Len(entries) + 1 .. Len(entries) + Len(marker)
            /\ last \in Len(entries) + 1 .. Len(entries) + Len(marker)
            /\ first - Len(entries) = 1 /\ last - Len(entries) = 6
        BY <1>1, <1>2, <1>3
      <3> HIDE DEF first, last
      <3>2. SubSeq(bytes, first, last)
              = SubSeq(marker, first - Len(entries), last - Len(entries))
        BY <1>2, <1>3, <3>1, SubSeqOfConcat2
      <3> QED
        BY <3>1, <3>2 DEF first, last
    <2>3. SubSeq(marker, 1, 6) = marker
      BY <1>3, SubSeqFull
    <2> QED
      BY <2>1, <2>2, <2>3 DEF marker, EndMarkerLength
  <1> HIDE DEF bytes
  <1>7. /\ size = 6 => whole = 1 .. count + 1
        /\ size = 18 => whole = 1 .. count
    BY <1>1, <1>5
  <1> HIDE DEF whole
  <1>8. ASSUME NEW k \in 1 .. count PROVE k \in before
    <2>1. k \in whole
      BY <1>1, <1>7
    <2>2. \A j \in 1 .. k : j \in 1 .. count
      BY <1>1
    <2> QED
      BY <1>4, <2>1, <2>2
  <1>9. ASSUME NEW k \in before PROVE k \in 1 .. count
    <2>1. CASE size = 18
      BY <1>7, <2>1
    <2>2. CASE size = 6
      <3>1. k \in 1 .. count + 1
        BY <1>7, <2>2
      <3>2. k # count + 1
        <4>1. \A j \in 1 .. k : PartOf(bytes, size, j) # NullBytes(size)
          OBVIOUS
        <4> QED
          BY <1>1, <1>6, <2>2, <3>1, <4>1
      <3> QED
        BY <1>1, <3>1, <3>2
    <2> QED
      BY <1>1, <2>1, <2>2
  <1>10. before = 1 .. count
    BY <1>8, <1>9
  <1>11. AddressesIn(bytes, size) = {PartOf(bytes, size, k) : k \in before}
    BY DEF AddressesIn, PartOf, whole
  <1> HIDE DEF before
  <1> QED
    BY <1>4, <1>10, <1>11 DEF bytes, entries, marker

\* Servers that may be in one list: finitely many senders of one family.
Together(servers, client) ==
    /\ IsFiniteSet(servers) /\ servers \subseteq GameServer
    /\ \A a \in servers : GetAddressFamily(a) = GetAddressFamily(client)

\* The list of such servers reads back, in every order, with a key and without.
LEMMA TogetherReadsBack ==
    ASSUME NEW servers, NEW client, Together(servers, client)
    PROVE  ReadsBack(servers, client)
  <1> SUFFICES ASSUME NEW keyed \in BOOLEAN,
                      NEW order \in Bijection(1 .. Cardinality(servers), servers)
               PROVE  LET bytes == SerializeServers(order, keyed).written
                          list == SubSeq(bytes, GetLength(StartOfList(keyed)) + 1, Len(bytes))
                      IN  AddressesIn(list, SizeOf(client)) = {AddressBytes(a) : a \in servers}
    BY DEF ReadsBack
  <1> DEFINE count == Cardinality(servers)
             size == SizeOf(client)
             entries == Entries(order, size, count)
             marker == NullBytes(EndMarkerLength)
             tail == entries \o marker
             bytes == SerializeServers(order, keyed).written
  <1>1. /\ count \in Nat
        /\ order \in [1 .. count -> servers]
        /\ {order[k] : k \in 1 .. count} = servers
    <2>1. count \in Nat
      BY FS_CardinalityType DEF Together
    <2> HIDE DEF count
    <2>2. order \in [1 .. count -> servers] /\ \A a \in servers : \E k \in 1 .. count : order[k] = a
      BY DEF Bijection, Injection, Surjection, count
    <2> QED
      BY <2>1, <2>2
  <1>2. \A a \in servers : a \in GameServer /\ a \in Address /\ SizeOf(a) = size
    BY RequestHandlerAssumption DEF Together, SizeOf, AddressLength, GetAddressFamily
  <1>3. size \in {6, 18}
    BY DEF SizeOf, AddressLength
  <1> HIDE DEF count, size
  <1>4. Listable(order, count, size)
    BY <1>1, <1>2, <1>3 DEF Listable
  <1>5. \A k \in 1 .. count : AddressBytes(order[k]) # NullBytes(size)
    BY <1>1, <1>2, SourceAssumption
  <1>6. PICK start \in Seq(Byte) : StartOfList(keyed) = Vector(start)
    BY StartIs
  <1>7. bytes = (start \o entries) \o marker
    BY <1>4, <1>6, ListWritten
  <1>8. entries \in Seq(Byte) /\ marker \in Seq(Byte) /\ Len(marker) = 6
    <2>1. marker \in Seq(Byte) /\ Len(marker) = 6
      BY DEF NullBytes, EndMarkerLength, Byte
    <2>2. count \in 0 .. count
      BY <1>1
    <2> QED
      BY <1>4, <2>1, <2>2, EntriesAre
  <1>9. AddressesIn(tail, size) = {AddressBytes(order[k]) : k \in 1 .. count}
    BY <1>4, <1>5, ListEnds
  <1> HIDE DEF entries, marker
  <1>10. tail \in Seq(Byte) /\ Len(tail) \in Nat \ {0}
    <2>1. tail \in Seq(Byte) /\ Len(tail) = Len(entries) + Len(marker)
      BY <1>8, ConcatProperties
    <2> QED
      BY <1>8, <2>1
  <1>11. bytes = start \o tail
    <2>1. (start \o entries) \o marker = start \o (entries \o marker)
      BY <1>8, ConcatAssociative
    <2> QED
      BY <1>7, <2>1
  <1> HIDE DEF tail, bytes
  <1>12. GetLength(StartOfList(keyed)) = Len(start)
    BY <1>6 DEF GetLength, Vector
  <1>13. SubSeq(bytes, Len(start) + 1, Len(bytes)) = tail
    <2>1. Len(bytes) = Len(start) + Len(tail)
      BY <1>10, <1>11, ConcatProperties
    <2> DEFINE first == Len(start) + 1
               last == Len(bytes)
    <2>2. /\ first \in Len(start) + 1 .. Len(start) + Len(tail)
          /\ last \in Len(start) + 1 .. Len(start) + Len(tail)
          /\ first - Len(start) = 1 /\ last - Len(start) = Len(tail)
      BY <1>10, <2>1
    <2> HIDE DEF first, last
    <2>3. SubSeq(start \o tail, first, last) = SubSeq(tail, first - Len(start), last - Len(start))
      BY <1>10, <2>2, SubSeqOfConcat2
    <2>4. SubSeq(tail, 1, Len(tail)) = tail
      BY <1>10, SubSeqFull
    <2> QED
      BY <1>11, <2>2, <2>3, <2>4 DEF first, last
  <1>14. {AddressBytes(order[k]) : k \in 1 .. count} = {AddressBytes(a) : a \in servers}
    BY <1>1
  <1> QED
    BY <1>9, <1>12, <1>13, <1>14 DEF bytes, size

\* The list holds only senders, and finitely many.
ListedSenders == IsFiniteSet(DOMAIN m_serversMap) /\ DOMAIN m_serversMap \subseteq GameServer

\* So does every answer.
SenderLists ==
    \A d \in sent : d.type = "servers" => IsFiniteSet(d.servers) /\ d.servers \subseteq GameServer

\* A map that grows by a sender at most still holds only senders.
LEMMA StillSenders ==
    ASSUME ListedSenders, NEW src \in GameServer,
           DOMAIN m_serversMap' \subseteq DOMAIN m_serversMap \cup {src}
    PROVE  ListedSenders'
  <1>1. IsFiniteSet(DOMAIN m_serversMap \cup {src})
    BY FS_AddElement DEF ListedSenders
  <1>2. IsFiniteSet(DOMAIN m_serversMap')
    BY <1>1, FS_Subset
  <1> QED
    BY <1>2 DEF ListedSenders

\* So does one that does not grow.
LEMMA FewerSenders ==
    ASSUME ListedSenders, DOMAIN m_serversMap' \subseteq DOMAIN m_serversMap
    PROVE  ListedSenders'
  BY FS_Subset DEF ListedSenders

\* Datagrams of which none is an answer satisfy the property.
LEMMA HarmlessSenders ==
    ASSUME Harmless(sent')
    PROVE  SenderLists'
  BY DEF Harmless, SenderLists

\* No handler lists anybody but a sender, or answers with anybody else.
LEMMA PacketSenders ==
    ASSUME ListedSenders, NEW src, HandlePacket(src)
    PROVE  ListedSenders' /\ SenderLists'
  <1>1. CASE \E request \in Queries : ProcessClientQuery(src, request)
    <2>1. PICK request \in Queries : ProcessClientQuery(src, request)
      BY <1>1
    <2>2. CASE SendServers(src, request)
      <3> DEFINE found == {a \in DOMAIN m_serversMap : Matches(a, src, request)}
      <3>1. IsFiniteSet(found) /\ found \subseteq GameServer
        <4>1. found \in SUBSET DOMAIN m_serversMap
          OBVIOUS
        <4> HIDE DEF found
        <4> QED
          BY <4>1, FS_Subset DEF ListedSenders
      <3>2. ASSUME NEW d \in sent', d.type = "servers" PROVE d.servers = found
        BY <2>2, <3>2 DEF SendServers, QueryResponse, NatAnnounce
      <3>3. ListedSenders'
        BY <2>2 DEF SendServers, listVars, ListedSenders
      <3> HIDE DEF found
      <3> QED
        BY <3>1, <3>2, <3>3 DEF SenderLists
    <2>3. CASE SendFakeServerInfo(src, request)
      <3>1. SenderLists'
        BY <2>3, HarmlessSenders DEF SendFakeServerInfo, FakeServerInfo, Harmless
      <3>2. ListedSenders'
        BY <2>3 DEF SendFakeServerInfo, listVars, ListedSenders
      <3> QED
        BY <3>1, <3>2
    <2> QED
      BY <2>1, <2>2, <2>3 DEF ProcessClientQuery
  <1>2. CASE Dropped
    <2>1. SenderLists'
      BY <1>2, HarmlessSenders DEF Dropped, Harmless
    <2>2. ListedSenders'
      BY <1>2 DEF Dropped, listVars, ListedSenders
    <2> QED
      BY <2>1, <2>2
  <1>3. CASE HandleChallengeRequest(src)
    <2>1. CASE ProcessChallengeRequest(src)
      <3>1. SenderLists'
        BY <2>1, HarmlessSenders DEF ProcessChallengeRequest, ChallengeResponse, Harmless
      <3>2. ListedSenders'
        BY <2>1 DEF ProcessChallengeRequest, ListedSenders
      <3> QED
        BY <3>1, <3>2
    <2> QED
      BY <1>2, <1>3, <2>1 DEF HandleChallengeRequest
  <1>4. CASE src \in GameServer /\ \E request \in AppendRequests : HandleAppendRequest(src, request)
    <2>1. CASE \E request \in AppendRequests : ProcessAddServerRequest(src, request)
      <3>1. SenderLists'
        BY <2>1, HarmlessSenders DEF ProcessAddServerRequest, Harmless
      <3>2. DOMAIN m_serversMap' \subseteq DOMAIN m_serversMap \cup {src}
        <4>1. \E entry : m_serversMap' = Assign(m_serversMap, src, entry)
          BY <2>1, Zenon DEF ProcessAddServerRequest, Insert
        <4>2. PICK entry : m_serversMap' = Assign(m_serversMap, src, entry)
          BY <4>1
        <4>3. DOMAIN Assign(m_serversMap, src, entry) = DOMAIN m_serversMap \cup {src}
          BY AssignMap
        <4> QED
          BY <4>2, <4>3
      <3> QED
        BY <1>4, <3>1, <3>2, StillSenders
    <2> QED
      BY <1>2, <1>4, <2>1 DEF HandleAppendRequest
  <1>5. CASE ProcessAdminChallengeRequest(src)
    <2>1. SenderLists'
      BY <1>5, HarmlessSenders
         DEF ProcessAdminChallengeRequest, AdminChallengeResponse, Dropped, Harmless
    <2>2. ListedSenders'
      BY <1>5 DEF ProcessAdminChallengeRequest, Dropped, listVars, ListedSenders
    <2> QED
      BY <2>1, <2>2
  <1>6. CASE \E request \in Commands : HandleAdminCommand(src, request)
    <2>1. SenderLists'
      BY <1>6, HarmlessSenders
         DEF HandleAdminCommand, ProcessAdminCommandRequest, Dropped, Harmless
    <2>2. DOMAIN m_serversMap' \subseteq DOMAIN m_serversMap
      <3>1. \/ m_serversMap' = m_serversMap
            \/ \E keys : m_serversMap' = Erase(m_serversMap, keys)
        BY <1>6
           DEF HandleAdminCommand, ProcessAdminCommandRequest, Dropped, HandleCommandRequest,
               HandleCommand, HandleBanCommand, HandleUnbanCommand, BanAddress, listVars
      <3>2. \A keys : DOMAIN Erase(m_serversMap, keys) = DOMAIN m_serversMap \ keys
        BY EraseMap
      <3> QED
        BY <3>1, <3>2
    <2> QED
      BY <2>1, <2>2, FewerSenders
  <1> QED
    BY <1>1, <1>2, <1>3, <1>4, <1>5, <1>6 DEF HandlePacket, HandleRequest

\* Whoever asks for the list finds in its bytes the addresses of the servers
\* listed, and no other, however many they are and in whatever order the map has
\* them (client_query_response.cpp:29-71).
THEOREM ListsReadBack == Spec => []ListReadsBack
  <1>1. Init => ListedSenders /\ SenderLists
    <2>1. DOMAIN EmptyMap = {}
      BY DEF EmptyMap
    <2> QED
      BY <2>1, FS_EmptySet DEF Init, ListInit, HandlerInit, ListedSenders, SenderLists
  <1>2. ListedSenders /\ SenderLists /\ [Next]_vars => (ListedSenders /\ SenderLists)'
    <2> SUFFICES ASSUME ListedSenders, SenderLists, [Next]_vars
                 PROVE  ListedSenders' /\ SenderLists'
      OBVIOUS
    <2>1. ASSUME NEW family, RecvCallback(family) PROVE ListedSenders' /\ SenderLists'
      BY <2>1, PacketSenders DEF RecvCallback
    <2>2. CASE CleanupTimerCallback
      <3>1. DOMAIN m_serversMap' \subseteq DOMAIN m_serversMap
        <4>1. \E keys : m_serversMap' = Erase(m_serversMap, keys)
          BY <2>2, Zenon DEF CleanupTimerCallback, UpdateState
        <4>2. \A keys : DOMAIN Erase(m_serversMap, keys) = DOMAIN m_serversMap \ keys
          BY EraseMap
        <4> QED
          BY <4>1, <4>2
      <3> QED
        BY <2>2, <3>1, FewerSenders, HarmlessSenders DEF CleanupTimerCallback, Harmless
    <2>3. CASE Tick
      <3>1. DOMAIN m_serversMap' \subseteq DOMAIN m_serversMap
        BY <2>3 DEF Tick, AgeEntries, Aged
      <3> QED
        BY <2>3, <3>1, FewerSenders, HarmlessSenders DEF Tick, Harmless
    <2>4. ASSUME NEW status, End(status) PROVE ListedSenders' /\ SenderLists'
      <3>1. DOMAIN m_serversMap' \subseteq DOMAIN m_serversMap
        BY <2>4 DEF End, EmptyMap
      <3> QED
        BY <2>4, <3>1, FewerSenders, HarmlessSenders DEF End, Harmless
    <2>5. CASE UNCHANGED <<listVars, handlerVars>>
      BY <2>5 DEF listVars, handlerVars, ListedSenders, SenderLists
    <2> QED
      BY <2>1, <2>2, <2>3, <2>4, <2>5
         DEF Next, vars, RecvInetCallback, RecvInet6Callback, SignalCallback,
             RecvFromThrows, HandlePacketThrows, HandlePacketAborts, Restart
  <1>3. NatAnnounceMatchesReply /\ SenderLists => ListReadsBack
    <2> SUFFICES ASSUME NatAnnounceMatchesReply, SenderLists, NEW d \in sent, d.type = "servers"
                 PROVE  ReadsBack(d.servers, d.to)
      BY DEF ListReadsBack
    <2>1. Together(d.servers, d.to)
      BY DEF NatAnnounceMatchesReply, SenderLists, Together
    <2> QED
      BY <2>1, TogetherReadsBack
  <1> QED
    BY <1>1, <1>2, <1>3, AnnouncementsMatch, PTL DEF Spec

-----------------------------------------------------------------------------
\* What the quota amounts to.
QuotaEffect ==
    \A a \in Address :
        /\ ServerCountQuota = 1 /\ Contains(a) => ChallengeRefused(a)
        /\ ServerCountQuota >= 2 => (ChallengeRefused(a) <=> CheckForChallenge(a))

\* Since the count is kept with the port, a quota above one is never reached,
\* and a quota of one refuses each listed server its renewal, and not another
\* server of its host (request_handler.cpp:67).
THEOREM QuotaIsPerAddress == Spec => []QuotaEffect
  <1>1. CountsSound => QuotaEffect
    <2> SUFFICES ASSUME CountsSound, NEW a \in Address
                 PROVE  /\ ServerCountQuota = 1 /\ Contains(a) => ChallengeRefused(a)
                        /\ ServerCountQuota >= 2 =>
                             (ChallengeRefused(a) <=> CheckForChallenge(a))
      BY DEF QuotaEffect
    <2>1. GetCountForAddress(a) \in {0, 1} /\ (Contains(a) => GetCountForAddress(a) = 1)
      BY DEF CountsSound, ListedIsCounted, CountsAreOne, GetCountForAddress, Contains
    <2> QED
      BY <2>1, RequestHandlerAssumption DEF ChallengeRefused
  <1> QED
    BY <1>1, CountsCorrect, PTL

-----------------------------------------------------------------------------
\* A stream whose bytes fit its buffer.
Fits(s) ==
    /\ s \in [written : Seq(Byte), bufferSize : Nat, dynamic : BOOLEAN]
    /\ s.dynamic \/ GetLength(s) <= s.bufferSize

\* No write leaves a buffer of fixed size or changes what was written before,
\* whatever is written and however long it is (binary_output_stream.cpp:60-92).
THEOREM OutputStaysInBuffer ==
    ASSUME NEW s, Fits(s), NEW data \in Seq(Byte)
    PROVE  LET t == WriteBytes(s, data)
           IN  /\ Fits(t)
               /\ t.bufferSize = s.bufferSize /\ t.dynamic = s.dynamic
               /\ t.written \in {s.written, s.written \o data}
  <1> DEFINE t == WriteBytes(s, data)
             longer == s.written \o data
  <1>1. CASE ~(s.dynamic \/ GetLength(s) + Len(data) <= s.bufferSize)
    <2>1. t = s
      BY <1>1 DEF WriteBytes
    <2> QED
      BY <2>1
  <1>2. CASE s.dynamic \/ GetLength(s) + Len(data) <= s.bufferSize
    <2>1. s.written \in Seq(Byte) /\ s.bufferSize \in Nat
      BY DEF Fits
    <2>2. longer \in Seq(Byte) /\ Len(longer) = Len(s.written) + Len(data)
      BY <2>1, ConcatProperties
    <2>3. t = [s EXCEPT !.written = longer]
      BY <1>2 DEF WriteBytes
    <2> HIDE DEF longer, t
    <2>4. /\ t \in [written : Seq(Byte), bufferSize : Nat, dynamic : BOOLEAN]
          /\ t.written = longer /\ t.bufferSize = s.bufferSize /\ t.dynamic = s.dynamic
      BY <2>2, <2>3 DEF Fits
    <2>5. t.dynamic \/ GetLength(t) <= t.bufferSize
      BY <1>2, <2>2, <2>4 DEF GetLength
    <2> QED
      BY <2>4, <2>5 DEF Fits, longer, t
  <1> QED
    BY <1>1, <1>2
=============================================================================
