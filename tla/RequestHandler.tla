--------------------------- MODULE RequestHandler ---------------------------
(* What the master server does with one datagram (request_handler.cpp and    *)
(* packet_types/).  A handler is one action: the event loop runs it to its   *)
(* end before anything else.                                                 *)
EXTENDS AdminCommandHandler, VersionInfo

CONSTANTS ServerCountQuota,       \* max_servers_per_ip
          Version,                \* the versions that servers and clients report
          ServerMinimalVersion, ClientMinimalVersion,
          Malformed,              \* a number that scan_int cannot read
          GameServer, Client, Console,   \* who sends which requests
          AppendRequests, Queries, Commands   \* the requests they send

ASSUME RequestHandlerAssumption ==
    /\ ServerCountQuota \in Nat
    /\ Version \cup {ServerMinimalVersion, ClientMinimalVersion} \subseteq VersionInfo
    /\ Malformed \notin Protocol
    /\ Unset \notin Protocol /\ Unset \notin Version
    /\ GameServer \cup Client \cup Console \subseteq Address

VARIABLES m_natAnnouncedServers,  \* servers of the last query's answer to announce to
          sent                    \* the datagrams the last handler sent

handlerVars == <<m_banlist, m_natAnnouncedServers, sent>>

\* What ServerAppendRequest::Parse yields; only the challenge and the version
\* are scanned there, so the protocol may still be malformed.  others are the
\* players, maximum, bots and region, of which nothing but that is of interest.
ServerAppendRequest ==
    [challenge : Nonce, version : Version, nat : BOOLEAN, gamedir : Gamedir,
     protocol : Protocol \cup {Malformed}, others : {"numbers", Malformed}]

\* What ClientQueryRequest::Parse yields: Unset for a key that is absent, and
\* for a version that VersionInfo::Parse refuses.
ClientQueryRequest ==
    [version : Version \cup {Unset}, nat : BOOLEAN, gamedir : Gamedir,
     protocol : Protocol \cup {Unset}]

\* The datagrams the master server sends.  Values that are only echoed (the
\* query key, the client's own challenge) are left out.
ChallengeResponse(dest, challenge) ==
    [type |-> "challenge", to |-> dest, challenge |-> challenge]
AdminChallengeResponse(dest, master, hash) ==
    [type |-> "adminchallenge", to |-> dest, master |-> master, hash |-> hash]
QueryResponse(dest, servers, nat) ==
    [type |-> "servers", to |-> dest, servers |-> servers, nat |-> nat]
FakeServerInfo(dest, gamedir) ==
    [type |-> "info", to |-> dest, gamedir |-> gamedir]
NatAnnounce(server, client) ==
    [type |-> "nat", to |-> server, client |-> client]

ASSUME InputAssumption ==
    /\ AppendRequests \subseteq ServerAppendRequest
    /\ Queries \subseteq ClientQueryRequest
    /\ Commands \subseteq AdminCommandRequest

HandlerTypeOK ==
    /\ m_banlist \subseteq {Parse(host) : host \in Host}
    /\ m_natAnnouncedServers \subseteq Address
    /\ \A d \in sent : d.to \in Address

HandlerInit == m_banlist = {} /\ m_natAnnouncedServers = {} /\ sent = {}

\* A handler that returns early.
Dropped == sent' = {} /\ UNCHANGED <<listVars, m_banlist, m_natAnnouncedServers>>

\* m_banlist.count(sourceAddr) > 0: keys compare with their port.
Banned(src) == \E b \in m_banlist : Equals(b, src, TRUE)

-----------------------------------------------------------------------------
\* ClientQueryResponse::Serialize: the servers that go into the answer.
Matches(addr, client, request) ==
    LET entry == m_serversMap[addr] IN
    /\ GetAddressFamily(addr) = GetAddressFamily(client)
    /\ entry.nat = request.nat
    /\ entry.gamedir = request.gamedir
    /\ request.protocol # Unset => entry.protocol = request.protocol

\* Mutated form of ServersToAnnounce: natServers is not cleared first.
ServersToAnnounceUncleared(found, request) ==
    m_natAnnouncedServers \cup (IF request.nat THEN found ELSE {})

\* natServers is cleared, and filled only for a client that bypasses NAT.
ServersToAnnounce(found, request) == IF request.nat THEN found ELSE {}

\* SendClientQueryResponse, then SendNatAnnouncements.
SendServers(src, request) ==
    LET found == {a \in DOMAIN m_serversMap : Matches(a, src, request)}
        announced == ServersToAnnounce(found, request)
    IN  /\ m_natAnnouncedServers' = announced
        /\ sent' = {QueryResponse(src, found, request.nat)}
                     \cup {NatAnnounce(a, src) : a \in announced}
        /\ UNCHANGED <<listVars, m_banlist>>

SendFakeServerInfo(src, request) ==
    /\ sent' = {FakeServerInfo(src, request.gamedir)}
    /\ UNCHANGED <<listVars, m_banlist, m_natAnnouncedServers>>

SupportedClient(request) ==
    request.version # Unset /\ AtLeast(request.version, ClientMinimalVersion)

ProcessClientQuery(src, request) ==
    \/ SupportedClient(request) /\ SendServers(src, request)
    \/ ~SupportedClient(request) /\ SendFakeServerInfo(src, request)

-----------------------------------------------------------------------------
\* Mutated form of ChallengeRefused: one server more than the quota.
ChallengeRefusedAbove(src) ==
    GetCountForAddress(src) > ServerCountQuota \/ CheckForChallenge(src)

\* The two early returns of the "q\xff" branch.
ChallengeRefused(src) ==
    \/ GetCountForAddress(src) >= ServerCountQuota
    \/ CheckForChallenge(src)

ProcessChallengeRequest(src) ==
    \E challenge \in Nonce :
        /\ GenerateChallenge(src, challenge)
        /\ sent' = {ChallengeResponse(src, challenge)}
        /\ UNCHANGED <<m_serversMap, m_serverCountMap, m_adminChallengeMap,
                       m_banlist, m_natAnnouncedServers>>

HandleChallengeRequest(src) ==
    \/ ChallengeRefused(src) /\ Dropped
    \/ ~ChallengeRefused(src) /\ ProcessChallengeRequest(src)

-----------------------------------------------------------------------------
\* The checks of the "0\n" branch and of ProcessAddServerRequest.
Appendable(src, request) ==
    /\ CheckForChallenge(src)
    /\ ValidateChallenge(src, request.challenge)
    /\ AtLeast(request.version, ServerMinimalVersion)

\* Mutated form of StoredProtocol: Update is not called, and the entry keeps the
\* 0 of its constructor.
StoredProtocolInitial(request) == {0}

\* ServerEntry::Update stores scan_int(...)->value() unchecked: when the text
\* is no number the value stored is indeterminate.
StoredProtocol(request) ==
    IF request.protocol = Malformed THEN Protocol ELSE {request.protocol}

ProcessAddServerRequest(src, request) ==
    \E protocol \in StoredProtocol(request) :
        /\ Insert(src, [age |-> Reset, nat |-> request.nat,
                        gamedir |-> request.gamedir, protocol |-> protocol])
        /\ sent' = {}
        /\ UNCHANGED <<m_challengeMap, m_adminChallengeMap, m_banlist,
                       m_natAnnouncedServers>>

HandleAppendRequest(src, request) ==
    \/ ~Appendable(src, request) /\ Dropped
    \/ Appendable(src, request) /\ ProcessAddServerRequest(src, request)

\* Insert throws out of the handler.
AppendThrows(src, request) == Appendable(src, request) /\ InsertThrows(src)

\* The read of a failed scan, any of five, ends a build that checks it.
AppendAborts(src, request) ==
    /\ Appendable(src, request) /\ ~InsertThrows(src)
    /\ Malformed \in {request.protocol, request.others}

-----------------------------------------------------------------------------
ProcessAdminChallengeRequest(src) ==
    \/ CheckAdminChallenge(src) /\ Dropped
    \/ /\ ~CheckAdminChallenge(src)
       /\ \E hash, master \in Nonce :
            /\ GetAdminChallenge(src, hash, master)
            /\ sent' = {AdminChallengeResponse(src, master, hash)}
       /\ UNCHANGED <<m_serversMap, m_serverCountMap, m_challengeMap,
                      m_banlist, m_natAnnouncedServers>>

\* The challenge stays in the table whatever the command did.
ProcessAdminCommandRequest(src, request) ==
    \/ /\ m_adminChallengeMap[src].master # request.master
       /\ Dropped
    \/ /\ m_adminChallengeMap[src].master = request.master
       /\ HandleCommandRequest(request, m_adminChallengeMap[src])
       /\ sent' = {}
       /\ UNCHANGED m_natAnnouncedServers

HandleAdminCommand(src, request) ==
    \/ ~CheckAdminChallenge(src) /\ Dropped
    \/ CheckAdminChallenge(src) /\ ProcessAdminCommandRequest(src, request)

-----------------------------------------------------------------------------
\* HandleRequest dispatches on the header.  A header it does not know and a
\* datagram that does not parse change nothing.
HandleRequest(src) ==
    \/ src \in Client /\ \E request \in Queries : ProcessClientQuery(src, request)
    \/ src \in GameServer /\ HandleChallengeRequest(src)
    \/ src \in GameServer /\ \E request \in AppendRequests : HandleAppendRequest(src, request)
    \/ src \in Console /\ ProcessAdminChallengeRequest(src)
    \/ src \in Console /\ \E request \in Commands : HandleAdminCommand(src, request)
    \/ Dropped

HandlePacket(src) ==
    \/ Banned(src) /\ Dropped
    \/ ~Banned(src) /\ HandleRequest(src)

\* A datagram whose handler throws, or may end the process on indeterminate data.
PacketThrows(src) ==
    ~Banned(src) /\ src \in GameServer /\ \E request \in AppendRequests : AppendThrows(src, request)
PacketAborts(src) ==
    ~Banned(src) /\ src \in GameServer /\ \E request \in AppendRequests : AppendAborts(src, request)
=============================================================================
