-------------------------- MODULE BanHistoryProofs --------------------------
(* Only bans leave counts without servers behind, so only bans make a later  *)
(* heartbeat throw.                                                          *)
EXTENDS BanHistory, EventLoopProofs

Orphans == DOMAIN m_serverCountMap \ DOMAIN m_serversMap

\* The history invariant: with the orphans, what the banned addresses and an
\* ended process say about the history.
HistoryInv ==
    /\ OrphansAreBanned
    /\ ThrowsOnlyAfterBan
    /\ process # "running" => DOMAIN m_serverCountMap = {}

\* The histories are histories of the event loop, whose invariant they share.
THEOREM HistoryInvariance == HistorySpec => []IInv
  <1>1. HistoryInit => IInv
    BY InitIInv DEF HistoryInit
  <1>2. IInv /\ [HistoryNext]_historyVars => IInv'
    BY NextIInv DEF HistoryNext, historyVars
  <1> QED
    BY <1>1, <1>2, PTL DEF HistorySpec

\* A datagram orphans a count only when it bans the host of that count.
LEMMA PacketOrphans ==
    ASSUME NEW src, HandlePacket(src), NEW a \in Orphans'
    PROVE  a \in Orphans \/ \E b \in m_banlist' : b.host = a.host
  <1>1. CASE UNCHANGED <<m_serversMap, m_serverCountMap>>
    BY <1>1 DEF Orphans
  <1>2. ASSUME NEW request \in AppendRequests, HandleAppendRequest(src, request)
        PROVE  a \in Orphans
    <2>1. CASE UNCHANGED <<m_serversMap, m_serverCountMap>>
      BY <2>1 DEF Orphans
    <2>2. CASE ProcessAddServerRequest(src, request)
      <3> PICK entry : Insert(src, entry)
        BY <2>2 DEF ProcessAddServerRequest
      <3>1. /\ DOMAIN m_serversMap' = DOMAIN m_serversMap \cup {src}
            /\ DOMAIN m_serverCountMap' \subseteq DOMAIN m_serverCountMap \cup {src}
        BY DEF Insert, Assign
      <3> QED
        BY <3>1 DEF Orphans
    <2> QED
      BY <1>2, <2>1, <2>2 DEF HandleAppendRequest, Dropped, listVars
  <1>3. ASSUME NEW host, HandleBanCommand(host)
        PROVE  a \in Orphans \/ \E b \in m_banlist' : b.host = a.host
    <2>1. /\ DOMAIN m_serversMap' = {s \in DOMAIN m_serversMap : ~Equals(s, Parse(host), FALSE)}
          /\ DOMAIN m_serverCountMap' = DOMAIN m_serverCountMap \ {Parse(host)}
      BY <1>3 DEF HandleBanCommand, BanAddress, Erase, Restrict
    <2>2. CASE a \in DOMAIN m_serversMap
      <3>1. a.host = host
        BY <2>1, <2>2 DEF Orphans, Equals, Parse
      <3>2. Parse(host) \in m_banlist' /\ Parse(host).host = host
        BY <1>3 DEF HandleBanCommand, Parse
      <3> QED
        BY <3>1, <3>2
    <2>3. CASE a \notin DOMAIN m_serversMap
      BY <2>1, <2>3 DEF Orphans
    <2> QED
      BY <2>2, <2>3
  <1>4. ASSUME NEW request \in Commands, HandleAdminCommand(src, request)
        PROVE  \/ UNCHANGED <<m_serversMap, m_serverCountMap>>
               \/ HandleBanCommand(request.host)
    BY <1>4 DEF HandleAdminCommand, ProcessAdminCommandRequest, HandleCommandRequest,
                HandleCommand, HandleUnbanCommand, Dropped, listVars
  <1>5. \/ UNCHANGED <<m_serversMap, m_serverCountMap>>
        \/ \E request \in AppendRequests : HandleAppendRequest(src, request)
        \/ \E request \in Commands : HandleAdminCommand(src, request)
    BY DEF HandlePacket, HandleRequest, Dropped, listVars, ProcessClientQuery, SendServers,
           SendFakeServerInfo, HandleChallengeRequest, ProcessChallengeRequest,
           ProcessAdminChallengeRequest
  <1> QED
    BY <1>1, <1>2, <1>3, <1>4, <1>5

\* The history invariant is inductive on top of the one of the event loop.
LEMMA HistoryNextInv ==
    IInv /\ HistoryInv /\ [HistoryNext]_historyVars => HistoryInv'
  <1> SUFFICES ASSUME IInv, HistoryInv, [HistoryNext]_historyVars PROVE HistoryInv'
    OBVIOUS
  <1> USE DEF HistoryInv
  <1>1. CASE UNCHANGED historyVars
    BY <1>1 DEF historyVars, vars, listVars, OrphansAreBanned, ThrowsOnlyAfterBan
  <1>2. CASE process = "running" /\ HistoryNext
    <2>1. /\ bannedSinceStart \subseteq bannedSinceStart'
          /\ \A b \in m_banlist' : b.host \in bannedSinceStart'
      BY <1>2 DEF HistoryNext
    <2>2. ASSUME NEW family, RecvCallback(family) PROVE HistoryInv'
      <3> PICK src : HandlePacket(src)
        BY <2>2 DEF RecvCallback
      <3>1. UNCHANGED process
        BY <2>2 DEF RecvCallback
      <3>2. OrphansAreBanned'
        BY <2>1, PacketOrphans DEF OrphansAreBanned, Orphans
      <3> QED
        BY <1>2, <2>1, <3>1, <3>2 DEF ThrowsOnlyAfterBan
    <2>3. CASE CleanupTimerCallback
      <3> DEFINE removed == Expired(m_serversMap, ServerTimeoutInterval)
      <3>1. removed \subseteq DOMAIN m_serversMap
        BY DEF Expired
      <3>2. m_serversMap' = Erase(m_serversMap, removed)
        BY <2>3 DEF CleanupTimerCallback, UpdateState
      <3>3. m_serverCountMap' = Erase(m_serverCountMap, removed)
        BY <2>3, <3>1, CountsOfRemoved DEF CleanupTimerCallback, UpdateState, IInv
      <3>4. /\ DOMAIN m_serversMap' = DOMAIN m_serversMap \ removed
            /\ DOMAIN m_serverCountMap' = DOMAIN m_serverCountMap \ removed
        BY <3>2, <3>3 DEF Erase, Restrict
      <3>5. OrphansAreBanned'
        BY <2>1, <3>4 DEF OrphansAreBanned
      <3> QED
        BY <1>2, <2>1, <2>3, <3>5 DEF CleanupTimerCallback, ThrowsOnlyAfterBan
    <2>4. CASE Tick
      <3>1. DOMAIN m_serversMap' = DOMAIN m_serversMap /\ m_serverCountMap' = m_serverCountMap
        BY <2>4 DEF Tick, AgeEntries, Aged
      <3> QED
        BY <1>2, <2>1, <2>4, <3>1 DEF Tick, OrphansAreBanned, ThrowsOnlyAfterBan
    <2>5. ASSUME NEW status, End(status), status = "out_of_range" => bannedSinceStart # {}
          PROVE  HistoryInv'
      <3>1. DOMAIN m_serverCountMap' = {}
        BY <2>5, EmptyMapIsMap DEF End
      <3> QED
        BY <2>1, <2>5, <3>1 DEF End, OrphansAreBanned, ThrowsOnlyAfterBan
    <2>6. HandlePacketThrows => bannedSinceStart # {}
      BY DEF HandlePacketThrows, PacketThrows, AppendThrows, InsertThrows, Contains,
             OrphansAreBanned
    <2>7. CASE Restart
      BY <1>2, <2>7 DEF Restart
    <2> QED
      BY <1>2, <2>2, <2>3, <2>4, <2>5, <2>6, <2>7
         DEF HistoryNext, Next, RecvInetCallback, RecvInet6Callback, SignalCallback,
             RecvFromThrows, HandlePacketThrows, HandlePacketAborts
  <1>3. CASE process # "running" /\ HistoryNext
    <2>1. Restart
      BY <1>3 DEF HistoryNext, Next, RecvInetCallback, RecvInet6Callback, RecvCallback,
                  CleanupTimerCallback, Tick, SignalCallback, RecvFromThrows,
                  HandlePacketThrows, HandlePacketAborts, End
    <2>2. process' = "running" /\ DOMAIN m_serverCountMap' = {}
      BY <1>3, <2>1 DEF Restart, listVars
    <2> QED
      BY <2>2 DEF OrphansAreBanned, ThrowsOnlyAfterBan
  <1> QED
    BY <1>1, <1>2, <1>3

\* The history invariant holds in every reachable state.
THEOREM HistoryHolds == HistorySpec => []HistoryInv
  <1>1. HistoryInit => HistoryInv
    BY EmptyMapIsMap DEF HistoryInit, Init, ListInit, HistoryInv, OrphansAreBanned,
                         ThrowsOnlyAfterBan
  <1> QED
    BY <1>1, HistoryNextInv, HistoryInvariance, PTL DEF HistorySpec

\* An address counted but not listed was banned since the start (server_list.
\* cpp:31-60): nothing but BanAddress lets the two maps drift apart.
THEOREM OrphansOnlyFromBans == HistorySpec => []OrphansAreBanned
  <1>1. HistoryInv => OrphansAreBanned
    BY DEF HistoryInv
  <1> QED
    BY <1>1, HistoryHolds, PTL

\* A heartbeat throws out of Insert (server_list.cpp:38) only after a ban.
THEOREM ThrowOnlyAfterBan == HistorySpec => []ThrowsOnlyAfterBan
  <1>1. HistoryInv => ThrowsOnlyAfterBan
    BY DEF HistoryInv
  <1> QED
    BY <1>1, HistoryHolds, PTL
=============================================================================
