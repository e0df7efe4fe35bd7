--------------------------- MODULE EventLoopProofs --------------------------
(* Proofs about the event loop: types, the agreement of counts and list, the *)
(* bounds on the age of every entry, the life of a challenge, and that the   *)
(* list implements the directory.                                            *)
EXTENDS EventLoop, TLAPS

\* Types and counts are inductive together; the age bounds need the types.
IInv == TypeOK /\ CountsSound /\ StalenessBound

-----------------------------------------------------------------------------
\* What erase leaves of a map.
LEMMA EraseMap ==
    ASSUME NEW map, NEW keys
    PROVE  /\ DOMAIN Erase(map, keys) = DOMAIN map \ keys
           /\ \A k \in DOMAIN map \ keys : Erase(map, keys)[k] = map[k]
  BY DEF Erase, Restrict

\* Erasing keeps the type of a map.
LEMMA EraseIsMap ==
    ASSUME NEW map, NEW keys, NEW Key, NEW Value, IsMap(map, Key, Value)
    PROVE  IsMap(Erase(map, keys), Key, Value)
  BY DEF Erase, Restrict, IsMap

\* Erasing leaves no older entry.
LEMMA EraseNoOlder ==
    ASSUME NEW map, NEW keys, NEW bound, NoOlder(map, bound)
    PROVE  NoOlder(Erase(map, keys), bound)
  BY DEF NoOlder, Erase, Restrict

\* What insert_or_assign makes of a map.
LEMMA AssignMap ==
    ASSUME NEW map, NEW key, NEW value
    PROVE  /\ DOMAIN Assign(map, key, value) = DOMAIN map \cup {key}
           /\ Assign(map, key, value)[key] = value
           /\ \A k \in DOMAIN map \ {key} : Assign(map, key, value)[k] = map[k]
  BY DEF Assign

\* Assigning a value of the type keeps the type of a map.
LEMMA AssignIsMap ==
    ASSUME NEW map, NEW Key, NEW Value, IsMap(map, Key, Value),
           NEW key \in Key, NEW value \in Value
    PROVE  IsMap(Assign(map, key, value), Key, Value)
  BY DEF Assign, IsMap

\* An entry that is assigned with its timer reset is not too old.
LEMMA AssignNoOlder ==
    ASSUME NEW map, NEW bound \in Nat, NoOlder(map, bound),
           NEW key, NEW value, value.age = 0
    PROVE  NoOlder(Assign(map, key, value), bound)
  <1> SUFFICES ASSUME NEW k \in DOMAIN map \cup {key}
               PROVE  Assign(map, key, value)[k].age <= bound
    BY DEF Assign, NoOlder
  <1>1. CASE k = key
    <2>1. Assign(map, key, value)[k] = value
      BY <1>1 DEF Assign
    <2> QED
      BY <2>1
  <1>2. CASE k # key
    <2>1. Assign(map, key, value)[k] = map[k] /\ k \in DOMAIN map
      BY <1>2 DEF Assign
    <2> QED
      BY <2>1 DEF NoOlder
  <1> QED
    BY <1>1, <1>2

\* The empty map has every type.
LEMMA EmptyMapIsMap ==
    /\ DOMAIN EmptyMap = {}
    /\ \A Key, Value : IsMap(EmptyMap, Key, Value)
  BY DEF EmptyMap, IsMap

\* A tick adds one to every age of a map of records and nothing else.
LEMMA AgedServers ==
    ASSUME NEW map, IsMap(map, Address, ServerEntry)
    PROVE  /\ DOMAIN Aged(map) = DOMAIN map
           /\ \A k \in DOMAIN map : Aged(map)[k].age = map[k].age + 1
           /\ IsMap(Aged(map), Address, ServerEntry)
  BY DEF Aged, IsMap, ServerEntry

\* A tick keeps the challenges and makes each of them one older.
LEMMA AgedChallenges ==
    ASSUME NEW map, IsMap(map, Address, Challenge)
    PROVE  /\ DOMAIN Aged(map) = DOMAIN map
           /\ \A k \in DOMAIN map : Aged(map)[k].age = map[k].age + 1
           /\ \A k \in DOMAIN map : Aged(map)[k].value = map[k].value
           /\ IsMap(Aged(map), Address, Challenge)
  BY DEF Aged, IsMap, Challenge

\* The same for the challenges of administrators.
LEMMA AgedAdminChallenges ==
    ASSUME NEW map, IsMap(map, Address, AdminChallenge)
    PROVE  /\ DOMAIN Aged(map) = DOMAIN map
           /\ \A k \in DOMAIN map : Aged(map)[k].age = map[k].age + 1
           /\ IsMap(Aged(map), Address, AdminChallenge)
  BY DEF Aged, IsMap, AdminChallenge

-----------------------------------------------------------------------------
\* The empty list that the process starts with satisfies the invariant.
LEMMA InitIInv == Init => IInv
  <1> SUFFICES ASSUME Init PROVE IInv
    OBVIOUS
  <1> USE EventLoopAssumption, ServerListAssumption DEF Init
  <1>1. TypeOK
    BY EmptyMapIsMap DEF ListInit, HandlerInit, TypeOK, ListTypeOK, HandlerTypeOK, ProcessStatus
  <1>2. CountsSound
    BY EmptyMapIsMap DEF ListInit, CountsSound, ListedIsCounted, CountsAreOne
  <1>3. StalenessBound
    BY EmptyMapIsMap DEF ListInit, StalenessBound, NoOlder
  <1> QED
    BY <1>1, <1>2, <1>3 DEF IInv

-----------------------------------------------------------------------------
\* The part of the invariant about the list, which the operations of the list
\* keep one by one.
ListInv == ListTypeOK /\ CountsSound /\ StalenessBound

\* A step that leaves the list and the timer alone keeps it.
LEMMA ListUnchanged ==
    ListInv /\ UNCHANGED <<listVars, sinceCleanup>> => ListInv'
  BY DEF ListInv, ListTypeOK, CountsSound, ListedIsCounted, CountsAreOne,
         StalenessBound, NoOlder, listVars

\* GenerateChallenge adds a challenge of age zero.
LEMMA GenerateChallengeInv ==
    ASSUME ListInv, NEW addr \in Address, NEW value \in Nonce,
           GenerateChallenge(addr, value),
           UNCHANGED <<m_serversMap, m_serverCountMap, m_adminChallengeMap, sinceCleanup>>,
           sinceCleanup \in Nat
    PROVE  ListInv'
  <1> DEFINE new == [age |-> Reset, value |-> value]
  <1>1. new \in Challenge /\ new.age = 0
    BY DEF Challenge, Reset
  <1> HIDE DEF new
  <1>2. CASE CheckForChallenge(addr)
    <2>1. UNCHANGED listVars
      BY <1>2 DEF GenerateChallenge, listVars
    <2> QED
      BY <2>1, ListUnchanged
  <1>3. CASE ~CheckForChallenge(addr)
    <2>1. m_challengeMap' = Assign(m_challengeMap, addr, new)
      BY <1>3 DEF GenerateChallenge, new
    <2>2. IsMap(m_challengeMap', Address, Challenge)
      BY <2>1, <1>1, AssignIsMap DEF ListInv, ListTypeOK
    <2>3. NoOlder(m_challengeMap', ChallengeTimeoutInterval + sinceCleanup)
      BY <2>1, <1>1, AssignNoOlder, ServerListAssumption DEF ListInv, StalenessBound
    <2> QED
      BY <2>2, <2>3 DEF ListInv, ListTypeOK, CountsSound, ListedIsCounted, CountsAreOne,
                        StalenessBound
  <1> QED
    BY <1>2, <1>3

\* So does GetAdminChallenge.
LEMMA GetAdminChallengeInv ==
    ASSUME ListInv, NEW addr \in Address, NEW hash \in Nonce, NEW master \in Nonce,
           GetAdminChallenge(addr, hash, master),
           UNCHANGED <<m_serversMap, m_serverCountMap, m_challengeMap, sinceCleanup>>,
           sinceCleanup \in Nat
    PROVE  ListInv'
  <1> DEFINE new == [age |-> Reset, master |-> master, hash |-> hash]
  <1>1. new \in AdminChallenge /\ new.age = 0
    BY DEF AdminChallenge, Reset
  <1> HIDE DEF new
  <1>2. CASE CheckAdminChallenge(addr)
    <2>1. UNCHANGED listVars
      BY <1>2 DEF GetAdminChallenge, listVars
    <2> QED
      BY <2>1, ListUnchanged
  <1>3. CASE ~CheckAdminChallenge(addr)
    <2>1. m_adminChallengeMap' = Assign(m_adminChallengeMap, addr, new)
      BY <1>3 DEF GetAdminChallenge, new
    <2>2. IsMap(m_adminChallengeMap', Address, AdminChallenge)
      BY <2>1, <1>1, AssignIsMap DEF ListInv, ListTypeOK
    <2>3. NoOlder(m_adminChallengeMap', ChallengeTimeoutInterval + sinceCleanup)
      BY <2>1, <1>1, AssignNoOlder, ServerListAssumption DEF ListInv, StalenessBound
    <2> QED
      BY <2>2, <2>3 DEF ListInv, ListTypeOK, CountsSound, ListedIsCounted, CountsAreOne,
                        StalenessBound
  <1> QED
    BY <1>2, <1>3

\* Insert counts an address exactly when it was not counted, and lists it new.
LEMMA InsertInv ==
    ASSUME ListInv, NEW addr \in Address, NEW entry \in ServerEntry, entry.age = 0,
           Insert(addr, entry),
           UNCHANGED <<m_challengeMap, m_adminChallengeMap, sinceCleanup>>,
           sinceCleanup \in Nat
    PROVE  ListInv'
  <1>1. m_serversMap' = Assign(m_serversMap, addr, entry)
    BY DEF Insert
  <1>2. IsMap(m_serversMap', Address, ServerEntry)
    BY <1>1, AssignIsMap DEF ListInv, ListTypeOK
  <1>3. NoOlder(m_serversMap', ServerTimeoutInterval + sinceCleanup)
    BY <1>1, AssignNoOlder, ServerListAssumption DEF ListInv, StalenessBound
  <1>4. /\ IsMap(m_serverCountMap', Address, Int)
        /\ DOMAIN m_serverCountMap' = DOMAIN m_serverCountMap \cup {addr}
        /\ CountsAreOne'
    <2>1. CASE addr \in DOMAIN m_serverCountMap
      BY <2>1 DEF Insert, ListInv, ListTypeOK, CountsSound, CountsAreOne
    <2>2. CASE addr \notin DOMAIN m_serverCountMap
      <3>1. m_serverCountMap' = Assign(m_serverCountMap, addr, 1)
        BY <2>2 DEF Insert
      <3>2. IsMap(m_serverCountMap', Address, Int)
        BY <3>1, AssignIsMap DEF ListInv, ListTypeOK
      <3>3. CountsAreOne'
        BY <3>1 DEF Assign, ListInv, CountsSound, CountsAreOne
      <3> QED
        BY <3>1, <3>2, <3>3, AssignMap
    <2> QED
      BY <2>1, <2>2
  <1>5. ListedIsCounted'
    <2>1. DOMAIN m_serversMap' = DOMAIN m_serversMap \cup {addr}
      BY <1>1, AssignMap
    <2> QED
      BY <2>1, <1>4 DEF ListInv, CountsSound, ListedIsCounted
  <1> QED
    BY <1>2, <1>3, <1>4, <1>5 DEF ListInv, ListTypeOK, CountsSound, StalenessBound

\* BanAddress uncounts one address and unlists at least that one.
LEMMA BanAddressInv ==
    ASSUME ListInv, NEW addr \in Address, BanAddress(addr), UNCHANGED sinceCleanup
    PROVE  ListInv'
  <1> DEFINE gone == {a \in DOMAIN m_serversMap : Equals(a, addr, FALSE)}
  <1>1. /\ m_serversMap' = Erase(m_serversMap, gone)
        /\ m_serverCountMap' = Erase(m_serverCountMap, {addr})
        /\ UNCHANGED <<m_challengeMap, m_adminChallengeMap>>
    BY DEF BanAddress
  <1>2. addr \in DOMAIN m_serversMap => addr \in gone
    BY DEF Equals
  <1> HIDE DEF gone
  <1>3. ListTypeOK'
    BY <1>1, EraseIsMap DEF ListInv, ListTypeOK
  <1>4. CountsSound'
    <2>1. DOMAIN m_serversMap' = DOMAIN m_serversMap \ gone
      BY <1>1, EraseMap
    <2>2. /\ DOMAIN m_serverCountMap' = DOMAIN m_serverCountMap \ {addr}
          /\ \A a \in DOMAIN m_serverCountMap' : m_serverCountMap'[a] = m_serverCountMap[a]
      BY <1>1 DEF Erase, Restrict
    <2> QED
      BY <1>2, <2>1, <2>2 DEF ListInv, CountsSound, ListedIsCounted, CountsAreOne
  <1>5. StalenessBound'
    BY <1>1, EraseNoOlder DEF ListInv, StalenessBound
  <1> QED
    BY <1>3, <1>4, <1>5 DEF ListInv

-----------------------------------------------------------------------------
\* The ages in the three maps are numbers.
LEMMA AgesAreNat ==
    ASSUME ListTypeOK
    PROVE  /\ \A k \in DOMAIN m_serversMap : m_serversMap[k].age \in Nat
           /\ \A k \in DOMAIN m_challengeMap : m_challengeMap[k].age \in Nat
           /\ \A k \in DOMAIN m_adminChallengeMap : m_adminChallengeMap[k].age \in Nat
  <1>1. \A k \in DOMAIN m_serversMap : m_serversMap[k] \in ServerEntry
    BY DEF ListTypeOK, IsMap
  <1>2. \A k \in DOMAIN m_challengeMap : m_challengeMap[k] \in Challenge
    BY DEF ListTypeOK, IsMap
  <1>3. \A k \in DOMAIN m_adminChallengeMap : m_adminChallengeMap[k] \in AdminChallenge
    BY DEF ListTypeOK, IsMap
  <1> QED
    BY <1>1, <1>2, <1>3 DEF ServerEntry, Challenge, AdminChallenge

\* What a sweep leaves in a map has not run past its time-out.
LEMMA SweptNoOlder ==
    ASSUME NEW map, \A k \in DOMAIN map : map[k].age \in Nat,
           NEW interval \in Nat, NEW since \in Nat,
           NEW keys, Expired(map, interval) \subseteq keys
    PROVE  NoOlder(Erase(map, keys), interval + since)
  BY DEF NoOlder, Erase, Restrict, Expired, IntervalElapsed

\* Removing listed servers erases exactly their counts: Remove never meets a
\* missing count or one above one.
LEMMA CountsOfRemoved ==
    ASSUME CountsSound, NEW removed, removed \subseteq DOMAIN m_serversMap
    PROVE  CountsAfterRemove(removed) = Erase(m_serverCountMap, removed)
  <1>1. removed \subseteq DOMAIN m_serverCountMap
    BY DEF CountsSound, ListedIsCounted
  <1>2. \A b \in removed : GetCountForAddress(b) = 1
    BY <1>1 DEF GetCountForAddress, CountsSound, CountsAreOne
  <1>3. {b \in DOMAIN m_serverCountMap \cup removed : b \in removed => GetCountForAddress(b) # 1}
          = DOMAIN m_serverCountMap \ removed
    BY <1>1, <1>2
  <1> QED
    BY <1>3 DEF CountsAfterRemove, Erase, Restrict

\* The three sweeps keep the invariant of the list.
LEMMA UpdateStateInv ==
    ASSUME ListInv, UpdateState, sinceCleanup' \in Nat
    PROVE  ListInv'
  <1> USE ServerListAssumption
  <1> DEFINE removed == Expired(m_serversMap, ServerTimeoutInterval)
             stale == Expired(m_challengeMap, ChallengeTimeoutInterval)
             staleAdmin == Expired(m_adminChallengeMap, ChallengeTimeoutInterval)
  <1>1. /\ m_serversMap' = Erase(m_serversMap, removed)
        /\ m_serverCountMap' = CountsAfterRemove(removed)
        /\ m_challengeMap' = Erase(m_challengeMap, removed \cup stale)
        /\ m_adminChallengeMap' = Erase(m_adminChallengeMap, staleAdmin)
    BY DEF UpdateState
  <1>2. removed \subseteq DOMAIN m_serversMap
    BY DEF Expired
  <1>3. m_serverCountMap' = Erase(m_serverCountMap, removed)
    BY <1>1, <1>2, CountsOfRemoved DEF ListInv
  <1>4. ListTypeOK'
    BY <1>1, <1>3, EraseIsMap DEF ListInv, ListTypeOK
  <1>5. CountsSound'
    <2>1. DOMAIN m_serversMap' = DOMAIN m_serversMap \ removed
      BY <1>1, EraseMap
    <2>2. /\ DOMAIN m_serverCountMap' = DOMAIN m_serverCountMap \ removed
          /\ \A a \in DOMAIN m_serverCountMap' : m_serverCountMap'[a] = m_serverCountMap[a]
      BY <1>3 DEF Erase, Restrict
    <2> QED
      BY <2>1, <2>2 DEF ListInv, CountsSound, ListedIsCounted, CountsAreOne
  <1>6. NoOlder(m_serversMap', ServerTimeoutInterval + sinceCleanup')
    BY <1>1, AgesAreNat, SweptNoOlder DEF ListInv
  <1>7. NoOlder(m_challengeMap', ChallengeTimeoutInterval + sinceCleanup')
    BY <1>1, AgesAreNat, SweptNoOlder DEF ListInv
  <1>8. NoOlder(m_adminChallengeMap', ChallengeTimeoutInterval + sinceCleanup')
    BY <1>1, AgesAreNat, SweptNoOlder DEF ListInv
  <1> QED
    BY <1>4, <1>5, <1>6, <1>7, <1>8 DEF ListInv, StalenessBound

\* A tick moves every age and every bound by one.
LEMMA AgedNoOlder ==
    ASSUME NEW map, \A k \in DOMAIN map : map[k].age \in Nat,
           \A k \in DOMAIN map : Aged(map)[k].age = map[k].age + 1,
           DOMAIN Aged(map) = DOMAIN map,
           NEW interval \in Nat, NEW since \in Nat,
           NoOlder(map, interval + since)
    PROVE  NoOlder(Aged(map), interval + (since + 1))
  BY DEF NoOlder

\* A tick keeps the part of the invariant about the maps, since the time since the
\* sweep was due grows with the ages.
LEMMA AgeEntriesInv ==
    ASSUME ListInv, AgeEntries, sinceCleanup \in Nat, sinceCleanup' = sinceCleanup + 1
    PROVE  ListInv'
  <1> USE ServerListAssumption
  <1>1. /\ m_serversMap' = Aged(m_serversMap)
        /\ m_challengeMap' = Aged(m_challengeMap)
        /\ m_adminChallengeMap' = Aged(m_adminChallengeMap)
        /\ m_serverCountMap' = m_serverCountMap
    BY DEF AgeEntries
  <1>2. ListTypeOK'
    BY <1>1, AgedServers, AgedChallenges, AgedAdminChallenges DEF ListInv, ListTypeOK
  <1>3. CountsSound'
    BY <1>1, AgedServers DEF ListInv, ListTypeOK, CountsSound, ListedIsCounted, CountsAreOne
  <1>4. NoOlder(m_serversMap', ServerTimeoutInterval + sinceCleanup')
    BY <1>1, AgesAreNat, AgedServers, AgedNoOlder DEF ListInv, ListTypeOK, StalenessBound
  <1>5. NoOlder(m_challengeMap', ChallengeTimeoutInterval + sinceCleanup')
    BY <1>1, AgesAreNat, AgedChallenges, AgedNoOlder DEF ListInv, ListTypeOK, StalenessBound
  <1>6. NoOlder(m_adminChallengeMap', ChallengeTimeoutInterval + sinceCleanup')
    BY <1>1, AgesAreNat, AgedAdminChallenges, AgedNoOlder DEF ListInv, ListTypeOK, StalenessBound
  <1> QED
    BY <1>2, <1>3, <1>4, <1>5, <1>6 DEF ListInv, StalenessBound

\* The end of the process empties the list.
LEMMA EmptyListInv ==
    ASSUME m_serversMap' = EmptyMap, m_serverCountMap' = EmptyMap,
           m_challengeMap' = EmptyMap, m_adminChallengeMap' = EmptyMap
    PROVE  ListInv'
  BY EmptyMapIsMap DEF ListInv, ListTypeOK, CountsSound, ListedIsCounted, CountsAreOne,
                       StalenessBound, NoOlder

-----------------------------------------------------------------------------
\* A handler that drops its datagram keeps everything.
LEMMA DroppedInv ==
    ASSUME ListInv, HandlerTypeOK, Dropped, UNCHANGED sinceCleanup
    PROVE  ListInv' /\ HandlerTypeOK'
  BY ListUnchanged DEF Dropped, HandlerTypeOK

\* Queries read the list and set the servers to announce to.
LEMMA ClientQueryInv ==
    ASSUME ListInv, HandlerTypeOK, NEW src \in Address, NEW request \in ClientQueryRequest,
           ProcessClientQuery(src, request), UNCHANGED sinceCleanup
    PROVE  ListInv' /\ HandlerTypeOK'
  <1>1. CASE SendServers(src, request)
    <2> DEFINE found == {a \in DOMAIN m_serversMap : Matches(a, src, request)}
               announced == ServersToAnnounce(found, request)
    <2>1. found \subseteq Address /\ announced \subseteq Address
      BY DEF ListInv, ListTypeOK, IsMap, ServersToAnnounce
    <2>2. /\ m_natAnnouncedServers' = announced
          /\ sent' = {QueryResponse(src, found, request.nat)}
                       \cup {NatAnnounce(a, src) : a \in announced}
          /\ UNCHANGED <<listVars, m_banlist>>
      BY <1>1 DEF SendServers
    <2> HIDE DEF found, announced
    <2>3. \A d \in sent' : d.to \in Address
      BY <2>1, <2>2 DEF QueryResponse, NatAnnounce
    <2> QED
      BY <2>1, <2>2, <2>3, ListUnchanged DEF HandlerTypeOK
  <1>2. CASE SendFakeServerInfo(src, request)
    <2>1. \A d \in sent' : d.to \in Address
      BY <1>2 DEF SendFakeServerInfo, FakeServerInfo
    <2> QED
      BY <1>2, <2>1, ListUnchanged DEF SendFakeServerInfo, HandlerTypeOK
  <1> QED
    BY <1>1, <1>2 DEF ProcessClientQuery

\* A challenge request adds at most a challenge.
LEMMA ChallengeRequestInv ==
    ASSUME ListInv, HandlerTypeOK, NEW src \in Address,
           HandleChallengeRequest(src), UNCHANGED sinceCleanup, sinceCleanup \in Nat
    PROVE  ListInv' /\ HandlerTypeOK'
  <1>1. CASE ProcessChallengeRequest(src)
    <2> PICK challenge \in Nonce :
            /\ GenerateChallenge(src, challenge)
            /\ sent' = {ChallengeResponse(src, challenge)}
            /\ UNCHANGED <<m_serversMap, m_serverCountMap, m_adminChallengeMap,
                           m_banlist, m_natAnnouncedServers>>
      BY <1>1 DEF ProcessChallengeRequest
    <2>1. ListInv'
      BY GenerateChallengeInv
    <2>2. HandlerTypeOK'
      BY DEF HandlerTypeOK, ChallengeResponse
    <2> QED
      BY <2>1, <2>2
  <1> QED
    BY <1>1, DroppedInv DEF HandleChallengeRequest

\* A heartbeat inserts or renews its own server.
LEMMA AppendRequestInv ==
    ASSUME ListInv, HandlerTypeOK, NEW src \in Address, NEW request \in ServerAppendRequest,
           HandleAppendRequest(src, request), UNCHANGED sinceCleanup, sinceCleanup \in Nat
    PROVE  ListInv' /\ HandlerTypeOK'
  <1>1. CASE ProcessAddServerRequest(src, request)
    <2> DEFINE new(protocol) == [age |-> Reset, nat |-> request.nat,
                                 gamedir |-> request.gamedir, protocol |-> protocol]
    <2> PICK protocol \in StoredProtocol(request) :
            /\ Insert(src, new(protocol))
            /\ sent' = {}
            /\ UNCHANGED <<m_challengeMap, m_adminChallengeMap, m_banlist,
                           m_natAnnouncedServers>>
      BY <1>1 DEF ProcessAddServerRequest
    <2>1. protocol \in Protocol
      BY DEF StoredProtocol, ServerAppendRequest
    <2>2. new(protocol) \in ServerEntry /\ new(protocol).age = 0
      BY <2>1 DEF ServerEntry, ServerAppendRequest, Reset
    <2> HIDE DEF new
    <2>3. ListInv'
      BY <2>2, InsertInv
    <2>4. HandlerTypeOK'
      BY DEF HandlerTypeOK
    <2> QED
      BY <2>3, <2>4
  <1> QED
    BY <1>1, DroppedInv DEF HandleAppendRequest

\* An admin challenge request adds at most an admin challenge.
LEMMA AdminChallengeRequestInv ==
    ASSUME ListInv, HandlerTypeOK, NEW src \in Address,
           ProcessAdminChallengeRequest(src), UNCHANGED sinceCleanup, sinceCleanup \in Nat
    PROVE  ListInv' /\ HandlerTypeOK'
  <1>1. CASE ~CheckAdminChallenge(src) /\ ~Dropped
    <2> PICK hash \in Nonce, master \in Nonce :
            /\ GetAdminChallenge(src, hash, master)
            /\ sent' = {AdminChallengeResponse(src, master, hash)}
      BY <1>1 DEF ProcessAdminChallengeRequest
    <2>1. UNCHANGED <<m_serversMap, m_serverCountMap, m_challengeMap,
                      m_banlist, m_natAnnouncedServers>>
      BY <1>1 DEF ProcessAdminChallengeRequest
    <2>2. ListInv'
      BY <2>1, GetAdminChallengeInv
    <2>3. HandlerTypeOK'
      BY <2>1 DEF HandlerTypeOK, AdminChallengeResponse
    <2> QED
      BY <2>2, <2>3
  <1> QED
    BY <1>1, DroppedInv DEF ProcessAdminChallengeRequest

\* A command bans, unbans or does nothing.
LEMMA AdminCommandInv ==
    ASSUME ListInv, HandlerTypeOK, NEW src \in Address, NEW request \in AdminCommandRequest,
           HandleAdminCommand(src, request), UNCHANGED sinceCleanup
    PROVE  ListInv' /\ HandlerTypeOK'
  <1>1. Parse(request.host) \in Address /\ request.host \in Host
    BY DEF AdminCommandRequest, Parse, Address
  <1>2. CASE /\ HandleCommandRequest(request, m_adminChallengeMap[src])
             /\ sent' = {}
             /\ UNCHANGED m_natAnnouncedServers
    <2>1. CASE HandleBanCommand(request.host)
      <3>1. ListInv'
        BY <1>1, <2>1, BanAddressInv DEF HandleBanCommand
      <3>2. HandlerTypeOK'
        BY <1>1, <1>2, <2>1 DEF HandlerTypeOK, HandleBanCommand
      <3> QED
        BY <3>1, <3>2
    <2>2. CASE HandleUnbanCommand(request.host)
      BY <1>2, <2>2, ListUnchanged DEF HandleUnbanCommand, HandlerTypeOK
    <2>3. CASE UNCHANGED <<m_banlist, listVars>>
      BY <1>2, <2>3, ListUnchanged DEF HandlerTypeOK
    <2> QED
      BY <1>2, <2>1, <2>2, <2>3 DEF HandleCommandRequest, HandleCommand
  <1> QED
    BY <1>2, DroppedInv DEF HandleAdminCommand, ProcessAdminCommandRequest

\* Whatever datagram comes, its handler keeps the invariant.
LEMMA PacketInv ==
    ASSUME ListInv, HandlerTypeOK, NEW src \in Address,
           HandlePacket(src), UNCHANGED sinceCleanup, sinceCleanup \in Nat
    PROVE  ListInv' /\ HandlerTypeOK'
  <1>1. CASE Dropped
    BY <1>1, DroppedInv
  <1>2. CASE \E request \in Queries : ProcessClientQuery(src, request)
    BY <1>2, ClientQueryInv, InputAssumption
  <1>3. CASE HandleChallengeRequest(src)
    BY <1>3, ChallengeRequestInv
  <1>4. CASE \E request \in AppendRequests : HandleAppendRequest(src, request)
    BY <1>4, AppendRequestInv, InputAssumption
  <1>5. CASE ProcessAdminChallengeRequest(src)
    BY <1>5, AdminChallengeRequestInv
  <1>6. CASE \E request \in Commands : HandleAdminCommand(src, request)
    BY <1>6, AdminCommandInv, InputAssumption
  <1> QED
    BY <1>1, <1>2, <1>3, <1>4, <1>5, <1>6 DEF HandlePacket, HandleRequest

-----------------------------------------------------------------------------
\* The invariant is inductive.
LEMMA NextIInv == IInv /\ [Next]_vars => IInv'
  <1> SUFFICES ASSUME IInv, [Next]_vars PROVE IInv'
    OBVIOUS
  <1> USE EventLoopAssumption
  <1>0. /\ ListInv /\ HandlerTypeOK /\ process \in ProcessStatus
        /\ sinceCleanup \in 0 .. (CleanupInterval + MaxLag) /\ sinceCleanup \in Nat
    BY DEF IInv, TypeOK, ListInv
  <1> SUFFICES /\ ListInv' /\ HandlerTypeOK' /\ process' \in ProcessStatus
               /\ sinceCleanup' \in 0 .. (CleanupInterval + MaxLag)
    BY DEF IInv, TypeOK, ListInv
  <1>1. ASSUME NEW family, RecvCallback(family)
        PROVE  /\ ListInv' /\ HandlerTypeOK'
               /\ UNCHANGED <<process, sinceCleanup>>
    <2> PICK src \in GameServer \cup Client \cup Console : HandlePacket(src)
      BY <1>1 DEF RecvCallback
    <2>1. src \in Address
      BY RequestHandlerAssumption
    <2> QED
      BY <1>0, <1>1, <2>1, PacketInv DEF RecvCallback
  <1>2. CASE CleanupTimerCallback
    <2>1. sinceCleanup' \in 0 .. (CleanupInterval + MaxLag) /\ sinceCleanup' \in Nat
      BY <1>0, <1>2 DEF CleanupTimerCallback, NextDue
    <2>2. ListInv'
      BY <1>0, <1>2, <2>1, UpdateStateInv DEF CleanupTimerCallback
    <2> QED
      BY <1>0, <1>2, <2>1, <2>2 DEF CleanupTimerCallback, HandlerTypeOK
  <1>3. CASE Tick
    <2>1. sinceCleanup' \in 0 .. (CleanupInterval + MaxLag)
      BY <1>0, <1>3 DEF Tick
    <2>2. ListInv'
      BY <1>0, <1>3, AgeEntriesInv DEF Tick
    <2> QED
      BY <1>0, <1>3, <2>1, <2>2 DEF Tick, HandlerTypeOK
  <1>4. ASSUME NEW status \in ProcessStatus, End(status)
        PROVE  /\ ListInv' /\ HandlerTypeOK' /\ process' \in ProcessStatus
               /\ sinceCleanup' \in 0 .. (CleanupInterval + MaxLag)
    BY <1>4, EmptyListInv DEF End, HandlerTypeOK
  <1>5. CASE Restart
    BY <1>0, <1>5, ListUnchanged DEF Restart, HandlerTypeOK, handlerVars, ProcessStatus
  <1>6. CASE UNCHANGED vars
    BY <1>0, <1>6, ListUnchanged DEF vars, handlerVars, HandlerTypeOK
  <1> QED
    BY <1>0, <1>1, <1>2, <1>3, <1>4, <1>5, <1>6
       DEF Next, RecvInetCallback, RecvInet6Callback, SignalCallback, RecvFromThrows,
           HandlePacketThrows, HandlePacketAborts, ProcessStatus

\* In every reachable state the strengthened invariant holds.
THEOREM Invariance == Spec => []IInv
  BY InitIInv, NextIInv, PTL DEF Spec

\* Every variable of the master server keeps its type, for any sets of
\* addresses, values and requests and any intervals.
THEOREM TypeCorrect == Spec => []TypeOK
  <1>1. IInv => TypeOK
    BY DEF IInv
  <1> QED
    BY <1>1, Invariance, PTL

\* A listed server is counted and no count differs from one (server_list.cpp:
\* 31-60, 108-116), so the sweeps keep the two maps in step for ever.
THEOREM CountsCorrect == Spec => []CountsSound
  <1>1. IInv => CountsSound
    BY DEF IInv
  <1> QED
    BY <1>1, Invariance, PTL

\* No server and no challenge outlives its time-out by more than the time since
\* the last sweep was due (server_list.cpp:118-162, event_loop.cpp:135-151).
THEOREM StalenessBounded == Spec => []StalenessBound
  <1>1. IInv => StalenessBound
    BY DEF IInv
  <1> QED
    BY <1>1, Invariance, PTL

-----------------------------------------------------------------------------
\* A datagram takes nobody's challenge away.
LEMMA PacketKeepsChallenges ==
    ASSUME NEW src, HandlePacket(src), NEW a \in DOMAIN m_challengeMap
    PROVE  a \in DOMAIN m_challengeMap' /\ m_challengeMap'[a].value = m_challengeMap[a].value
  <1>1. CASE UNCHANGED m_challengeMap
    BY <1>1
  <1>2. CASE HandleChallengeRequest(src)
    <2>1. ASSUME NEW value \in Nonce, GenerateChallenge(src, value)
          PROVE  a \in DOMAIN m_challengeMap' /\ m_challengeMap'[a] = m_challengeMap[a]
      BY <2>1 DEF GenerateChallenge, CheckForChallenge, Assign
    <2> QED
      BY <1>1, <1>2, <2>1 DEF HandleChallengeRequest, ProcessChallengeRequest, Dropped, listVars
  <1>3. HandlePacket(src) => UNCHANGED m_challengeMap \/ HandleChallengeRequest(src)
    BY DEF HandlePacket, HandleRequest, Dropped, listVars, ProcessClientQuery, SendServers,
           SendFakeServerInfo, HandleAppendRequest, ProcessAddServerRequest,
           ProcessAdminChallengeRequest, HandleAdminCommand, ProcessAdminCommandRequest,
           HandleCommandRequest, HandleCommand, HandleBanCommand, HandleUnbanCommand, BanAddress
  <1> QED
    BY <1>1, <1>2, <1>3

\* Nor does any other step, but for a time-out or the end of the process.
LEMMA NextKeepsChallenges ==
    ASSUME ListTypeOK, Next, NEW a \in DOMAIN m_challengeMap
    PROVE  KeepsChallenge(a)
  <1>1. ASSUME NEW family, RecvCallback(family) PROVE KeepsChallenge(a)
    BY <1>1, PacketKeepsChallenges DEF RecvCallback, KeepsChallenge
  <1>2. CASE CleanupTimerCallback
    <2> DEFINE removed == Expired(m_serversMap, ServerTimeoutInterval)
               stale == Expired(m_challengeMap, ChallengeTimeoutInterval)
    <2>1. /\ m_challengeMap' = Erase(m_challengeMap, removed \cup stale)
          /\ m_serversMap' = Erase(m_serversMap, removed)
      BY <1>2 DEF CleanupTimerCallback, UpdateState
    <2>2. CASE a \in removed
      <3>1. a \in DOMAIN m_serversMap /\ IntervalElapsed(m_serversMap[a].age, ServerTimeoutInterval)
        BY <2>2 DEF Expired
      <3>2. a \notin DOMAIN m_serversMap'
        BY <2>1, <2>2 DEF Erase, Restrict
      <3> QED
        BY <3>1, <3>2 DEF KeepsChallenge, Contains
    <2>3. CASE a \in stale
      BY <2>3 DEF Expired, KeepsChallenge
    <2>4. CASE a \notin removed \cup stale
      BY <2>1, <2>4 DEF Erase, Restrict, KeepsChallenge
    <2> QED
      BY <2>2, <2>3, <2>4
  <1>3. CASE Tick
    BY <1>3, AgedChallenges DEF Tick, AgeEntries, ListTypeOK, KeepsChallenge
  <1>4. ASSUME NEW status \in ProcessStatus \ {"running"}, End(status) PROVE KeepsChallenge(a)
    BY <1>4 DEF End, KeepsChallenge
  <1>5. CASE Restart
    BY <1>5 DEF Restart, listVars, KeepsChallenge
  <1> QED
    BY <1>1, <1>2, <1>3, <1>4, <1>5
       DEF Next, RecvInetCallback, RecvInet6Callback, SignalCallback, RecvFromThrows,
           HandlePacketThrows, HandlePacketAborts, ProcessStatus

\* A challenge that was handed out stays valid until its time-out, unless its
\* own expired server goes in the same sweep (server_list.cpp:62-84, 114).
THEOREM ChallengesKept == Spec => ChallengeKept
  <1>1. TypeOK /\ [Next]_vars => [\A a \in DOMAIN m_challengeMap : KeepsChallenge(a)]_vars
    BY NextKeepsChallenges DEF TypeOK
  <1> QED
    BY <1>1, TypeCorrect, PTL DEF Spec, ChallengeKept

-----------------------------------------------------------------------------
(* The event loop implements the directory: the initial state is one of the  *)
(* directory, and every step of the loop is a step of it or leaves it alone. *)

\* Ages of the directory are those of the list.
LEMMA ListedAgeFacts ==
    /\ DOMAIN ListedAge = DOMAIN m_serversMap
    /\ \A a \in DOMAIN m_serversMap : ListedAge[a] = m_serversMap[a].age
  BY DEF ListedAge

\* The loop starts as an empty directory.
LEMMA InitRefines == Init => D!Init
  <1> SUFFICES ASSUME Init PROVE D!Init
    OBVIOUS
  <1>1. DOMAIN m_serversMap = {}
    BY EmptyMapIsMap DEF Init, ListInit
  <1>2. ListedAge = [s \in {} |-> 0]
    BY <1>1 DEF ListedAge
  <1>3. BannedHosts = {}
    BY DEF Init, HandlerInit, BannedHosts
  <1>4. (process = "running") = TRUE
    BY DEF Init
  <1> QED
    BY <1>2, <1>3, <1>4 DEF D!Init

\* A step that leaves list, bans and process alone is a stutter.
LEMMA UnchangedRefines ==
    ASSUME UNCHANGED <<m_serversMap, m_banlist, process>>
    PROVE  UNCHANGED D!dvars
  BY DEF D!dvars, ListedAge, BannedHosts

\* Erasing servers from the list erases them from the directory.
LEMMA EraseKeeps ==
    ASSUME NEW gone, m_serversMap' = Erase(m_serversMap, gone)
    PROVE  ListedAge' = [s \in DOMAIN ListedAge \ gone |-> ListedAge[s]]
  BY DEF ListedAge, Erase, Restrict

\* A heartbeat that is accepted announces its server.
LEMMA AppendRefines ==
    ASSUME NEW src \in Address, NEW request, process = "running",
           ProcessAddServerRequest(src, request), UNCHANGED process
    PROVE  D!Next
  <1> DEFINE new(protocol) == [age |-> Reset, nat |-> request.nat,
                               gamedir |-> request.gamedir, protocol |-> protocol]
  <1> PICK protocol \in StoredProtocol(request) :
          Insert(src, new(protocol)) /\ UNCHANGED m_banlist
    BY DEF ProcessAddServerRequest
  <1>1. m_serversMap' = Assign(m_serversMap, src, new(protocol)) /\ new(protocol).age = 0
    BY DEF Insert, Reset
  <1> HIDE DEF new
  <1>2. ListedAge' = [t \in DOMAIN ListedAge \cup {src} |-> IF t = src THEN 0 ELSE ListedAge[t]]
    BY <1>1 DEF ListedAge, Assign
  <1>3. D!Announce(src)
    BY <1>2 DEF D!Announce, D!Listed, BannedHosts
  <1> QED
    BY <1>3 DEF D!Next

\* A ban is a ban of the directory, and an unban an unban.
LEMMA CommandRefines ==
    ASSUME ListTypeOK, HandlerTypeOK, process = "running", UNCHANGED process,
           NEW host \in Host, HandleBanCommand(host) \/ HandleUnbanCommand(host)
    PROVE  D!Next
  <1>1. CASE HandleBanCommand(host)
    <2>1. BannedHosts' = BannedHosts \cup {host}
      BY <1>1 DEF HandleBanCommand, BannedHosts, Parse
    <2> DEFINE gone == {a \in DOMAIN m_serversMap : Equals(a, Parse(host), FALSE)}
    <2>2. m_serversMap' = Erase(m_serversMap, gone)
      BY <1>1 DEF HandleBanCommand, BanAddress
    <2>3. DOMAIN ListedAge \ gone = {s \in DOMAIN ListedAge : HostOfAddress[s] # host}
      <3>1. \A s \in DOMAIN m_serversMap : s \in gone <=> s.host = host
        BY DEF Equals, Parse, GetAddressFamily
      <3>2. \A s \in DOMAIN m_serversMap : HostOfAddress[s] = s.host
        BY DEF HostOfAddress, ListTypeOK, IsMap
      <3> QED
        BY <3>1, <3>2, ListedAgeFacts
    <2> HIDE DEF gone
    <2>4. ListedAge' = [s \in {t \in DOMAIN ListedAge : HostOfAddress[t] # host} |-> ListedAge[s]]
      BY <2>2, <2>3, EraseKeeps
    <2>5. D!Ban(host)
      BY <2>1, <2>4 DEF D!Ban, D!Keep, D!Listed
    <2> QED
      BY <2>5 DEF D!Next
  <1>2. CASE HandleUnbanCommand(host)
    <2>1. BannedHosts' = BannedHosts \ {host}
      BY <1>2 DEF HandleUnbanCommand, BannedHosts, HandlerTypeOK, Parse
    <2>2. UNCHANGED ListedAge
      BY <1>2 DEF HandleUnbanCommand, listVars, ListedAge
    <2>3. D!Unban(host)
      BY <2>1, <2>2 DEF D!Unban
    <2> QED
      BY <2>3 DEF D!Next
  <1> QED
    BY <1>1, <1>2

\* Any other datagram leaves the directory alone.
LEMMA PacketRefines ==
    ASSUME ListTypeOK, HandlerTypeOK, process = "running", UNCHANGED process,
           NEW src \in Address, HandlePacket(src)
    PROVE  D!Next \/ UNCHANGED D!dvars
  <1>1. CASE UNCHANGED <<m_serversMap, m_banlist>>
    BY <1>1, UnchangedRefines
  <1>2. CASE \E request \in AppendRequests : ProcessAddServerRequest(src, request)
    BY <1>2, AppendRefines
  <1>3. CASE \E host \in Host : HandleBanCommand(host) \/ HandleUnbanCommand(host)
    BY <1>3, CommandRefines
  <1>4. \A request \in Commands : HandleAdminCommand(src, request)
          => \/ UNCHANGED <<m_serversMap, m_banlist>>
             \/ HandleBanCommand(request.host) \/ HandleUnbanCommand(request.host)
    BY DEF HandleAdminCommand, ProcessAdminCommandRequest, HandleCommandRequest,
           HandleCommand, Dropped, listVars
  <1>5. \A request \in Commands : request.host \in Host
    BY InputAssumption DEF AdminCommandRequest
  <1>6. ProcessAdminChallengeRequest(src) => UNCHANGED <<m_serversMap, m_banlist>>
    BY DEF ProcessAdminChallengeRequest, Dropped, listVars
  <1>7. HandleChallengeRequest(src) => UNCHANGED <<m_serversMap, m_banlist>>
    BY DEF HandleChallengeRequest, ProcessChallengeRequest, Dropped, listVars
  <1>8. \A request : ProcessClientQuery(src, request) => UNCHANGED <<m_serversMap, m_banlist>>
    BY DEF ProcessClientQuery, SendServers, SendFakeServerInfo, listVars
  <1>9. \A request : HandleAppendRequest(src, request)
          => UNCHANGED <<m_serversMap, m_banlist>> \/ ProcessAddServerRequest(src, request)
    BY DEF HandleAppendRequest, Dropped, listVars
  <1>10. Dropped => UNCHANGED <<m_serversMap, m_banlist>>
    BY DEF Dropped, listVars
  <1> QED
    BY <1>1, <1>2, <1>3, <1>4, <1>5, <1>6, <1>7, <1>8, <1>9, <1>10 DEF HandlePacket, HandleRequest

\* A sweep expires exactly the servers past their time-out.
LEMMA CleanupRefines ==
    ASSUME ListTypeOK, CleanupTimerCallback
    PROVE  D!Next
  <1> DEFINE removed == Expired(m_serversMap, ServerTimeoutInterval)
  <1>1. m_serversMap' = Erase(m_serversMap, removed) /\ UNCHANGED <<m_banlist, process>>
    BY DEF CleanupTimerCallback, UpdateState
  <1>2. DOMAIN ListedAge \ removed
          = {s \in DOMAIN ListedAge : ListedAge[s] <= ServerTimeoutInterval}
    BY ListedAgeFacts, AgesAreNat, ServerListAssumption DEF Expired, IntervalElapsed
  <1> HIDE DEF removed
  <1>3. ListedAge' = [s \in {t \in DOMAIN ListedAge : ListedAge[t] <= ServerTimeoutInterval}
                        |-> ListedAge[s]]
    BY <1>1, <1>2, EraseKeeps
  <1>4. D!Expire
    BY <1>1, <1>3 DEF D!Expire, D!Keep, D!Listed, BannedHosts
  <1> QED
    BY <1>4 DEF D!Next

\* Time may pass for the directory whenever it passes for the loop: by the
\* staleness bound nobody has reached the lease before a due sweep.
LEMMA TickRefines ==
    ASSUME ListTypeOK, StalenessBound, sinceCleanup \in Nat, Tick
    PROVE  D!Next
  <1> USE ServerListAssumption, EventLoopAssumption
  <1>1. \A s \in DOMAIN ListedAge : ListedAge[s] < LongestLease
    <2> TAKE s \in DOMAIN ListedAge
    <2>1. /\ m_serversMap[s].age <= ServerTimeoutInterval + sinceCleanup
          /\ m_serversMap[s].age \in Nat
          /\ ListedAge[s] = m_serversMap[s].age
      BY ListedAgeFacts, AgesAreNat DEF StalenessBound, NoOlder
    <2>2. sinceCleanup < CleanupInterval + MaxLag
      BY DEF Tick
    <2> QED
      BY <2>1, <2>2 DEF LongestLease
  <1>2. m_serversMap' = Aged(m_serversMap) /\ UNCHANGED <<m_banlist, process>>
    BY DEF Tick, AgeEntries
  <1>3. /\ DOMAIN m_serversMap' = DOMAIN m_serversMap
        /\ \A s \in DOMAIN m_serversMap : m_serversMap'[s].age = m_serversMap[s].age + 1
    BY <1>2, AgedServers DEF ListTypeOK
  <1>4. ListedAge' = [s \in DOMAIN ListedAge |-> ListedAge[s] + 1]
    BY <1>3 DEF ListedAge
  <1>5. D!TimePasses
    BY <1>1, <1>2, <1>4 DEF D!TimePasses, D!Listed, BannedHosts
  <1> QED
    BY <1>5 DEF D!Next

\* The end of the process is the directory going down.
LEMMA EndRefines ==
    ASSUME NEW status \in ProcessStatus \ {"running"}, End(status)
    PROVE  D!Next
  <1>1. m_serversMap' = EmptyMap /\ m_banlist' = {} /\ process' # "running"
    BY DEF End
  <1>2. ListedAge' = [s \in {} |-> ListedAge[s]]
    BY <1>1, EmptyMapIsMap DEF ListedAge
  <1>3. BannedHosts' = {}
    BY <1>1 DEF BannedHosts
  <1>4. D!GoDown
    BY <1>1, <1>2, <1>3 DEF D!GoDown, D!Keep
  <1> QED
    BY <1>4 DEF D!Next

\* Restarting the process brings it up again.
LEMMA RestartRefines ==
    ASSUME Restart
    PROVE  D!Next
  <1>1. UNCHANGED <<m_serversMap, m_banlist>> /\ process # "running" /\ process' = "running"
    BY DEF Restart, listVars, handlerVars
  <1>2. D!ComeUp
    BY <1>1 DEF D!ComeUp, ListedAge, BannedHosts
  <1> QED
    BY <1>2 DEF D!Next

-----------------------------------------------------------------------------
\* Every step of the loop is a step of the directory or a stutter.
LEMMA NextRefines == IInv /\ [Next]_vars => [D!Next]_(D!dvars)
  <1> SUFFICES ASSUME IInv, [Next]_vars PROVE D!Next \/ UNCHANGED D!dvars
    OBVIOUS
  <1>0. ListTypeOK /\ HandlerTypeOK /\ StalenessBound /\ sinceCleanup \in Nat
    BY EventLoopAssumption DEF IInv, TypeOK
  <1>1. ASSUME NEW family, RecvCallback(family) PROVE D!Next \/ UNCHANGED D!dvars
    BY <1>0, <1>1, PacketRefines, RequestHandlerAssumption DEF RecvCallback
  <1>2. CASE CleanupTimerCallback
    BY <1>0, <1>2, CleanupRefines
  <1>3. CASE Tick
    BY <1>0, <1>3, TickRefines
  <1>4. ASSUME NEW status \in ProcessStatus \ {"running"}, End(status) PROVE D!Next
    BY <1>4, EndRefines
  <1>5. CASE Restart
    BY <1>5, RestartRefines
  <1>6. CASE UNCHANGED vars
    BY <1>6, UnchangedRefines DEF vars, listVars, handlerVars
  <1> QED
    BY <1>1, <1>2, <1>3, <1>4, <1>5, <1>6
       DEF Next, RecvInetCallback, RecvInet6Callback, SignalCallback, RecvFromThrows,
           HandlePacketThrows, HandlePacketAborts, ProcessStatus

\* The master server implements the directory (README.md:5-9), for any number
\* of servers and any intervals: nobody is dropped before its time-out unless
\* banned, and nobody stays listed beyond the lease.
THEOREM DirectoryImplemented == Spec => ImplementsDirectory
  BY InitRefines, NextRefines, Invariance, PTL DEF Spec, ImplementsDirectory, D!Spec
=============================================================================
