----------------------------- MODULE ServerList -----------------------------
(* The list of registered game servers and the two tables of challenges     *)
(* (server_list.cpp, server_entry.cpp).  A map of the code is a function    *)
(* whose domain is the set of keys present; keys compare with their port,   *)
(* whichever hash the container uses (operator== includes it).              *)
EXTENDS Integers, NetAddress, Timer, Functions

CONSTANTS Nonce,                     \* 32-bit values of the random generator
          Gamedir, Protocol,         \* game directories, protocol versions
          ServerTimeoutInterval,     \* server_timeout_interval, in ticks
          ChallengeTimeoutInterval   \* challenge_timeout_interval, in ticks

ASSUME ServerListAssumption ==
    /\ ServerTimeoutInterval \in Nat
    /\ ChallengeTimeoutInterval \in Nat

VARIABLES m_serversMap,         \* address -> registered server
          m_serverCountMap,     \* address -> number of its servers
          m_challengeMap,       \* address -> challenge of a game server
          m_adminChallengeMap   \* address -> challenge of an admin console

listVars == <<m_serversMap, m_serverCountMap, m_challengeMap, m_adminChallengeMap>>

\* The fields of a ServerEntry that queries and time-outs read.
ServerEntry == [age : Nat, nat : BOOLEAN, gamedir : Gamedir, protocol : Protocol]
Challenge == [age : Nat, value : Nonce]
AdminChallenge == [age : Nat, master : Nonce, hash : Nonce]

\* map has keys among Key and values among Value.
IsMap(map, Key, Value) == DOMAIN map \subseteq Key /\ map \in [DOMAIN map -> Value]

ListTypeOK ==
    /\ IsMap(m_serversMap, Address, ServerEntry)
    /\ IsMap(m_serverCountMap, Address, Int)
    /\ IsMap(m_challengeMap, Address, Challenge)
    /\ IsMap(m_adminChallengeMap, Address, AdminChallenge)

EmptyMap == [k \in {} |-> k]

ListInit == 
    /\ m_serversMap = EmptyMap
    /\ m_serverCountMap = EmptyMap
    /\ m_challengeMap = EmptyMap
    /\ m_adminChallengeMap = EmptyMap

\* Standard library: unordered_map::erase and insert_or_assign.
Erase(map, keys) == Restrict(map, DOMAIN map \ keys)
Assign(map, key, value) ==
    [k \in DOMAIN map \cup {key} |-> IF k = key THEN value ELSE map[k]]

-----------------------------------------------------------------------------
Contains(addr) == addr \in DOMAIN m_serversMap
CheckForChallenge(addr) == addr \in DOMAIN m_challengeMap
CheckAdminChallenge(addr) == addr \in DOMAIN m_adminChallengeMap

\* The age of the challenge plays no part: only a sweep ends its validity.
ValidateChallenge(addr, challenge) ==
    CheckForChallenge(addr) /\ m_challengeMap[addr].value = challenge

\* The count is kept per address WITH its port.
GetCountForAddress(addr) ==
    IF addr \in DOMAIN m_serverCountMap THEN m_serverCountMap[addr] ELSE 0

\* GenerateChallenge draws a value only for an address that has none; its
\* caller has checked that, and both branches leave one challenge behind.
GenerateChallenge(addr, challenge) ==
    m_challengeMap' = IF CheckForChallenge(addr) THEN m_challengeMap
                      ELSE Assign(m_challengeMap, addr,
                                  [age |-> Reset, value |-> challenge])

\* GetAdminChallenge, which likewise draws only for an address without one.
GetAdminChallenge(addr, hash, master) ==
    m_adminChallengeMap' =
        IF CheckAdminChallenge(addr) THEN m_adminChallengeMap
        ELSE Assign(m_adminChallengeMap, addr,
                    [age |-> Reset, master |-> master, hash |-> hash])

-----------------------------------------------------------------------------
\* Insert decides by the count map and returns m_serversMap.at(addr), which
\* throws std::out_of_range for an address that is counted but not listed.
InsertThrows(addr) == addr \in DOMAIN m_serverCountMap /\ ~Contains(addr)

\* Mutated form of Insert: an address already listed is counted again.
InsertAlways(addr, entry) ==
    /\ m_serversMap' = Assign(m_serversMap, addr, entry)
    /\ m_serverCountMap' = Assign(m_serverCountMap, addr, GetCountForAddress(addr) + 1)

\* Insert, then Update and ResetTimeout on the entry it returns.
Insert(addr, entry) ==
    /\ ~InsertThrows(addr)
    /\ m_serversMap' = Assign(m_serversMap, addr, entry)
    /\ m_serverCountMap' = IF addr \in DOMAIN m_serverCountMap THEN m_serverCountMap
                           ELSE Assign(m_serverCountMap, addr, 1)

\* The count of exactly this address goes, every entry of its host goes.
BanAddress(addr) ==
    /\ m_serverCountMap' = Erase(m_serverCountMap, {addr})
    /\ m_serversMap' = Erase(m_serversMap, {a \in DOMAIN m_serversMap : Equals(a, addr, FALSE)})
    /\ UNCHANGED <<m_challengeMap, m_adminChallengeMap>>

-----------------------------------------------------------------------------
\* Mutated form of CountsAfterRemove: the count outlives the server.
CountsKept(removed) == m_serverCountMap

\* RemoveExpiredServers calls Remove for each expired server: operator[] makes
\* a missing count 0, so it would go to -1; a count that reaches 0 is erased.
CountsAfterRemove(removed) ==
    [a \in {b \in DOMAIN m_serverCountMap \cup removed :
                b \in removed => GetCountForAddress(b) # 1}
        |-> IF a \in removed THEN GetCountForAddress(a) - 1 ELSE m_serverCountMap[a]]

\* Mutated form of UpdateState: looking at a timer resets it.
UpdateStateResetting ==
    LET Swept(map, interval) ==
            [k \in DOMAIN map \ Expired(map, interval) |-> [map[k] EXCEPT !.age = Reset]]
        removed == Expired(m_serversMap, ServerTimeoutInterval)
    IN  /\ m_serversMap' = Swept(m_serversMap, ServerTimeoutInterval)
        /\ m_serverCountMap' = CountsAfterRemove(removed)
        /\ m_challengeMap' = Swept(Erase(m_challengeMap, removed), ChallengeTimeoutInterval)
        /\ m_adminChallengeMap' = Swept(m_adminChallengeMap, ChallengeTimeoutInterval)

\* Mutated form of UpdateState: the challenges of all servers that are looked
\* at are dropped, and not only those of the expired ones.
UpdateStateForgetting ==
    LET removed == Expired(m_serversMap, ServerTimeoutInterval)
        stale   == Expired(m_challengeMap, ChallengeTimeoutInterval)
        staleAdmin == Expired(m_adminChallengeMap, ChallengeTimeoutInterval)
    IN  /\ m_serversMap' = Erase(m_serversMap, removed)
        /\ m_serverCountMap' = CountsAfterRemove(removed)
        /\ m_challengeMap' = Erase(m_challengeMap, DOMAIN m_serversMap \cup stale)
        /\ m_adminChallengeMap' = Erase(m_adminChallengeMap, staleAdmin)

\* The three sweeps in the order of UpdateState; the first one also drops the
\* challenge of every server it removes.
UpdateState ==
    LET removed == Expired(m_serversMap, ServerTimeoutInterval)
        stale   == Expired(m_challengeMap, ChallengeTimeoutInterval)
        staleAdmin == Expired(m_adminChallengeMap, ChallengeTimeoutInterval)
    IN  /\ m_serversMap' = Erase(m_serversMap, removed)
        /\ m_serverCountMap' = CountsAfterRemove(removed)
        /\ m_challengeMap' = Erase(m_challengeMap, removed \cup stale)
        /\ m_adminChallengeMap' = Erase(m_adminChallengeMap, staleAdmin)

\* Every timer of the list one tick later.
AgeEntries ==
    /\ m_serversMap' = Aged(m_serversMap)
    /\ m_challengeMap' = Aged(m_challengeMap)
    /\ m_adminChallengeMap' = Aged(m_adminChallengeMap)
    /\ UNCHANGED m_serverCountMap
=============================================================================
