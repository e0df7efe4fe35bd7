----------------------------- MODULE EventLoop ------------------------------
(* The process (event_loop.cpp): one thread dispatches the callbacks of two  *)
(* sockets, of the cleanup timer and of the signals, each run to its end.    *)
(* Everything the master server knows is in its memory, so the end of the    *)
(* process, by whatever way, empties it; docker-compose.yml restarts it.     *)
EXTENDS RequestHandler, FiniteSets

CONSTANTS CleanupInterval,   \* cleanup_interval, in ticks
          MaxLag             \* how late the loop may dispatch the timer

ASSUME EventLoopAssumption ==
    /\ CleanupInterval \in Nat \ {0}
    /\ MaxLag \in Nat

VARIABLES process,           \* "running", or how the process ended
          sinceCleanup       \* ticks since the timer was last due

vars == <<listVars, handlerVars, process, sinceCleanup>>

ProcessStatus == {"running", "stopped", "recv_error", "out_of_range", "aborted"}

TypeOK ==
    /\ ListTypeOK
    /\ HandlerTypeOK
    /\ process \in ProcessStatus
    /\ sinceCleanup \in 0 .. (CleanupInterval + MaxLag)

Init ==
    /\ ListInit
    /\ HandlerInit
    /\ process = "running"
    /\ sinceCleanup = 0

-----------------------------------------------------------------------------
RecvCallback(family) ==
    /\ process = "running"
    /\ \E src \in GameServer \cup Client \cup Console :
            GetAddressFamily(src) = family /\ HandlePacket(src)
    /\ UNCHANGED <<process, sinceCleanup>>

\* The two sockets have a callback each, one per family.
RecvInetCallback == RecvCallback("IPv4")
RecvInet6Callback == RecvCallback("IPv6")

\* libevent: a persistent timer is due again an interval after it was due,
\* or an interval from now when that time has passed already.
NextDue == IF sinceCleanup > 2 * CleanupInterval THEN 0
           ELSE sinceCleanup - CleanupInterval

CleanupTimerCallback ==
    /\ process = "running"
    /\ sinceCleanup >= CleanupInterval
    /\ UpdateState
    /\ sent' = {}
    /\ sinceCleanup' = NextDue
    /\ UNCHANGED <<m_banlist, m_natAnnouncedServers, process>>

\* Time passes.  The loop dispatches a due timer at most MaxLag ticks late.
Tick ==
    /\ process = "running"
    /\ sinceCleanup < CleanupInterval + MaxLag
    /\ AgeEntries
    /\ sent' = {}
    /\ sinceCleanup' = sinceCleanup + 1
    /\ UNCHANGED <<m_banlist, m_natAnnouncedServers, process>>

-----------------------------------------------------------------------------
\* The process ends and its memory with it.
End(status) ==
    /\ process = "running"
    /\ process' = status
    /\ sinceCleanup' = 0
    /\ m_serversMap' = EmptyMap /\ m_serverCountMap' = EmptyMap
    /\ m_challengeMap' = EmptyMap /\ m_adminChallengeMap' = EmptyMap
    /\ m_banlist' = {} /\ m_natAnnouncedServers' = {} /\ sent' = {}

\* InitSignalsEvents: SIGTERM and SIGINT leave the loop.
SignalCallback == End("stopped")

\* recvfrom() fails: RecvFrom throws, nothing catches it.
RecvFromThrows == End("recv_error")

\* An exception of HandlePacket is not caught either.
HandlePacketThrows ==
    /\ \E src \in GameServer : PacketThrows(src)
    /\ End("out_of_range")

HandlePacketAborts ==
    /\ \E src \in GameServer : PacketAborts(src)
    /\ End("aborted")

\* docker-compose.yml: restart: always.
Restart ==
    /\ process # "running"
    /\ process' = "running"
    /\ UNCHANGED <<listVars, handlerVars, sinceCleanup>>

Next ==
    \/ RecvInetCallback
    \/ RecvInet6Callback
    \/ CleanupTimerCallback
    \/ Tick
    \/ SignalCallback
    \/ RecvFromThrows
    \/ HandlePacketThrows
    \/ HandlePacketAborts
    \/ Restart

Spec == Init /\ [][Next]_vars

\* The clock does not stop, and the loop dispatches a timer that is due.
Fairness == WF_vars(Tick) /\ WF_vars(CleanupTimerCallback)
FairSpec == Spec /\ Fairness

-----------------------------------------------------------------------------
\* The count map never disagrees with the list by more than a leftover entry:
\* every listed server is counted, and every count is exactly one.  So Remove
\* (server_list.cpp:110) never makes a count negative and always erases it,
\* and Insert never lists an address that the next Insert would list again.
ListedIsCounted == DOMAIN m_serversMap \subseteq DOMAIN m_serverCountMap
CountsAreOne == \A a \in DOMAIN m_serverCountMap : m_serverCountMap[a] = 1
CountsSound == ListedIsCounted /\ CountsAreOne

\* How far past its time-out an entry may get: as far as the sweep is away.
NoOlder(map, bound) == \A a \in DOMAIN map : map[a].age <= bound

\* Nothing outlives its time-out by more than the time since the last sweep
\* was due, however sweeps, registrations, bans and restarts interleave: a
\* silent server leaves the list within one cleanup period (plus the lag) of
\* its time-out, and no challenge stays usable longer than that either.
StalenessBound ==
    /\ NoOlder(m_serversMap, ServerTimeoutInterval + sinceCleanup)
    /\ NoOlder(m_challengeMap, ChallengeTimeoutInterval + sinceCleanup)
    /\ NoOlder(m_adminChallengeMap, ChallengeTimeoutInterval + sinceCleanup)

\* A challenge that was handed out stays valid with its value until its own
\* time-out, except that the sweep which removes its own server as expired
\* takes it along, however new it is (server_list.cpp:114), and the end of the
\* process takes all.  No query, ban, retry or heartbeat and no other server's
\* expiry makes a prompt "0\n" answer fail.
KeepsChallenge(a) ==
    \/ a \in DOMAIN m_challengeMap' /\ m_challengeMap'[a].value = m_challengeMap[a].value
    \/ IntervalElapsed(m_challengeMap[a].age, ChallengeTimeoutInterval)
    \/ /\ Contains(a) /\ ~Contains(a)'
       /\ IntervalElapsed(m_serversMap[a].age, ServerTimeoutInterval)
    \/ process' # "running"
ChallengeKept == [][\A a \in DOMAIN m_challengeMap : KeepsChallenge(a)]_vars

\* The NAT announcements of a query go to exactly the servers of the list that
\* this query's client was sent, all of the client's family: nothing is left
\* over in m_natAnnouncedServers from a query before (request_handler.cpp:259).
NatAnnounceMatchesReply ==
    \A d \in sent :
        /\ d.type = "nat" =>
             \E r \in sent : r.type = "servers" /\ r.nat /\ r.to = d.client /\ d.to \in r.servers
        /\ d.type = "servers" =>
             \A a \in d.servers :
                /\ GetAddressFamily(a) = GetAddressFamily(d.to)
                /\ d.nat => NatAnnounce(a, d.to) \in sent

\* The ban list changes by one command at a time, and only by one made with an
\* administrator's password for the challenge that some console holds: what a
\* stranger sends, or an administrator for a challenge that was swept by now,
\* bans and unbans nobody.  The challenge is at most a time-out, a cleanup
\* period and its lag old: until then a copy of the command, or one of another
\* console over the same challenge, takes effect too (request_handler.cpp:196),
\* and after that never again.
Commanded(request) ==
    \/ request.command = "ban" /\ m_banlist' = m_banlist \cup {Parse(request.host)}
    \/ request.command = "unban" /\ m_banlist' = m_banlist \ {Parse(request.host)}
BanNeedsChallenge ==
    [][(process' = "running" /\ m_banlist' # m_banlist) =>
        \E c \in DOMAIN m_adminChallengeMap, password \in Admins, request \in Commands :
            /\ m_adminChallengeMap[c].age
                 <= ChallengeTimeoutInterval + CleanupInterval + MaxLag
            /\ request.master = m_adminChallengeMap[c].master
            /\ request.digest = Digest(password, m_adminChallengeMap[c].hash)
            /\ Commanded(request)]_vars

-----------------------------------------------------------------------------
\* A server that stays silent leaves the list for good: it is unlisted from
\* some time on, or its heartbeats keep being accepted.  Queries, challenges and
\* sweeps that merely find it there do not extend its stay.
Announces(a) ==
    /\ \E request \in AppendRequests :
            Appendable(a, request) /\ ProcessAddServerRequest(a, request)
    /\ UNCHANGED <<process, sinceCleanup>>
SilentServerLeaves ==
    \A a \in GameServer : <>[]~Contains(a) \/ []<><<Announces(a)>>_vars

\* With a quota of one, being listed is itself the reason to refuse the server
\* its next challenge (request_handler.cpp:67): it can renew only while the
\* challenge it registered with lasts, so it drops off the list again and again
\* however faithfully it sends its heartbeats.
QuotaOneDropsServers == \A a \in GameServer : []<>~Contains(a)

\* A challenge does not block its address for ever (request_handler.cpp:70):
\* again and again there is none, and a new one may be asked for.
ChallengeEventuallyLeaves ==
    \A a \in GameServer : []<>(~CheckForChallenge(a))

-----------------------------------------------------------------------------
\* The directory that the list implements: the age of a listed server is that
\* of its keep-alive timer, and the lease is the time-out plus a late cleanup.
ListedAge == [a \in DOMAIN m_serversMap |-> m_serversMap[a].age]
BannedHosts == {b.host : b \in m_banlist}
HostOfAddress == [a \in Address |-> a.host]
LongestLease == ServerTimeoutInterval + CleanupInterval + MaxLag

D == INSTANCE Directory WITH
        Server <- Address,
        HostOf <- HostOfAddress,
        Timeout <- ServerTimeoutInterval,
        Lease <- LongestLease,
        age <- ListedAge,
        banned <- BannedHosts,
        up <- (process = "running")

\* The list implements the directory: nobody is dropped early, whatever sweeps,
\* challenges and counts do, and nobody stays listed beyond the lease.
ImplementsDirectory == D!Spec

\* Under the fairness of the loop it also keeps the directory's promise that
\* an expired server is removed.
ImplementsFairDirectory == D!FairSpec

-----------------------------------------------------------------------------
\* "too much servers for this IP address" (request_handler.cpp:68): a host with
\* the quota of servers on the list gets no further challenge.
QuotaPerHost ==
    [][\A d \in sent' : d.type = "challenge" =>
        Cardinality({a \in DOMAIN m_serversMap : a.host = d.to.host}) < ServerCountQuota]_vars

\* "ignore packets from banned addresses" (request_handler.cpp:41): as long as
\* a host is banned, nothing it sends gets a server of its listed.
BannedNotListed ==
    \A a \in DOMAIN m_serversMap, b \in m_banlist : ~Equals(a, b, FALSE)

\* "masterserver adds this server address to list" (README.md:7): a heartbeat
\* with a valid challenge is not the end of the master server.
HeartbeatNeverThrows == process # "out_of_range"
=============================================================================
