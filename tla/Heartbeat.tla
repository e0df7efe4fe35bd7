----------------------------- MODULE Heartbeat ------------------------------
(* Game servers that keep themselves listed over a real network: the event   *)
(* loop with the datagrams between it and its servers.  A server asks for a  *)
(* challenge every Period, and answers each challenge it gets with its       *)
(* heartbeat.  A datagram may arrive at any time within MaxDelay, overtake   *)
(* others, arrive more than once, or never.  The master ends and restarts.   *)
EXTENDS EventLoop

CONSTANTS Period,            \* ticks between two challenge requests of a server
          MaxDelay           \* ticks after which a datagram does not arrive any more

\* The servers: their requests are well formed and of a current version.
ASSUME HeartbeatAssumption ==
    /\ Period \in Nat /\ MaxDelay \in Nat
    /\ \A n \in Nonce : \E request \in AppendRequests : request.challenge = n
    /\ \A request \in AppendRequests :
         /\ AtLeast(request.version, ServerMinimalVersion)
         /\ Malformed \notin {request.protocol, request.others}

\* The settings: a challenge lasts for its round trip and is gone by the next
\* one, and a server stays listed from one round to the end of the next.
ASSUME TimingAssumption ==
    /\ 2 * MaxDelay <= ChallengeTimeoutInterval
    /\ ChallengeTimeoutInterval + CleanupInterval + MaxLag + MaxDelay < Period
    /\ Period + 3 * MaxDelay <= ServerTimeoutInterval
    /\ 2 <= ServerCountQuota

VARIABLES network,           \* the datagrams on their way
          sinceRequest,      \* server -> ticks since its last challenge request
          lost               \* servers with a datagram lost since they registered

heartbeatVars == <<vars, network, sinceRequest, lost>>

\* again: a copy of a datagram that has arrived, or what came of such a copy.
Request(server) ==
    [type |-> "request", server |-> server, age |-> 0, again |-> FALSE]
Reply(server, challenge, again) ==
    [type |-> "reply", server |-> server, age |-> 0, again |-> again, challenge |-> challenge]
Append(server, request, again) ==
    [type |-> "append", server |-> server, age |-> 0, again |-> again, request |-> request]

InFlight(type, server) == {d \in network : d.type = type /\ d.server = server}

HeartbeatInit ==
    /\ Init
    /\ network = {}
    /\ sinceRequest \in [GameServer -> 0 .. Period]
    /\ lost = {}

\* d arrives, and may arrive again later; the answers are on their way.
Deliver(d, answers) ==
    \E copies \in {{}, {[d EXCEPT !.again = TRUE]}} :
        network' = (network \ {d}) \cup copies \cup answers

-----------------------------------------------------------------------------
\* A server sends its next challenge request when the period is over.
SendRequest(server) ==
    /\ sinceRequest[server] = Period
    /\ sinceRequest' = [sinceRequest EXCEPT ![server] = 0]
    /\ network' = network \cup {Request(server)}
    /\ UNCHANGED <<vars, lost>>

\* A server answers a challenge with its heartbeat, at once.
RecvReply(server) ==
    /\ \E d \in InFlight("reply", server) :
         \E request \in {r \in AppendRequests : r.challenge = d.challenge} :
            Deliver(d, {Append(server, request, d.again)})
    /\ UNCHANGED <<vars, sinceRequest, lost>>

-----------------------------------------------------------------------------
\* HandlePacket on a datagram that is a challenge request.
HandleRequestDatagram(server) ==
    \/ Banned(server) /\ Dropped
    \/ ~Banned(server) /\ HandleChallengeRequest(server)

RecvRequest(server) ==
    /\ process = "running"
    /\ \E d \in InFlight("request", server) :
        /\ HandleRequestDatagram(server)
        /\ Deliver(d, {Reply(server, r.challenge, d.again) :
                         r \in {s \in sent' : s.type = "challenge"}})
    /\ UNCHANGED <<process, sinceCleanup, sinceRequest, lost>>

\* HandlePacket on a datagram that is a heartbeat.
HandleAppendDatagram(server, request) ==
    \/ Banned(server) /\ Dropped
    \/ ~Banned(server) /\ HandleAppendRequest(server, request)

\* The renewal is over for a server whose heartbeat registers it.
RecvAppend(server) ==
    /\ process = "running"
    /\ \E d \in InFlight("append", server) :
        /\ HandleAppendDatagram(server, d.request)
        /\ Deliver(d, {})
        /\ lost' = IF ~Banned(server) /\ Appendable(server, d.request)
                   THEN lost \ {server} ELSE lost
    /\ UNCHANGED <<process, sinceCleanup, sinceRequest>>

\* A heartbeat that throws out of the event loop.
RecvAppendThrows(server) ==
    /\ \E d \in InFlight("append", server) :
        /\ ~Banned(server) /\ AppendThrows(server, d.request)
        /\ Deliver(d, {})
    /\ End("out_of_range")
    /\ UNCHANGED <<sinceRequest, lost>>

\* Clients and consoles go on with what they do.
RecvOther ==
    /\ process = "running"
    /\ \E src \in (Client \cup Console) \ GameServer : HandlePacket(src)
    /\ UNCHANGED <<process, sinceCleanup, network, sinceRequest, lost>>

-----------------------------------------------------------------------------
\* Time passes for all, whether the master runs or not.  A datagram that is
\* not delivered in time is lost.
Late == {d \in network : d.age >= MaxDelay}

HeartbeatTick ==
    /\ \A a \in GameServer : sinceRequest[a] < Period
    /\ Tick \/ (process # "running" /\ UNCHANGED vars)
    /\ sinceRequest' = [a \in GameServer |-> sinceRequest[a] + 1]
    /\ network' = {[d EXCEPT !.age = @ + 1] : d \in network \ Late}
    /\ lost' = lost \cup {d.server : d \in {l \in Late : ~l.again}}

\* What happens to the process alone.
ProcessStep ==
    /\ CleanupTimerCallback \/ SignalCallback \/ RecvFromThrows \/ Restart
    /\ UNCHANGED <<network, sinceRequest, lost>>

HeartbeatNext ==
    \/ \E a \in GameServer : SendRequest(a)
    \/ \E a \in GameServer : RecvRequest(a)
    \/ \E a \in GameServer : RecvReply(a)
    \/ \E a \in GameServer : RecvAppend(a)
    \/ \E a \in GameServer : RecvAppendThrows(a)
    \/ RecvOther
    \/ HeartbeatTick
    \/ ProcessStep

HeartbeatSpec == HeartbeatInit /\ [][HeartbeatNext]_heartbeatVars

\* Servers and the clock go on, the loop dispatches a timer that is due, and a
\* datagram that is sent again and again arrives again and again.
HeartbeatFairness ==
    /\ WF_heartbeatVars(HeartbeatTick)
    /\ WF_heartbeatVars(CleanupTimerCallback /\ ProcessStep)
    /\ \A a \in GameServer :
         /\ WF_heartbeatVars(SendRequest(a))
         /\ SF_heartbeatVars(RecvRequest(a))
         /\ SF_heartbeatVars(RecvReply(a))
         /\ SF_heartbeatVars(RecvAppend(a) \/ RecvAppendThrows(a))
FairHeartbeatSpec == HeartbeatSpec /\ HeartbeatFairness

-----------------------------------------------------------------------------
\* The host of a is banned, whatever its port.
Excluded(a) == \E b \in m_banlist : Equals(a, b, FALSE)

\* Every server that keeps asking is listed, again and again, if the master
\* stays up and its host is not banned for good: whatever is lost, doubled or
\* late, and whichever challenge, count or lifted ban is left over from before
\* (request_handler.cpp:65-72, server_list.cpp:114), it is not shut out for ever.
RelistedEventually ==
    <>[](process = "running") =>
        \A a \in GameServer : <>[]~Excluded(a) => []<>Contains(a)

\* A server leaves the list only if one of its datagrams was lost since it
\* registered, if its host is banned, or with the process: duplicated, late and
\* reordered datagrams, late sweeps and challenges that are still there never
\* make a server miss its renewal.
DropsNeedLoss ==
    [][\A a \in GameServer :
         (Contains(a) /\ ~Contains(a)') =>
            a \in lost \/ Excluded(a)' \/ process' # "running"]_heartbeatVars
=============================================================================
