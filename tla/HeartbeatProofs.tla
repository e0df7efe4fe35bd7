--------------------------- MODULE HeartbeatProofs --------------------------
(* Proofs about the servers' renewal cycle: servers and network are one way  *)
(* to drive the event loop, and no renewal fails without a lost datagram.    *)
EXTENDS Heartbeat, EventLoopProofs

\* The types of the datagrams.
Requests == [type : {"request"}, server : GameServer, age : 0 .. MaxDelay, again : BOOLEAN]
Replies == [type : {"reply"}, server : GameServer, age : 0 .. MaxDelay, again : BOOLEAN,
            challenge : Nonce]
Appends == [type : {"append"}, server : GameServer, age : 0 .. MaxDelay, again : BOOLEAN,
            request : AppendRequests]

NetworkTypeOK ==
    /\ network \subseteq Requests \cup Replies \cup Appends
    /\ sinceRequest \in [GameServer -> 0 .. Period]
    /\ lost \subseteq GameServer

\* How old the round of a datagram may be: nothing of a round outlives it.
OnTime(d) ==
    /\ d.type = "request" => sinceRequest[d.server] = d.age
    /\ d.type = "reply" => sinceRequest[d.server] <= d.age + MaxDelay
    /\ d.type = "append" => sinceRequest[d.server] <= d.age + 2 * MaxDelay
AllOnTime == \A d \in network : OnTime(d)

\* A request that has not arrived is all that its server has on the way.
Alone(d) == \A e \in network : e.server = d.server => e = d
FreshRequestsAlone ==
    \A d \in network : d.type = "request" /\ ~d.again => Alone(d)

NetworkInv == NetworkTypeOK /\ AllOnTime /\ FreshRequestsAlone

\* A challenge was made at most MaxDelay after the request of its round.
ChallengeOnTime(a) ==
    a \in DOMAIN m_challengeMap => sinceRequest[a] <= m_challengeMap[a].age + MaxDelay

\* The stages of a renewal: the request, the reply or the heartbeat that has
\* not arrived yet, and what the master keeps for it.
Asking(a) ==
    a \notin DOMAIN m_challengeMap /\ \E d \in InFlight("request", a) : ~d.again
HasChallenge(a, challenge, age) ==
    /\ a \in DOMAIN m_challengeMap
    /\ m_challengeMap[a].value = challenge
    /\ m_challengeMap[a].age <= age
Answered(a) ==
    \E d \in InFlight("reply", a) : ~d.again /\ HasChallenge(a, d.challenge, d.age)
Appending(a) ==
    \E d \in InFlight("append", a) :
        ~d.again /\ HasChallenge(a, d.request.challenge, d.age + MaxDelay)
Stage(a) == Asking(a) \/ Answered(a) \/ Appending(a)

\* A listed server registered in this round of its own, or did in the round
\* before and is at a stage of its renewal.
Renewed(a) == m_serversMap[a].age <= sinceRequest[a]
Renewing(a) == m_serversMap[a].age <= Period + sinceRequest[a] /\ Stage(a)
RenewalOK(a) ==
    a \in DOMAIN m_serversMap => ~Banned(a) /\ (a \notin lost => Renewed(a) \/ Renewing(a))

\* A process that has ended keeps nothing (event_loop.cpp:63).
DownIsEmpty ==
    process # "running" => DOMAIN m_serversMap = {} /\ DOMAIN m_challengeMap = {}

\* What is inductive of it, given the invariant of the event loop.
HeartbeatInv ==
    /\ NetworkInv
    /\ DownIsEmpty
    /\ \A a \in GameServer : ChallengeOnTime(a) /\ RenewalOK(a)

-----------------------------------------------------------------------------
\* The network by itself.  What is delivered leaves only copies behind, and
\* what answers it is on the way, in time.
LEMMA Delivery ==
    ASSUME NetworkInv, NEW d \in network, NEW answers, Deliver(d, answers),
           answers \subseteq Replies \cup Appends,
           \A e \in answers : e.server = d.server /\ OnTime(e),
           UNCHANGED sinceRequest, lost' \subseteq GameServer
    PROVE  /\ NetworkInv'
           /\ answers \subseteq network'
           /\ \A e \in network : e # d => e \in network'
  <1> DEFINE copy == [d EXCEPT !.again = TRUE]
  <1>1. PICK copies \in {{}, {copy}} : network' = (network \ {d}) \cup copies \cup answers
    BY DEF Deliver
  <1>2. d \in Requests \cup Replies \cup Appends
    BY DEF NetworkInv, NetworkTypeOK
  <1>3. /\ copy \in Requests \cup Replies \cup Appends
        /\ copy.type = d.type /\ copy.server = d.server /\ copy.age = d.age /\ copy.again
    BY <1>2 DEF Requests, Replies, Appends
  <1> HIDE DEF copy
  <1>4. \A e \in network' : \/ e \in network \ {d}
                            \/ e = copy
                            \/ e \in answers
    BY <1>1
  <1>5. NetworkTypeOK'
    BY <1>1, <1>3 DEF NetworkInv, NetworkTypeOK
  <1>6. AllOnTime'
    <2> SUFFICES ASSUME NEW e \in network' PROVE OnTime(e)
      BY DEF AllOnTime, OnTime
    <2>1. OnTime(d)
      BY DEF NetworkInv, AllOnTime
    <2>2. OnTime(copy)
      BY <1>3, <2>1 DEF OnTime
    <2> QED
      BY <1>4, <2>2 DEF NetworkInv, AllOnTime
  <1>7. FreshRequestsAlone'
    <2> SUFFICES ASSUME NEW f \in network', f.type = "request", ~f.again,
                        NEW e \in network', e.server = f.server
                 PROVE  e = f
      BY DEF FreshRequestsAlone, Alone
    <2>1. f \in network \ {d}
      BY <1>3, <1>4 DEF Replies, Appends
    <2>2. \A g \in network : g.server = f.server => g = f
      BY <2>1 DEF NetworkInv, FreshRequestsAlone, Alone
    <2>3. d.server # f.server
      BY <2>1, <2>2
    <2> QED
      BY <1>3, <1>4, <2>2, <2>3
  <1> QED
    BY <1>1, <1>5, <1>6, <1>7 DEF NetworkInv

\* What the master answers to a challenge request.
LEMMA ChallengeSent ==
    ASSUME NEW a, HandleRequestDatagram(a)
    PROVE  sent' = {} \/ \E n \in Nonce : sent' = {ChallengeResponse(a, n)}
  BY DEF HandleRequestDatagram, HandleChallengeRequest, ProcessChallengeRequest, Dropped

\* The reply to a request that has arrived belongs to the same round as it.
LEMMA ReplyOnTime ==
    ASSUME NetworkInv, NEW a \in GameServer, NEW d \in InFlight("request", a),
           HandleRequestDatagram(a)
    PROVE  LET answers == {Reply(a, r.challenge, d.again) :
                             r \in {s \in sent' : s.type = "challenge"}}
           IN  /\ d \in network
               /\ answers \subseteq Replies
               /\ \A e \in answers : e.server = d.server /\ OnTime(e)
  <1> DEFINE answers == {Reply(a, r.challenge, d.again) :
                           r \in {s \in sent' : s.type = "challenge"}}
  <1>1. d \in Requests /\ d.server = a /\ d \in network
    BY DEF InFlight, NetworkInv, NetworkTypeOK, Requests, Replies, Appends
  <1>2. \A e \in answers : \E n \in Nonce : e = Reply(a, n, d.again)
    BY ChallengeSent DEF ChallengeResponse
  <1>3. sinceRequest[a] = d.age
    BY <1>1 DEF NetworkInv, AllOnTime, OnTime, Requests
  <1>4. sinceRequest[a] <= 0 + MaxDelay /\ 0 \in 0 .. MaxDelay /\ d.again \in BOOLEAN
    BY <1>1, <1>3, HeartbeatAssumption DEF Requests
  <1>5. \A n \in Nonce : /\ Reply(a, n, d.again) \in Replies
                         /\ Reply(a, n, d.again).server = d.server
                         /\ OnTime(Reply(a, n, d.again))
    BY <1>1, <1>4 DEF Reply, Replies, OnTime
  <1> QED
    BY <1>1, <1>2, <1>5

\* So does the heartbeat that answers a reply.
LEMMA AppendOnTime ==
    ASSUME NetworkInv, NEW a \in GameServer, NEW d \in InFlight("reply", a),
           NEW request \in AppendRequests
    PROVE  LET e == Append(a, request, d.again)
           IN  d \in network /\ e \in Appends /\ e.server = d.server /\ OnTime(e)
  <1>1. d \in Replies /\ d.server = a /\ d \in network
    BY DEF InFlight, NetworkInv, NetworkTypeOK, Requests, Replies, Appends
  <1>2. sinceRequest[a] <= d.age + MaxDelay /\ sinceRequest[a] \in Nat
    BY <1>1, HeartbeatAssumption DEF NetworkInv, AllOnTime, OnTime, Replies, NetworkTypeOK
  <1>3. /\ sinceRequest[a] <= 0 + 2 * MaxDelay
        /\ 0 \in 0 .. MaxDelay /\ d.again \in BOOLEAN
    BY <1>1, <1>2, HeartbeatAssumption DEF Replies
  <1> QED
    BY <1>1, <1>3 DEF Append, Appends, OnTime

\* When a period is over nothing of its round is on the way any more.
LEMMA RoundIsOver ==
    ASSUME NetworkInv, NEW a \in GameServer, sinceRequest[a] = Period
    PROVE  \A d \in network : d.server # a
  <1> SUFFICES ASSUME NEW d \in network, d.server = a PROVE FALSE
    OBVIOUS
  <1>1. OnTime(d) /\ d.age \in 0 .. MaxDelay /\ d.type \in {"request", "reply", "append"}
    BY DEF NetworkInv, NetworkTypeOK, AllOnTime, Requests, Replies, Appends
  <1>2. 3 * MaxDelay < Period
    BY TimingAssumption, HeartbeatAssumption, EventLoopAssumption, ServerListAssumption
  <1>3. sinceRequest[a] <= d.age + 2 * MaxDelay
    BY <1>1, HeartbeatAssumption DEF OnTime
  <1> QED
    BY <1>1, <1>2, <1>3, HeartbeatAssumption

\* Nothing is on its way at first.
LEMMA NetworkInvInit == HeartbeatInit => NetworkInv
  BY DEF HeartbeatInit, NetworkInv, NetworkTypeOK, AllOnTime, FreshRequestsAlone

\* A new request is alone on the way.
LEMMA SendRequestNetwork ==
    ASSUME NetworkInv, NEW a \in GameServer, SendRequest(a)
    PROVE  NetworkInv'
  <1> DEFINE new == Request(a)
  <1>1. new \in Requests /\ new.type = "request" /\ new.server = a /\ new.age = 0
    BY HeartbeatAssumption DEF Request, Requests
  <1>2. network' = network \cup {new} /\ sinceRequest' = [sinceRequest EXCEPT ![a] = 0]
        /\ lost' = lost
    BY DEF SendRequest
  <1>3. \A d \in network : d.server # a
    BY RoundIsOver DEF SendRequest
  <1>4. \A d \in network : d.server \in GameServer
    BY DEF NetworkInv, NetworkTypeOK, Requests, Replies, Appends
  <1> HIDE DEF new
  <1>5. sinceRequest'[a] = 0 /\ \A b \in GameServer \ {a} : sinceRequest'[b] = sinceRequest[b]
    BY <1>2 DEF NetworkInv, NetworkTypeOK
  <1>6. NetworkTypeOK'
    BY <1>1, <1>2, HeartbeatAssumption DEF NetworkInv, NetworkTypeOK
  <1>7. AllOnTime'
    <2> SUFFICES ASSUME NEW d \in network' PROVE OnTime(d)'
      BY DEF AllOnTime
    <2>1. CASE d = new
      BY <1>1, <1>5, <2>1 DEF OnTime
    <2>2. CASE d \in network
      BY <1>3, <1>4, <1>5, <2>2 DEF OnTime, NetworkInv, AllOnTime
    <2> QED
      BY <1>2, <2>1, <2>2
  <1>8. FreshRequestsAlone'
    BY <1>1, <1>2, <1>3 DEF NetworkInv, FreshRequestsAlone, Alone
  <1> QED
    BY <1>6, <1>7, <1>8 DEF NetworkInv

\* Time makes every datagram and its round older alike.
LEMMA TickNetwork ==
    ASSUME NetworkInv, HeartbeatTick
    PROVE  /\ NetworkInv'
           /\ \A d \in network \ Late : [d EXCEPT !.age = @ + 1] \in network'
  <1> DEFINE Grown(d) == [d EXCEPT !.age = @ + 1]
  <1>1. /\ \A b \in GameServer : sinceRequest[b] < Period
        /\ sinceRequest' = [b \in GameServer |-> sinceRequest[b] + 1]
        /\ network' = {Grown(d) : d \in network \ Late}
        /\ lost' = lost \cup {d.server : d \in {l \in Late : ~l.again}}
    BY DEF HeartbeatTick
  <1>2. \A d \in network : d.server \in GameServer
    BY DEF NetworkInv, NetworkTypeOK, Requests, Replies, Appends
  <1>3. \A d \in network \ Late :
          /\ Grown(d) \in Requests \cup Replies \cup Appends
          /\ Grown(d).type = d.type /\ Grown(d).server = d.server
          /\ Grown(d).again = d.again /\ Grown(d).age = d.age + 1 /\ d.age \in Nat
    <2> TAKE d \in network \ Late
    <2>1. ~(d.age >= MaxDelay)
      BY DEF Late
    <2>2. d \in Requests \cup Replies \cup Appends
      BY DEF NetworkInv, NetworkTypeOK
    <2>3. CASE d \in Requests
      BY <2>1, <2>3, HeartbeatAssumption DEF Requests
    <2>4. CASE d \in Replies
      BY <2>1, <2>4, HeartbeatAssumption DEF Replies
    <2>5. CASE d \in Appends
      BY <2>1, <2>5, HeartbeatAssumption DEF Appends
    <2> QED
      BY <2>2, <2>3, <2>4, <2>5
  <1> HIDE DEF Grown
  <1>4. NetworkTypeOK'
    <2>1. sinceRequest' \in [GameServer -> 0 .. Period]
      BY <1>1, HeartbeatAssumption DEF NetworkInv, NetworkTypeOK
    <2>2. lost' \subseteq GameServer
      BY <1>1, <1>2 DEF NetworkInv, NetworkTypeOK, Late
    <2> QED
      BY <1>1, <1>3, <2>1, <2>2 DEF NetworkTypeOK
  <1>5. AllOnTime'
    <2> SUFFICES ASSUME NEW d \in network \ Late PROVE OnTime(Grown(d))'
      BY <1>1 DEF AllOnTime
    <2>1. OnTime(d) /\ sinceRequest'[d.server] = sinceRequest[d.server] + 1
          /\ sinceRequest[d.server] \in Nat
      BY <1>1, <1>2, HeartbeatAssumption DEF NetworkInv, AllOnTime, NetworkTypeOK
    <2> QED
      BY <1>3, <2>1, HeartbeatAssumption DEF OnTime
  <1>6. FreshRequestsAlone'
    BY <1>1, <1>3 DEF NetworkInv, FreshRequestsAlone, Alone
  <1> QED
    BY <1>1, <1>4, <1>5, <1>6 DEF NetworkInv, Grown

\* Every step keeps what holds of the network.
LEMMA StepKeepsNetwork == NetworkInv /\ [HeartbeatNext]_heartbeatVars => NetworkInv'
  <1> SUFFICES ASSUME NetworkInv, [HeartbeatNext]_heartbeatVars PROVE NetworkInv'
    OBVIOUS
  <1>0. lost \subseteq GameServer
    BY DEF NetworkInv, NetworkTypeOK
  <1>1. ASSUME NEW a \in GameServer, SendRequest(a) PROVE NetworkInv'
    BY <1>1, SendRequestNetwork
  <1>2. ASSUME NEW a \in GameServer, RecvRequest(a) PROVE NetworkInv'
    <2> PICK d \in InFlight("request", a) :
            /\ HandleRequestDatagram(a)
            /\ Deliver(d, {Reply(a, r.challenge, d.again) :
                             r \in {s \in sent' : s.type = "challenge"}})
      BY <1>2 DEF RecvRequest
    <2> QED
      BY <1>0, <1>2, ReplyOnTime, Delivery DEF RecvRequest
  <1>3. ASSUME NEW a \in GameServer, RecvReply(a) PROVE NetworkInv'
    <2> PICK d \in InFlight("reply", a), request \in AppendRequests :
            Deliver(d, {Append(a, request, d.again)})
      BY <1>3 DEF RecvReply
    <2> QED
      BY <1>0, <1>3, AppendOnTime, Delivery DEF RecvReply
  <1>4. ASSUME NEW a \in GameServer, RecvAppend(a) \/ RecvAppendThrows(a) PROVE NetworkInv'
    <2>1. PICK d \in InFlight("append", a) : Deliver(d, {})
      BY <1>4 DEF RecvAppend, RecvAppendThrows
    <2>2. lost' \subseteq GameServer /\ UNCHANGED sinceRequest /\ d \in network
      BY <1>0, <1>4 DEF RecvAppend, RecvAppendThrows, InFlight
    <2> QED
      BY <2>1, <2>2, Delivery
  <1>5. CASE HeartbeatTick
    BY <1>5, TickNetwork
  <1>6. CASE UNCHANGED <<network, sinceRequest, lost>>
    BY <1>6 DEF NetworkInv, NetworkTypeOK, AllOnTime, OnTime, FreshRequestsAlone, Alone
  <1> QED
    BY <1>1, <1>2, <1>3, <1>4, <1>5, <1>6 DEF HeartbeatNext, RecvOther, ProcessStep, heartbeatVars

\* Datagrams are well formed and none of them outlives its round.
THEOREM NetworkSound == HeartbeatSpec => []NetworkInv
  BY NetworkInvInit, StepKeepsNetwork, PTL DEF HeartbeatSpec

-----------------------------------------------------------------------------
\* The master handles each datagram of a server as the event loop does.
LEMMA RecvIsCallback ==
    ASSUME NEW src \in GameServer \cup Client \cup Console, HandlePacket(src),
           process = "running", UNCHANGED <<process, sinceCleanup>>
    PROVE  Next
  <1>1. src \in Address
    BY RequestHandlerAssumption
  <1>2. GetAddressFamily(src) \in {"IPv4", "IPv6"}
    BY <1>1, NetAddressAssumption DEF GetAddressFamily, Address
  <1>3. RecvCallback(GetAddressFamily(src))
    BY DEF RecvCallback
  <1> QED
    BY <1>2, <1>3 DEF Next, RecvInetCallback, RecvInet6Callback

\* Every step of servers, network and process is a step of the loop or none.
LEMMA StepIsLoopStep == NetworkInv /\ [HeartbeatNext]_heartbeatVars => [Next]_vars
  <1> SUFFICES ASSUME NetworkInv, [HeartbeatNext]_heartbeatVars PROVE [Next]_vars
    OBVIOUS
  <1>1. ASSUME NEW a \in GameServer, SendRequest(a) \/ RecvReply(a) PROVE UNCHANGED vars
    BY <1>1 DEF SendRequest, RecvReply
  <1>2. ASSUME NEW a \in GameServer, RecvRequest(a) PROVE Next
    <2>1. HandlePacket(a)
      BY <1>2 DEF RecvRequest, HandleRequestDatagram, HandlePacket, HandleRequest
    <2> QED
      BY <1>2, <2>1, RecvIsCallback DEF RecvRequest
  <1>3. ASSUME NEW a, NEW d \in InFlight("append", a) PROVE d.request \in AppendRequests
    BY <1>3 DEF InFlight, NetworkInv, NetworkTypeOK, Requests, Replies, Appends
  <1>4. ASSUME NEW a \in GameServer, RecvAppend(a) PROVE Next
    <2>1. PICK d \in InFlight("append", a) : HandleAppendDatagram(a, d.request)
      BY <1>4 DEF RecvAppend
    <2>2. HandlePacket(a)
      BY <1>3, <2>1 DEF HandleAppendDatagram, HandlePacket, HandleRequest
    <2> QED
      BY <1>4, <2>2, RecvIsCallback DEF RecvAppend
  <1>5. ASSUME NEW a \in GameServer, RecvAppendThrows(a) PROVE Next
    BY <1>3, <1>5 DEF RecvAppendThrows, Next, HandlePacketThrows, PacketThrows
  <1>6. CASE RecvOther
    BY <1>6, RecvIsCallback DEF RecvOther
  <1> QED
    BY <1>1, <1>2, <1>4, <1>5, <1>6
       DEF HeartbeatNext, HeartbeatTick, ProcessStep, Next, heartbeatVars

\* Game servers and network are one way to drive the event loop: whatever is
\* shown of Spec (the types, the counts, the bound on every age) is shown of
\* the loop that serves them.
THEOREM HeartbeatImplementsLoop == HeartbeatSpec => Spec
  <1>1. HeartbeatInit => Init
    BY DEF HeartbeatInit
  <1> QED
    BY <1>1, NetworkSound, StepIsLoopStep, PTL DEF HeartbeatSpec, Spec

-----------------------------------------------------------------------------
\* What a step does that leaves a server's entries alone, or drops it.
KeptFor(a) ==
    /\ a \in DOMAIN m_serversMap' =>
         a \in DOMAIN m_serversMap /\ m_serversMap'[a] = m_serversMap[a] /\ ~Banned(a)'
    /\ a \in DOMAIN m_challengeMap' <=> a \in DOMAIN m_challengeMap
    /\ a \in DOMAIN m_challengeMap => m_challengeMap'[a] = m_challengeMap[a]

\* Such a step keeps the invariant of the server, if the server's datagrams
\* that have not arrived stay on the way.
LEMMA KeptServer ==
    ASSUME NEW a \in GameServer, ChallengeOnTime(a), RenewalOK(a), KeptFor(a),
           sinceRequest'[a] = sinceRequest[a], a \in lost => a \in lost',
           \A d \in network : d.server = a /\ ~d.again => d \in network'
    PROVE  ChallengeOnTime(a)' /\ RenewalOK(a)'
  <1>1. ChallengeOnTime(a)'
    BY DEF ChallengeOnTime, KeptFor
  <1>2. Asking(a) => Asking(a)'
    BY DEF Asking, InFlight, KeptFor
  <1>3. Answered(a) => Answered(a)'
    BY DEF Answered, InFlight, HasChallenge, KeptFor
  <1>4. Appending(a) => Appending(a)'
    BY DEF Appending, InFlight, HasChallenge, KeptFor
  <1>5. RenewalOK(a)'
    BY <1>2, <1>3, <1>4 DEF RenewalOK, Renewed, Renewing, Stage, KeptFor
  <1> QED
    BY <1>1, <1>5

\* The entries of one server are not those of another.
LEMMA AssignOther ==
    ASSUME NEW map, NEW key, NEW value, NEW a, a # key
    PROVE  /\ a \in DOMAIN Assign(map, key, value) <=> a \in DOMAIN map
           /\ a \in DOMAIN map => Assign(map, key, value)[a] = map[a]
  BY DEF Assign

\* A request changes nothing that other servers' renewals rest on.
LEMMA RequestKeepsOthers ==
    ASSUME NEW b, HandleRequestDatagram(b), NEW a \in GameServer, a # b, RenewalOK(a)
    PROVE  KeptFor(a)
  <1>1. m_serversMap' = m_serversMap /\ m_banlist' = m_banlist
    BY DEF HandleRequestDatagram, HandleChallengeRequest, ProcessChallengeRequest, Dropped, listVars
  <1>2. \/ m_challengeMap' = m_challengeMap
        \/ \E value : m_challengeMap' = Assign(m_challengeMap, b, value)
    BY DEF HandleRequestDatagram, HandleChallengeRequest, ProcessChallengeRequest,
           GenerateChallenge, Dropped, listVars
  <1>3. Banned(a)' <=> Banned(a)
    BY <1>1 DEF Banned
  <1> QED
    BY <1>1, <1>2, <1>3, AssignOther DEF KeptFor, RenewalOK

\* Nor does a heartbeat.
LEMMA AppendKeepsOthers ==
    ASSUME NEW b, NEW request, HandleAppendDatagram(b, request),
           NEW a \in GameServer, a # b, RenewalOK(a)
    PROVE  KeptFor(a)
  <1>1. m_challengeMap' = m_challengeMap /\ m_banlist' = m_banlist
    BY DEF HandleAppendDatagram, HandleAppendRequest, ProcessAddServerRequest, Dropped, listVars
  <1>2. \/ m_serversMap' = m_serversMap
        \/ \E entry : m_serversMap' = Assign(m_serversMap, b, entry)
    BY DEF HandleAppendDatagram, HandleAppendRequest, ProcessAddServerRequest, Insert,
           Dropped, listVars
  <1>3. Banned(a)' <=> Banned(a)
    BY <1>1 DEF Banned
  <1> QED
    BY <1>1, <1>2, <1>3, AssignOther DEF KeptFor, RenewalOK

\* Clients and consoles renew nobody; a ban drops servers, all of its host.
LEMMA OtherKeeps ==
    ASSUME NEW src, src \notin GameServer, HandlePacket(src),
           NEW a \in GameServer, RenewalOK(a)
    PROVE  /\ KeptFor(a)
           /\ a \in DOMAIN m_serversMap /\ a \notin DOMAIN m_serversMap' => Excluded(a)'
  <1>1. CASE UNCHANGED <<m_serversMap, m_challengeMap, m_banlist>>
    BY <1>1 DEF KeptFor, RenewalOK, Banned
  <1>2. ASSUME NEW host, HandleBanCommand(host) PROVE KeptFor(a) /\
            (a \in DOMAIN m_serversMap /\ a \notin DOMAIN m_serversMap' => Excluded(a)')
    <2> DEFINE gone == {b \in DOMAIN m_serversMap : Equals(b, Parse(host), FALSE)}
    <2>1. /\ m_serversMap' = Erase(m_serversMap, gone)
          /\ m_challengeMap' = m_challengeMap
          /\ m_banlist' = m_banlist \cup {Parse(host)}
      BY <1>2 DEF HandleBanCommand, BanAddress
    <2>2. a \in DOMAIN m_serversMap /\ a \notin DOMAIN m_serversMap' => Excluded(a)'
      BY <2>1, EraseMap DEF Excluded
    <2>3. a \in DOMAIN m_serversMap' =>
            a \in DOMAIN m_serversMap /\ m_serversMap'[a] = m_serversMap[a]
              /\ ~Equals(a, Parse(host), FALSE)
      <3>1. DOMAIN m_serversMap' = DOMAIN m_serversMap \ gone
        BY <2>1, EraseMap
      <3>2. \A k \in DOMAIN m_serversMap \ gone : m_serversMap'[k] = m_serversMap[k]
        BY <2>1, EraseMap
      <3> QED
        BY <3>1, <3>2
    <2>4. Equals(Parse(host), a, TRUE) => Equals(a, Parse(host), FALSE)
      BY DEF Equals
    <2>5. a \in DOMAIN m_serversMap' => ~Banned(a)'
      BY <2>1, <2>3, <2>4 DEF RenewalOK, Banned
    <2> QED
      BY <2>1, <2>2, <2>3, <2>5 DEF KeptFor
  <1>3. ASSUME NEW host, HandleUnbanCommand(host)
        PROVE  KeptFor(a) /\ UNCHANGED m_serversMap
    BY <1>3 DEF HandleUnbanCommand, listVars, KeptFor, RenewalOK, Banned
  <1>4. \/ UNCHANGED <<m_serversMap, m_challengeMap, m_banlist>>
        \/ \E host : HandleBanCommand(host) \/ HandleUnbanCommand(host)
    BY DEF HandlePacket, HandleRequest, Dropped, listVars, ProcessClientQuery, SendServers,
           SendFakeServerInfo, ProcessAdminChallengeRequest, HandleAdminCommand,
           ProcessAdminCommandRequest, HandleCommandRequest, HandleCommand
  <1> QED
    BY <1>1, <1>2, <1>3, <1>4

-----------------------------------------------------------------------------
\* A server's own steps.  It starts a renewal when nothing of the round before
\* is left, its challenge included.
LEMMA OwnRequest ==
    ASSUME IInv, NetworkInv, NEW a \in GameServer, ChallengeOnTime(a), RenewalOK(a),
           SendRequest(a)
    PROVE  ChallengeOnTime(a)' /\ RenewalOK(a)'
  <1> USE EventLoopAssumption, ServerListAssumption, HeartbeatAssumption
  <1>1. /\ sinceRequest[a] = Period /\ sinceRequest'[a] = 0
        /\ network' = network \cup {Request(a)}
        /\ UNCHANGED <<m_serversMap, m_challengeMap, m_banlist, lost>>
    BY DEF SendRequest, vars, listVars, handlerVars, NetworkInv, NetworkTypeOK
  <1>2. a \notin DOMAIN m_challengeMap
    <2> SUFFICES ASSUME a \in DOMAIN m_challengeMap PROVE FALSE
      OBVIOUS
    <2>1. Period <= m_challengeMap[a].age + MaxDelay
      BY <1>1 DEF ChallengeOnTime
    <2>2. m_challengeMap[a].age <= ChallengeTimeoutInterval + sinceCleanup
      BY DEF IInv, StalenessBound, NoOlder
    <2>3. sinceCleanup <= CleanupInterval + MaxLag /\ sinceCleanup \in Nat
          /\ m_challengeMap[a].age \in Nat
      BY AgesAreNat DEF IInv, TypeOK
    <2> QED
      BY <2>1, <2>2, <2>3, TimingAssumption
  <1>3. Asking(a)'
    <2>1. /\ Request(a) \in network' /\ ~Request(a).again
          /\ Request(a).type = "request" /\ Request(a).server = a
      BY <1>1 DEF Request
    <2> QED
      BY <1>1, <1>2, <2>1 DEF Asking, InFlight
  <1>4. ASSUME a \in DOMAIN m_serversMap, a \notin lost PROVE m_serversMap[a].age <= Period
    <2>1. ~Stage(a)
      BY <1>1, RoundIsOver DEF Stage, Asking, Answered, Appending, InFlight
    <2> QED
      BY <1>1, <1>4, <2>1 DEF RenewalOK, Renewed, Renewing
  <1> QED
    <2>1. ChallengeOnTime(a)'
      BY <1>1, <1>2 DEF ChallengeOnTime
    <2>2. ASSUME a \in DOMAIN m_serversMap, a \notin lost PROVE Renewing(a)'
      <3>1. m_serversMap'[a].age <= Period + sinceRequest'[a]
        BY <1>1, <1>4, <2>2
      <3> QED
        BY <1>3, <3>1 DEF Renewing, Stage
    <2> QED
      BY <1>1, <2>1, <2>2 DEF RenewalOK, Banned

\* A listed server is counted once, which is below its quota.
LEMMA NotRefused ==
    ASSUME IInv, NEW a \in DOMAIN m_serversMap, a \notin DOMAIN m_challengeMap
    PROVE  ~ChallengeRefused(a)
  <1>1. GetCountForAddress(a) = 1
    BY DEF IInv, CountsSound, ListedIsCounted, CountsAreOne, GetCountForAddress
  <1> QED
    BY <1>1, TimingAssumption, RequestHandlerAssumption DEF ChallengeRefused, CheckForChallenge

\* Its request gets it a challenge, unless the renewal is further on.
LEMMA OwnRecvRequest ==
    ASSUME IInv, NetworkInv, NEW a \in GameServer, ChallengeOnTime(a), RenewalOK(a),
           RecvRequest(a)
    PROVE  ChallengeOnTime(a)' /\ RenewalOK(a)'
  <1> USE HeartbeatAssumption
  <1> DEFINE answers(d) == {Reply(a, r.challenge, d.again) :
                             r \in {s \in sent' : s.type = "challenge"}}
  <1> PICK d \in InFlight("request", a) : HandleRequestDatagram(a) /\ Deliver(d, answers(d))
    BY DEF RecvRequest
  <1>1. UNCHANGED <<sinceRequest, lost>> /\ lost' \subseteq GameServer
    BY DEF RecvRequest, NetworkInv, NetworkTypeOK
  <1>2. /\ answers(d) \subseteq network'
        /\ \A e \in network : e # d => e \in network'
    BY <1>1, ReplyOnTime, Delivery
  <1>3. d.type = "request" /\ d.server = a /\ d \in network
    BY DEF InFlight
  <1>4. m_serversMap' = m_serversMap /\ m_banlist' = m_banlist
    BY DEF HandleRequestDatagram, HandleChallengeRequest, ProcessChallengeRequest, Dropped, listVars
  <1>5. CASE Banned(a) \/ ChallengeRefused(a)
    <2>1. m_challengeMap' = m_challengeMap
      BY <1>5 DEF HandleRequestDatagram, HandleChallengeRequest, Dropped, listVars
    <2>2. Answered(a) => Answered(a)'
      BY <1>2, <1>3, <2>1 DEF Answered, InFlight, HasChallenge
    <2>3. Appending(a) => Appending(a)'
      BY <1>2, <1>3, <2>1 DEF Appending, InFlight, HasChallenge
    <2>4. a \in DOMAIN m_serversMap /\ ~Banned(a) => ~Asking(a)
      BY <1>5, NotRefused DEF Asking
    <2> QED
      BY <1>1, <1>4, <2>1, <2>2, <2>3, <2>4
         DEF ChallengeOnTime, RenewalOK, Renewed, Renewing, Stage, Banned
  <1>6. CASE ~Banned(a) /\ ~ChallengeRefused(a)
    <2> PICK n \in Nonce : GenerateChallenge(a, n) /\ sent' = {ChallengeResponse(a, n)}
      BY <1>6 DEF HandleRequestDatagram, HandleChallengeRequest, ProcessChallengeRequest
    <2>1. /\ a \in DOMAIN m_challengeMap'
          /\ m_challengeMap'[a] = [age |-> 0, value |-> n]
          /\ a \notin DOMAIN m_challengeMap
      BY <1>6 DEF GenerateChallenge, ChallengeRefused, CheckForChallenge, Assign, Reset
    <2>2. sinceRequest[a] <= 0 + MaxDelay
      BY <1>3 DEF NetworkInv, AllOnTime, OnTime, NetworkTypeOK, Requests, Replies, Appends
    <2>3. ASSUME Stage(a) PROVE Answered(a)'
      <3>1. PICK f \in InFlight("request", a) : ~f.again
        BY <2>1, <2>3 DEF Stage, Asking, Answered, Appending, HasChallenge
      <3>2. d = f /\ ~d.again
        BY <1>3, <3>1 DEF NetworkInv, FreshRequestsAlone, Alone, InFlight
      <3>3. d.again \in BOOLEAN
        BY <1>3 DEF NetworkInv, NetworkTypeOK, Requests, Replies, Appends
      <3>4. Reply(a, n, FALSE) \in network'
        <4>1. ChallengeResponse(a, n) \in {s \in sent' : s.type = "challenge"}
              /\ ChallengeResponse(a, n).challenge = n
          BY DEF ChallengeResponse
        <4>2. Reply(a, n, d.again) \in answers(d)
          BY <4>1
        <4>3. d.again = FALSE
          BY <3>2, <3>3
        <4> QED
          BY <1>2, <4>2, <4>3
      <3>5. /\ Reply(a, n, FALSE) \in InFlight("reply", a)'
            /\ Reply(a, n, FALSE).challenge = n
            /\ Reply(a, n, FALSE).age = 0
            /\ ~Reply(a, n, FALSE).again
        BY <3>4 DEF InFlight, Reply
      <3>6. \A age : age = 0 => HasChallenge(a, n, age)'
        BY <2>1 DEF HasChallenge
      <3> QED
        BY <3>5, <3>6 DEF Answered
    <2> QED
      <3>1. m_challengeMap'[a].age = 0
        BY <2>1
      <3>2. ChallengeOnTime(a)'
        BY <1>1, <2>2, <3>1 DEF ChallengeOnTime
      <3>3. RenewalOK(a)'
        BY <1>1, <1>4, <2>3 DEF RenewalOK, Renewed, Renewing, Stage, Banned
      <3> QED
        BY <3>2, <3>3
  <1> QED
    BY <1>5, <1>6

\* Its answer carries the challenge on.
LEMMA OwnRecvReply ==
    ASSUME NetworkInv, NEW a \in GameServer, ChallengeOnTime(a), RenewalOK(a), ListTypeOK,
           RecvReply(a)
    PROVE  ChallengeOnTime(a)' /\ RenewalOK(a)'
  <1> USE HeartbeatAssumption
  <1> PICK d \in InFlight("reply", a), request \in AppendRequests :
          request.challenge = d.challenge /\ Deliver(d, {Append(a, request, d.again)})
    BY DEF RecvReply
  <1>1. /\ UNCHANGED <<sinceRequest, lost, m_serversMap, m_challengeMap, m_banlist>>
        /\ lost' \subseteq GameServer
    BY DEF RecvReply, vars, listVars, handlerVars, NetworkInv, NetworkTypeOK
  <1>2. /\ Append(a, request, d.again) \in network'
        /\ \A e \in network : e # d => e \in network'
    BY <1>1, AppendOnTime, Delivery
  <1>3. d.type = "reply" /\ d.age \in 0 .. MaxDelay
    BY DEF InFlight, NetworkInv, NetworkTypeOK, Requests, Replies, Appends
  <1>4. Asking(a) => Asking(a)'
    BY <1>1, <1>2, <1>3 DEF Asking, InFlight
  <1>5. Appending(a) => Appending(a)'
    BY <1>1, <1>2, <1>3 DEF Appending, InFlight, HasChallenge
  <1>6. ASSUME Answered(a) PROVE Stage(a)'
    <2> PICK e \in InFlight("reply", a) : ~e.again /\ HasChallenge(a, e.challenge, e.age)
      BY <1>6 DEF Answered
    <2>1. CASE e # d
      BY <1>1, <1>2, <2>1 DEF Stage, Answered, InFlight, HasChallenge
    <2>2. CASE e = d
      <3> DEFINE new == Append(a, request, d.again)
      <3>1. /\ new \in InFlight("append", a)' /\ ~new.again
            /\ new.age = 0 /\ new.request = request
        BY <1>2, <2>2 DEF Append, InFlight
      <3> HIDE DEF new
      <3>2. m_challengeMap[a].age <= 0 + MaxDelay
        BY <1>3, <2>2, AgesAreNat DEF HasChallenge
      <3>3. HasChallenge(a, new.request.challenge, new.age + MaxDelay)'
        BY <1>1, <2>2, <3>1, <3>2 DEF HasChallenge
      <3> QED
        BY <3>1, <3>3 DEF Stage, Appending
    <2> QED
      BY <2>1, <2>2
  <1> QED
    BY <1>1, <1>4, <1>5, <1>6 DEF ChallengeOnTime, RenewalOK, Renewed, Renewing, Stage, Banned

\* Its heartbeat renews it, for its challenge is there and its version current.
LEMMA OwnRecvAppend ==
    ASSUME NetworkInv, NEW a \in GameServer, ChallengeOnTime(a), RenewalOK(a), RecvAppend(a)
    PROVE  ChallengeOnTime(a)' /\ RenewalOK(a)'
  <1> USE HeartbeatAssumption
  <1> PICK d \in InFlight("append", a) :
          /\ HandleAppendDatagram(a, d.request)
          /\ Deliver(d, {})
          /\ lost' = IF ~Banned(a) /\ Appendable(a, d.request) THEN lost \ {a} ELSE lost
    BY DEF RecvAppend
  <1>1. /\ UNCHANGED sinceRequest /\ lost' \subseteq GameServer /\ d \in network
        /\ sinceRequest[a] \in Nat
    BY DEF RecvAppend, NetworkInv, NetworkTypeOK, InFlight
  <1>2. \A e \in network : e # d => e \in network'
    BY <1>1, Delivery
  <1>3. m_challengeMap' = m_challengeMap /\ m_banlist' = m_banlist
    BY DEF HandleAppendDatagram, HandleAppendRequest, ProcessAddServerRequest, Dropped, listVars
  <1>4. ChallengeOnTime(a)'
    BY <1>1, <1>3 DEF ChallengeOnTime
  <1>5. CASE ~Banned(a) /\ Appendable(a, d.request)
    <2>1. PICK entry : entry.age = 0 /\ m_serversMap' = Assign(m_serversMap, a, entry)
      BY <1>5 DEF HandleAppendDatagram, HandleAppendRequest, ProcessAddServerRequest, Insert, Reset
    <2>2. m_serversMap'[a] = entry
      BY <2>1 DEF Assign
    <2>3. m_serversMap'[a].age <= sinceRequest'[a]
      BY <1>1, <2>1, <2>2
    <2>4. RenewalOK(a)'
      BY <1>3, <1>5, <2>3 DEF RenewalOK, Renewed, Banned
    <2> QED
      BY <1>4, <2>4
  <1>6. CASE Banned(a) \/ ~Appendable(a, d.request)
    <2>1. m_serversMap' = m_serversMap /\ lost' = lost
      BY <1>6 DEF HandleAppendDatagram, HandleAppendRequest, Dropped, listVars
    <2>2. Asking(a) => Asking(a)'
      BY <1>2, <1>3 DEF Asking, InFlight
    <2>3. Answered(a) => Answered(a)'
      BY <1>2, <1>3 DEF Answered, InFlight, HasChallenge
    <2>4. ASSUME Appending(a), ~Banned(a) PROVE Appending(a)'
      <3> PICK e \in InFlight("append", a) :
              ~e.again /\ HasChallenge(a, e.request.challenge, e.age + MaxDelay)
        BY <2>4 DEF Appending
      <3>1. e # d
        <4>1. e.request \in AppendRequests
          BY DEF InFlight, NetworkInv, NetworkTypeOK, Requests, Replies, Appends
        <4>2. Appendable(a, e.request)
          BY <4>1 DEF Appendable, CheckForChallenge, ValidateChallenge, HasChallenge
        <4> QED
          BY <1>6, <2>4, <4>2
      <3> QED
        BY <1>2, <1>3, <3>1 DEF Appending, InFlight, HasChallenge
    <2> QED
      BY <1>1, <1>3, <1>4, <2>1, <2>2, <2>3, <2>4 DEF RenewalOK, Renewed, Renewing, Stage, Banned
  <1> QED
    BY <1>5, <1>6

-----------------------------------------------------------------------------
\* Time makes the entries, the datagrams and the round older alike.
LEMMA TickServer ==
    ASSUME IInv, NetworkInv, DownIsEmpty, NEW a \in GameServer, ChallengeOnTime(a), RenewalOK(a),
           HeartbeatTick
    PROVE  ChallengeOnTime(a)' /\ RenewalOK(a)'
  <1> USE HeartbeatAssumption
  <1>0. ListTypeOK /\ sinceRequest[a] \in Nat
    BY DEF IInv, TypeOK, NetworkInv, NetworkTypeOK
  <1>1. CASE process # "running"
    <2>1. DOMAIN m_serversMap' = {} /\ DOMAIN m_challengeMap' = {}
      BY <1>1 DEF DownIsEmpty, HeartbeatTick, Tick, vars, listVars
    <2> QED
      BY <2>1 DEF ChallengeOnTime, RenewalOK
  <1>2. CASE process = "running"
    <2>1. /\ sinceRequest'[a] = sinceRequest[a] + 1
          /\ m_serversMap' = Aged(m_serversMap)
          /\ m_challengeMap' = Aged(m_challengeMap)
          /\ m_banlist' = m_banlist
          /\ lost' = lost \cup {d.server : d \in {l \in Late : ~l.again}}
      BY <1>2 DEF HeartbeatTick, Tick, AgeEntries
    <2>2. /\ DOMAIN m_serversMap' = DOMAIN m_serversMap
          /\ \A k \in DOMAIN m_serversMap : m_serversMap'[k].age = m_serversMap[k].age + 1
      BY <1>0, <2>1, AgedServers DEF ListTypeOK
    <2>3. /\ DOMAIN m_challengeMap' = DOMAIN m_challengeMap
          /\ \A k \in DOMAIN m_challengeMap :
               /\ m_challengeMap'[k].age = m_challengeMap[k].age + 1
               /\ m_challengeMap'[k].value = m_challengeMap[k].value
      BY <1>0, <2>1, AgedChallenges DEF ListTypeOK
    <2>4. /\ a \in DOMAIN m_challengeMap => m_challengeMap[a].age \in Nat
          /\ a \in DOMAIN m_serversMap => m_serversMap[a].age \in Nat
      BY <1>0, AgesAreNat
    <2>5. ChallengeOnTime(a)'
      BY <1>0, <2>1, <2>3, <2>4 DEF ChallengeOnTime
    <2>6. ASSUME a \notin lost', NEW type, NEW d \in InFlight(type, a), ~d.again
          PROVE  \E e \in InFlight(type, a)' :
                    /\ ~e.again /\ e.age = d.age + 1 /\ d.age \in Nat
                    /\ type = "reply" => e.challenge = d.challenge
                    /\ type = "append" => e.request = d.request
      <3> DEFINE older == [d EXCEPT !.age = @ + 1]
      <3>1. d \in network \ Late /\ d.server = a /\ d.type = type
        BY <2>1, <2>6 DEF InFlight, Late
      <3>2. older \in network'
        BY <3>1, TickNetwork
      <3>3. d \in Requests \cup Replies \cup Appends
        BY <3>1 DEF NetworkInv, NetworkTypeOK
      <3>4. /\ older.type = type /\ older.server = a /\ older.again = d.again
            /\ older.age = d.age + 1 /\ d.age \in Nat
            /\ type = "reply" => older.challenge = d.challenge
            /\ type = "append" => older.request = d.request
        BY <3>1, <3>3 DEF Requests, Replies, Appends
      <3> HIDE DEF older
      <3>5. older \in InFlight(type, a)'
        BY <3>2, <3>4 DEF InFlight
      <3> QED
        BY <2>6, <3>4, <3>5
    <2>7. ASSUME a \notin lost', Asking(a) PROVE Asking(a)'
      <3>1. PICK d \in InFlight("request", a) : ~d.again
        BY <2>7 DEF Asking
      <3> QED
        BY <2>3, <2>6, <2>7, <3>1 DEF Asking
    <2>8. ASSUME a \notin lost', Answered(a) PROVE Answered(a)'
      <3>1. PICK d \in InFlight("reply", a) : ~d.again /\ HasChallenge(a, d.challenge, d.age)
        BY <2>8 DEF Answered
      <3>2. PICK e \in InFlight("reply", a)' :
              ~e.again /\ e.age = d.age + 1 /\ d.age \in Nat /\ e.challenge = d.challenge
        BY <2>6, <2>8, <3>1
      <3>3. /\ a \in DOMAIN m_challengeMap'
            /\ m_challengeMap'[a].value = e.challenge
            /\ m_challengeMap'[a].age <= e.age
        BY <2>3, <2>4, <3>1, <3>2 DEF HasChallenge
      <3> QED
        BY <3>2, <3>3 DEF Answered, HasChallenge
    <2>9. ASSUME a \notin lost', Appending(a) PROVE Appending(a)'
      <3>1. PICK d \in InFlight("append", a) :
              ~d.again /\ HasChallenge(a, d.request.challenge, d.age + MaxDelay)
        BY <2>9 DEF Appending
      <3>2. PICK e \in InFlight("append", a)' :
              ~e.again /\ e.age = d.age + 1 /\ d.age \in Nat /\ e.request = d.request
        BY <2>6, <2>9, <3>1
      <3>3. /\ a \in DOMAIN m_challengeMap'
            /\ m_challengeMap'[a].value = e.request.challenge
            /\ m_challengeMap'[a].age <= e.age + MaxDelay
        BY <2>3, <2>4, <3>1, <3>2 DEF HasChallenge
      <3> QED
        BY <3>2, <3>3 DEF Appending, HasChallenge
    <2>10. ASSUME a \in DOMAIN m_serversMap', a \notin lost' PROVE Renewed(a)' \/ Renewing(a)'
      <3>1. a \in DOMAIN m_serversMap /\ a \notin lost
        BY <2>1, <2>2, <2>10
      <3>2. CASE Renewed(a)
        BY <1>0, <2>1, <2>2, <2>4, <3>1, <3>2 DEF Renewed
      <3>3. CASE Renewing(a)
        <4>1. Stage(a)'
          BY <2>7, <2>8, <2>9, <2>10, <3>3 DEF Renewing, Stage
        <4>2. m_serversMap'[a].age <= Period + sinceRequest'[a]
          BY <1>0, <2>1, <2>2, <2>4, <3>1, <3>3 DEF Renewing
        <4> QED
          BY <4>1, <4>2 DEF Renewing
      <3> QED
        BY <3>1, <3>2, <3>3 DEF RenewalOK
    <2>11. RenewalOK(a)'
      BY <2>1, <2>2, <2>10 DEF RenewalOK, Banned
    <2> QED
      BY <2>5, <2>11
  <1> QED
    BY <1>1, <1>2

\* How old a server can be that is listed and has lost nothing.
LEMMA NotExpired ==
    ASSUME IInv, NetworkInv, NEW a \in GameServer, RenewalOK(a),
           a \in DOMAIN m_serversMap, a \notin lost
    PROVE  m_serversMap[a].age <= ServerTimeoutInterval
  <1> USE HeartbeatAssumption, TimingAssumption, ServerListAssumption
  <1>1. m_serversMap[a].age \in Nat /\ sinceRequest[a] \in 0 .. Period
    BY AgesAreNat DEF IInv, TypeOK, NetworkInv, NetworkTypeOK
  <1>2. CASE Renewed(a)
    BY <1>1, <1>2 DEF Renewed
  <1>3. CASE Renewing(a)
    <2>1. PICK d \in network : d.server = a
      BY <1>3 DEF Renewing, Stage, Asking, Answered, Appending, InFlight
    <2>2. /\ d.age \in 0 .. MaxDelay /\ d.type \in {"request", "reply", "append"}
          /\ OnTime(d)
      BY DEF NetworkInv, NetworkTypeOK, AllOnTime, Requests, Replies, Appends
    <2>3. sinceRequest[a] <= d.age + 2 * MaxDelay
      BY <1>1, <2>1, <2>2 DEF OnTime
    <2> QED
      BY <1>1, <1>3, <2>2, <2>3 DEF Renewing
  <1> QED
    BY <1>2, <1>3 DEF RenewalOK

\* The sweep drops neither such a server nor the challenge it needs.
LEMMA CleanupServer ==
    ASSUME IInv, NetworkInv, NEW a \in GameServer, ChallengeOnTime(a), RenewalOK(a),
           CleanupTimerCallback, UNCHANGED <<network, sinceRequest, lost>>
    PROVE  /\ ChallengeOnTime(a)' /\ RenewalOK(a)'
           /\ a \in DOMAIN m_serversMap /\ a \notin lost => a \in DOMAIN m_serversMap'
  <1> USE HeartbeatAssumption, TimingAssumption, ServerListAssumption
  <1> DEFINE removed == Expired(m_serversMap, ServerTimeoutInterval)
             stale == Expired(m_challengeMap, ChallengeTimeoutInterval)
  <1>1. /\ m_serversMap' = Erase(m_serversMap, removed)
        /\ m_challengeMap' = Erase(m_challengeMap, removed \cup stale)
        /\ m_banlist' = m_banlist
    BY DEF CleanupTimerCallback, UpdateState
  <1>2. /\ DOMAIN m_serversMap' = DOMAIN m_serversMap \ removed
        /\ \A k \in DOMAIN m_serversMap \ removed : m_serversMap'[k] = m_serversMap[k]
        /\ DOMAIN m_challengeMap' = DOMAIN m_challengeMap \ (removed \cup stale)
        /\ \A k \in DOMAIN m_challengeMap \ (removed \cup stale) :
              m_challengeMap'[k] = m_challengeMap[k]
    <2> HIDE DEF removed, stale
    <2>1. /\ DOMAIN m_serversMap' = DOMAIN m_serversMap \ removed
          /\ \A k \in DOMAIN m_serversMap \ removed : m_serversMap'[k] = m_serversMap[k]
      BY <1>1 DEF Erase, Restrict
    <2>2. /\ DOMAIN m_challengeMap' = DOMAIN m_challengeMap \ (removed \cup stale)
          /\ \A k \in DOMAIN m_challengeMap \ (removed \cup stale) :
                m_challengeMap'[k] = m_challengeMap[k]
      BY <1>1 DEF Erase, Restrict
    <2> QED
      BY <2>1, <2>2
  <1>3. ASSUME a \in DOMAIN m_serversMap, a \notin lost PROVE a \notin removed
    <2>1. m_serversMap[a].age <= ServerTimeoutInterval /\ m_serversMap[a].age \in Nat
      BY <1>3, NotExpired, AgesAreNat DEF IInv, TypeOK
    <2> QED
      BY <2>1 DEF Expired, IntervalElapsed
  <1>4. ASSUME NEW challenge, NEW age \in Nat, age <= 2 * MaxDelay, HasChallenge(a, challenge, age),
               a \in DOMAIN m_serversMap, a \notin lost
        PROVE  HasChallenge(a, challenge, age)'
    <2>1. m_challengeMap[a].age \in Nat /\ m_challengeMap[a].age <= ChallengeTimeoutInterval
      BY <1>4, AgesAreNat DEF IInv, TypeOK, HasChallenge
    <2>2. a \notin stale
      BY <2>1 DEF Expired, IntervalElapsed
    <2> QED
      BY <1>2, <1>3, <1>4, <2>2 DEF HasChallenge
  <1>5. \A d \in network : d.age \in 0 .. MaxDelay
    BY DEF NetworkInv, NetworkTypeOK, Requests, Replies, Appends
  <1>6. ASSUME a \in DOMAIN m_serversMap, a \notin lost, Stage(a) PROVE Stage(a)'
    <2>1. Asking(a) => Asking(a)'
      BY <1>2 DEF Asking, InFlight
    <2>2. ASSUME Answered(a) PROVE Answered(a)'
      <3> PICK d \in InFlight("reply", a) : ~d.again /\ HasChallenge(a, d.challenge, d.age)
        BY <2>2 DEF Answered
      <3>1. d \in network /\ d \in InFlight("reply", a)'
        BY DEF InFlight
      <3>2. HasChallenge(a, d.challenge, d.age)'
        BY <1>4, <1>5, <1>6, <3>1
      <3> QED
        BY <3>1, <3>2 DEF Answered
    <2>3. ASSUME Appending(a) PROVE Appending(a)'
      <3> PICK d \in InFlight("append", a) :
              ~d.again /\ HasChallenge(a, d.request.challenge, d.age + MaxDelay)
        BY <2>3 DEF Appending
      <3>1. d \in network /\ d \in InFlight("append", a)'
        BY DEF InFlight
      <3>2. HasChallenge(a, d.request.challenge, d.age + MaxDelay)'
        BY <1>4, <1>5, <1>6, <3>1
      <3> QED
        BY <3>1, <3>2 DEF Appending
    <2> QED
      BY <1>6, <2>1, <2>2, <2>3 DEF Stage
  <1>7. ChallengeOnTime(a)'
    BY <1>2 DEF ChallengeOnTime
  <1>8. RenewalOK(a)'
    BY <1>1, <1>2, <1>6 DEF RenewalOK, Renewed, Renewing, Banned
  <1> QED
    BY <1>2, <1>3, <1>7, <1>8

\* The end of the process and its restart leave nothing to renew.
LEMMA EndServer ==
    ASSUME NEW status, End(status), NEW a
    PROVE  /\ ChallengeOnTime(a)' /\ RenewalOK(a)' /\ DownIsEmpty'
           /\ process' = status
  BY EmptyMapIsMap DEF End, ChallengeOnTime, RenewalOK, DownIsEmpty

-----------------------------------------------------------------------------
\* The empty list satisfies the invariant of the renewal cycle.
LEMMA HeartbeatInvInit == HeartbeatInit => HeartbeatInv
  BY NetworkInvInit, EmptyMapIsMap
     DEF HeartbeatInit, Init, ListInit, HeartbeatInv, DownIsEmpty, ChallengeOnTime, RenewalOK

\* A server that a step drops.
Leaves(a) == a \in DOMAIN m_serversMap /\ a \notin DOMAIN m_serversMap'
MayLeave(a) == a \in lost \/ Excluded(a)' \/ process' # "running"

\* Every step keeps the invariant of every server, and drops none without cause.
LEMMA StepKeepsServer ==
    ASSUME IInv, HeartbeatInv, HeartbeatNext, NEW a \in GameServer
    PROVE  /\ ChallengeOnTime(a)' /\ RenewalOK(a)'
           /\ Leaves(a) => MayLeave(a)
  <1>0. /\ NetworkInv /\ DownIsEmpty /\ ChallengeOnTime(a) /\ RenewalOK(a)
        /\ ListTypeOK
    BY DEF HeartbeatInv, IInv, TypeOK
  <1>1. ASSUME NEW b \in GameServer, SendRequest(b) \/ RecvReply(b)
        PROVE  ChallengeOnTime(a)' /\ RenewalOK(a)' /\ UNCHANGED m_serversMap
    <2>1. UNCHANGED <<m_serversMap, m_challengeMap, m_banlist, lost>>
      BY <1>1 DEF SendRequest, RecvReply, vars, listVars, handlerVars
    <2>2. CASE a = b
      BY <1>0, <1>1, <2>1, <2>2, OwnRequest, OwnRecvReply
    <2>3. CASE a # b
      <3>1. KeptFor(a)
        BY <1>0, <2>1 DEF KeptFor, RenewalOK, Banned
      <3>2. sinceRequest'[a] = sinceRequest[a]
        BY <1>0, <1>1, <2>3 DEF SendRequest, RecvReply, NetworkInv, NetworkTypeOK
      <3>3. \A d \in network : d.server = a => d \in network'
        BY <1>1, <2>3 DEF SendRequest, RecvReply, Deliver, InFlight
      <3> QED
        BY <1>0, <2>1, <3>1, <3>2, <3>3, KeptServer
    <2> QED
      BY <2>1, <2>2, <2>3
  <1>2. ASSUME NEW b \in GameServer, RecvRequest(b)
        PROVE  ChallengeOnTime(a)' /\ RenewalOK(a)' /\ UNCHANGED m_serversMap
    <2>1. PICK d \in InFlight("request", b) :
            /\ HandleRequestDatagram(b)
            /\ \E answers : Deliver(d, answers)
      BY <1>2 DEF RecvRequest
    <2>2. m_serversMap' = m_serversMap
      BY <2>1 DEF HandleRequestDatagram, HandleChallengeRequest, ProcessChallengeRequest,
                  Dropped, listVars
    <2>3. CASE a = b
      BY <1>0, <1>2, <2>2, <2>3, OwnRecvRequest
    <2>4. CASE a # b
      <3>1. KeptFor(a)
        BY <1>0, <2>1, <2>4, RequestKeepsOthers
      <3>2. \A e \in network : e.server = a => e \in network'
        BY <2>1, <2>4 DEF Deliver, InFlight
      <3> QED
        BY <1>0, <1>2, <2>2, <3>1, <3>2, KeptServer DEF RecvRequest
    <2> QED
      BY <2>3, <2>4
  <1>3. ASSUME NEW b \in GameServer, RecvAppend(b)
        PROVE  ChallengeOnTime(a)' /\ RenewalOK(a)' /\ ~Leaves(a)
    <2>1. PICK d \in InFlight("append", b) :
            /\ HandleAppendDatagram(b, d.request)
            /\ Deliver(d, {})
      BY <1>3 DEF RecvAppend
    <2>2. ~Leaves(a)
      <3>1. \/ m_serversMap' = m_serversMap
            \/ \E entry : m_serversMap' = Assign(m_serversMap, b, entry)
        BY <2>1 DEF HandleAppendDatagram, HandleAppendRequest, ProcessAddServerRequest,
                    Insert, Dropped, listVars
      <3> QED
        BY <3>1 DEF Assign, Leaves
    <2>3. CASE a = b
      BY <1>0, <1>3, <2>2, <2>3, OwnRecvAppend
    <2>4. CASE a # b
      <3>1. KeptFor(a)
        BY <1>0, <2>1, <2>4, AppendKeepsOthers
      <3>2. \A e \in network : e.server = a => e \in network'
        BY <2>1, <2>4 DEF Deliver, InFlight
      <3>3. UNCHANGED sinceRequest /\ (a \in lost => a \in lost')
        BY <1>3, <2>4 DEF RecvAppend
      <3> QED
        BY <1>0, <2>2, <3>1, <3>2, <3>3, KeptServer
    <2> QED
      BY <2>3, <2>4
  <1>4. ASSUME NEW status, status # "running", End(status)
        PROVE  ChallengeOnTime(a)' /\ RenewalOK(a)' /\ MayLeave(a)
    BY <1>4, EndServer DEF MayLeave
  <1>5. CASE RecvOther
    <2>1. PICK src : src \notin GameServer /\ HandlePacket(src)
      BY <1>5 DEF RecvOther
    <2> QED
      BY <1>0, <1>5, <2>1, OtherKeeps, KeptServer DEF RecvOther, Leaves, MayLeave
  <1>6. CASE HeartbeatTick
    <2>1. DOMAIN m_serversMap' = DOMAIN m_serversMap
      BY <1>0, <1>6, AgedServers
         DEF HeartbeatTick, Tick, AgeEntries, ListTypeOK, vars, listVars
    <2> QED
      BY <1>0, <1>6, <2>1, TickServer DEF Leaves
  <1>7. CASE CleanupTimerCallback /\ UNCHANGED <<network, sinceRequest, lost>>
    BY <1>0, <1>7, CleanupServer DEF Leaves, MayLeave
  <1>8. CASE Restart /\ UNCHANGED <<network, sinceRequest, lost>>
    <2>1. KeptFor(a) /\ UNCHANGED m_serversMap
      BY <1>0, <1>8 DEF Restart, listVars, handlerVars, KeptFor, RenewalOK, Banned
    <2> QED
      BY <1>0, <1>8, <2>1, KeptServer DEF Leaves
  <1> QED
    BY <1>1, <1>2, <1>3, <1>4, <1>5, <1>6, <1>7, <1>8
       DEF HeartbeatNext, ProcessStep, RecvAppendThrows, SignalCallback, RecvFromThrows, Leaves

\* A process that is down has an empty memory.
LEMMA StepKeepsDown ==
    ASSUME DownIsEmpty, HeartbeatNext
    PROVE  DownIsEmpty'
  <1>1. CASE process' = "running"
    BY <1>1 DEF DownIsEmpty
  <1>2. ASSUME NEW status, End(status) PROVE DownIsEmpty'
    BY <1>2, EndServer
  <1>3. CASE UNCHANGED vars
    BY <1>3 DEF DownIsEmpty, vars, listVars
  <1> QED
    BY <1>1, <1>2, <1>3
       DEF HeartbeatNext, SendRequest, RecvReply, RecvRequest, RecvAppend, RecvAppendThrows,
           RecvOther, HeartbeatTick, Tick, ProcessStep, CleanupTimerCallback, SignalCallback,
           RecvFromThrows, Restart

\* The invariant is inductive.
LEMMA StepKeepsHeartbeatInv ==
    IInv /\ HeartbeatInv /\ [HeartbeatNext]_heartbeatVars => HeartbeatInv'
  <1> SUFFICES ASSUME IInv, HeartbeatInv, [HeartbeatNext]_heartbeatVars PROVE HeartbeatInv'
    OBVIOUS
  <1>1. NetworkInv'
    BY StepKeepsNetwork DEF HeartbeatInv
  <1>2. CASE HeartbeatNext
    BY <1>1, <1>2, StepKeepsServer, StepKeepsDown DEF HeartbeatInv
  <1>3. CASE UNCHANGED heartbeatVars
    <2>1. DownIsEmpty'
      BY <1>3 DEF HeartbeatInv, DownIsEmpty, heartbeatVars, vars, listVars
    <2>2. ASSUME NEW a \in GameServer PROVE ChallengeOnTime(a)' /\ RenewalOK(a)'
      <3>1. KeptFor(a)
        BY <1>3, <2>2 DEF HeartbeatInv, KeptFor, RenewalOK, Banned, heartbeatVars, vars,
                          listVars, handlerVars
      <3> QED
        BY <1>3, <3>1, KeptServer DEF HeartbeatInv, heartbeatVars
    <2> QED
      BY <1>1, <2>1, <2>2 DEF HeartbeatInv
  <1> QED
    BY <1>2, <1>3

\* The invariants of the event loop (RecvCallback, CleanupTimerCallback and the ends of
\* the process) and of the renewal cycle hold together in every state.
THEOREM HeartbeatInvariance == HeartbeatSpec => [](IInv /\ HeartbeatInv)
  BY HeartbeatImplementsLoop, Invariance, HeartbeatInvInit, StepKeepsHeartbeatInv, PTL
     DEF HeartbeatSpec

\* With settings that fit the servers' period, a server leaves the list only
\* if a datagram of its own was lost, if its host is banned, or with the
\* process: no delay, copy or order of datagrams, and no leftover challenge,
\* count or late sweep, makes a renewal fail.
THEOREM DropsOnlyAfterLoss == HeartbeatSpec => DropsNeedLoss
  <1>1. ASSUME IInv, HeartbeatInv, [HeartbeatNext]_heartbeatVars
        PROVE  [\A a \in GameServer :
                  (Contains(a) /\ ~Contains(a)') =>
                     a \in lost \/ Excluded(a)' \/ process' # "running"]_heartbeatVars
    BY <1>1, StepKeepsServer DEF Leaves, MayLeave, Contains
  <1> QED
    BY <1>1, HeartbeatInvariance, PTL DEF HeartbeatSpec, DropsNeedLoss
=============================================================================
