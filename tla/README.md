# XashMS in TLA+

A verification development kept beside XashMS, the master server of Xash3D FWGS
(`src/sources/`, C++17 on libevent). TLA+ modules model the server's list of
game servers, its challenges, bans and queries, the event loop that runs them,
the start-up, the datagrams in and out, and the network between the master and
its servers; TLC checks them on small instances, and TLAPS proves the main
safety properties and two refinements for every value of the constants.

## 1. The system

One process, one thread. `EventLoop` (libevent) owns two UDP sockets (one per
address family), a cleanup timer, a one-second timer and two signal events.
Every datagram goes through `RequestHandler::HandlePacket`, which reads and
changes the `ServerList` and the ban list and sends its replies before it
returns. Nothing is persistent; `docker-compose.yml` restarts the process
whenever it ends.

| Component | State | Operations | Works with |
|---|---|---|---|
| `NetAddress` | family, address bytes, port | `Equals` with or without port, `Parse`, hash | key of every map |
| `Timer`, `Expirable` | time of the last `Reset` | `Reset`, `IntervalElapsed` (strict) | every entry of the list |
| `ServerEntry` | properties of a game server, timer | `Update`, `ResetTimeout`, `Expired` | `ServerList`, queries |
| `ServerList` | servers, counts, challenges, admin challenges: four maps | `Insert`, `Remove`, `BanAddress`, `GenerateChallenge`, `ValidateChallenge`, `UpdateState`, ... | the handlers; the cleanup timer |
| `AdminCommandHandler` | a reference to the ban list | `HandleCommandRequest`: ban, unban | `ServerList::BanAddress` |
| `RequestHandler` | ban list, `m_natAnnouncedServers`, packet rates | one handler per request header, `UpdateState` | everything above, `Socket::SendTo` |
| packets (`packet_types/`) | fields of one datagram | `Parse`, `Serialize` | `RequestHandler` |
| `EventLoop` | events and sockets | socket, timer and signal callbacks | dispatches everything |
| `Socket` | descriptor, one receive buffer reused for every datagram, not cleared | `RecvFrom` (throws), `SendTo` | `EventLoop` |
| `ConfigManager`, `ConfigData` | the configuration | `Parse` from JSON, before the loop starts | everything |
| `VersionInfo` | numbers of a version | `Parse`, comparison | checks of clients and servers |
| `BinaryInputStream` | position in a datagram, underflow flag | `Read`, `ReadString`, `SkipBytes`, ... | `Parse` of every packet |
| `InfostringData` | a map from keys to values | `Parse` | heartbeats and queries |
| `BinaryOutputStream` | a buffer of fixed size, or a vector, and the length written | `Write...`, which drop what does not fit | `Serialize` of every reply |
| `Utils::Tokenize` | -- | splits a command into words | `AdminCommandHandler` |
| `Application` | arguments, two sockets, the configuration | `Run`: start-up in one pass, with failures at each step | constructs the rest |

A game server's cycle takes two requests: `q\xff` asks for a challenge, and
`0\n` returns it and puts the server on the list (or renews it). A client's `1\xff` query
is answered with the servers that match; for a client behind NAT every one of
them is sent an announcement too. A console asks for an admin challenge and
sends a command with a digest of a password and that challenge.

**What makes it hard.** Callbacks do not overlap, so there are no data races.
What is left is the order of callbacks over a long run:

- two maps (servers and counts) describe one thing and are changed in four
  places, which do not treat them alike (`Insert`, `Remove`, `BanAddress`,
  `UpdateState`);
- expiry is noticed by the sweep only, which may be late, so stale entries are
  valid meanwhile; and a challenge blocks its address until it has been swept;
- some checks are made on one datagram and relied on by a later one (the quota
  when the challenge is asked for, the ban by a key that includes the port);
- state that outlives a call (`m_natAnnouncedServers`, the receive buffer);
- parsers trust a terminator or a length that the datagram did not bring along
  (the header comparison, the tokeniser of infostrings);
- replies are written into buffers of 64 bytes by a stream that drops what does
  not fit without a word, or into one vector used for several messages;
- a renewal takes three datagrams, any of which may be lost, late, doubled or
  overtaken, against three time-outs that nothing relates;
- a start-up that goes on after most failures, with whatever it has got so far;
- exceptions leave the event loop, and a restart forgets everything.

**What makes it correct.** The list and the counts agree; nothing outlives its
time-out by more than a cleanup period; no server is dropped early; a challenge
remains usable until its own time-out, or until its own server expires; answers and NAT announcements name the
same servers; the ban list changes at an administrator's command only; a request
is made of its own datagram's bytes and of nothing else, and a reply of all of its
own; a silent server, like an unused challenge, leaves eventually, and one that
keeps asking and is not banned is listed again and again; the loop runs on bound sockets only, with
settings that belong together. `PROJECT.json` lists the single hazards at their lines, each with the properties that watch it.

## 2. The modules

The modules follow the classes. Each class keeps its members as VARIABLES of its own
module and a module extends the one of the class it uses:

    NetAddress, Timer  <-  ServerList  <-  AdminCommandHandler  <-  RequestHandler  ->  VersionInfo
                                                                         ^
        Directory  <- - (INSTANCE) - - - - - - - - - - - - - - - -  EventLoop
                                                                         ^
             Heartbeat (network and game servers),  BanHistory (history),  Replies (bytes sent)
                                                                              |
                                                                              v
    BinaryInputStream  <-  Socket                                     BinaryOutputStream

    ConfigData  <-  Application                  InfostringData,  Utils  <-  Texts

| Module | Stands for | Correspondence |
|---|---|---|
| `NetAddress` | `net_address.*` | An address is `[host, port]`. The host stands for the family and the address bytes. `Parse` of an address typed without a port gives port 0. |
| `Timer` | `timer.*`, `Expirable` | A timer is its age in ticks. `IntervalElapsed` is `>`, as in the code. |
| `ServerList` | `server_list.*`, `server_entry.*`, `admin_challenge.h` | The four maps are partial functions, `Contains` is membership in the domain. `Insert` throws as `at()` does (`InsertThrows`). `UpdateState` is the three sweeps in one step; `CountsAfterRemove` has `Remove`'s `operator[]`, decrement and erase. |
| `AdminCommandHandler` | `admin_command_handler.*` | `m_banlist`; authorisation by a digest, ban, unban, every other text. |
| `RequestHandler` | `request_handler.*`, `packet_types/` | One action per request header with every early return as a disjunct; `sent` is the set of datagrams the last handler sent. |
| `EventLoop` | `event_loop.*`, `docker-compose.yml` | One action per callback, time, the ways the process ends and its restart. |
| `VersionInfo` | `version_info.*` | A record of numbers with an optional patch, and the comparisons. |
| `BinaryInputStream` | `binary_input_stream.*` | A stream is a record of data, offset and flag; each reader is an operator from streams to streams. `ReadBytes` and `SkipBytes` move alike, as do `ReadString` and `SkipString`. |
| `Socket` | `socket.*`, the dispatch in `request_handler.cpp`, the stream part of each `Parse` | `RecvFrom` changes storage and size of the vector, and the same step compares headers with the storage. |
| `Heartbeat` | the protocol of `request_handler.cpp` from both sides | Composes `EventLoop` with a network and with game servers. The handlers are those of `EventLoop`, applied to a datagram of `network`, and what they send goes into it. A server asks every `Period` and answers a challenge at once; neither is in this repository, and both are what the two handlers need of it. |
| `BinaryOutputStream` | `binary_output_stream.*` | A stream is a record of the bytes written, the buffer's size and its kind; `WriteBytes` writes all or nothing. |
| `Replies` | `Serialize` of `packet_types/`, `SendFakeServerInfo`, `SendNatAnnounce` | The bytes of each datagram in `sent`. One operator per `Serialize`; `InfoStream` is the stream after so many of the eight messages. |
| `ConfigData` | `config_data.*` | `Parse` from a file to the settings and whether it returned true, with what each early return leaves behind. |
| `Application` | `application.*`, `config_manager.*`, the constructor of `EventLoop`, constructor and `Bind` of `Socket` | One action per step of `Run`, the timer as libevent treats its interval, other programs that take the port, the ways the process ends (the constructor of the event loop among them), and its restart. |
| `Utils` | `utils.cpp` | `Tokenize` as a recursive function, and the reference `Words`. |
| `InfostringData` | `infostring_data.*` | One action per round of the two loops of `Parse`, with a pointer that may leave the text. |
| `Texts` | -- | `InfostringData` and `Utils` over the same texts. |
| `Directory` | what the list promises | The abstract specification: a directory with leases. |
| `BanHistory` | -- | `EventLoop` with the history variable `bannedSinceStart`. |
| `MCEventLoop`, `MCBanHistory`, `MCHeartbeat`, `MCReplies`, `MCApplication`, `MCSocket`, `MCInfostring` | -- | Values of the constants for TLC. |
| `EventLoopProofs`, `BanHistoryProofs`, `HeartbeatProofs`, `HandlerProofs`, `ApplicationProofs`, `SocketProofs`, `InfostringProofs` | -- | Theorems and their proofs. |
| `NaturalLemmas` | -- | Induction over numbers, and the maximum and minimum of a set, for the proofs. |

Some definitions whose comment begins with *Mutated form of* are not part of
any specification. Each is a plausible error in the definition that follows it
and shows that a property would notice.

**Abstractions.**

- *Time.* A tick is a unit of the steady clock. All timers age together. The
  counter `sinceCleanup` says how long ago the cleanup timer was last due;
  `NextDue` is libevent's rule for persistent timers. The code sets no limit to
  the time a callback takes; `MaxLag` is this model's bound on how late the
  loop dispatches a timer that is due, and every statement about staleness is
  relative to it. The theorems hold for every `MaxLag`.
- *Data.* Only what a decision reads is kept: of a `ServerEntry` the NAT flag,
  game directory, protocol and timer; of a request what its handler compares, and whether the
  four numbers are any that are scanned for nothing but the log (`others`). Values that are only
  echoed (query key, the client's own challenge) or logged are left out. A datagram that
  does not parse is `Dropped`.
- *Two levels of requests.* `RequestHandler` receives parsed requests, and its theorems
  hold for every set of them. `Socket` and `InfostringData` say how a datagram becomes a
  request. What they find (a header that belongs to an older datagram, keys from
  the memory behind a text) changes which request a handler gets, and the sets
  contain all of them. `Socket` takes any outcome of the handler into account
  (`"ignored"` is always possible), so it needs no state of the server.
- *Bytes* in `Socket` are named cells. The headers are shortened but keep what the
  dispatch depends on: the query header is the shortest, the two headers of administrators
  share a prefix and the challenge's is the longer of the two.
- *Memory behind a string* is not defined by the language and not initialised by
  the code: `InfostringData` takes any sequence of characters and zeros
  of the set `Leftover` for it, and zeros behind that.
- *The digest* of password and challenge is a pair, that is, injective. The two
  halves of an admin challenge are drawn independently.
- *Random values* are any member of `Nonce`; repetitions included.
- *Undefined behaviour.* `ServerEntry::Update` reads the result of `scan_int`
  without looking whether there is one, five times. For a protocol that is no number the model
  stores any protocol; for that or any other number that is none it may let the process abort (a build that checks).
- *The end of the process* (signal, exception, abort) empties every variable.
  Which way it ended is kept in `process` until the restart.
- *Datagrams* need no network in `EventLoop`: a socket callback may receive any
  request of the enumerated sets at any time, which covers losses,
  repetitions, delays and reordering of requests. Replies are not consumed by
  anybody. Game servers and clients send from any of the addresses of the
  sets `GameServer`, `Client`, `Console`. `Heartbeat` adds the network, where it
  matters what caused what: `network` is a set of datagrams with their ages, one
  that arrives may stay in it (a copy), and one older than `MaxDelay` is gone.
  It takes no step that `EventLoop` does not allow (`HeartbeatImplementsLoop`).
- *Bytes sent* (`Replies`) are numbers. Those whose values nothing depends on, such as
  headers and keys that are echoed, are a `Text` of their length. The C library's text of
  an address is a length, any up to the 45 characters that it may have.
- *Configuration.* A file is a function from names of members to types and values.
  A member of a wrong type is of type `"other"`. Times are in half seconds
  (`Second == 2`), since their truncation to seconds is what matters, and the
  remaining values are taken whole or not at all.
  An entry of `admins` that is no object runs into rapidjson's assertion in a debug
  build, and is undefined without: the process may end (`MayAbort`) or go on.
- *Start-up* has a state of its own and ends where `EventLoop` begins: `running` is that
  module's `process = "running"`, and `EndLoop` any of its ends. `file` is the file as the process will find
  it when it comes to read it: it may be another one after each restart. How a process ended is not kept, since the container
  restarts it anyhow. The settings that
  `EventLoop` takes as constants are those in `m_configData` by then.

## 3. The runs

The runs up to `heartbeat_after_ban` are of `MCEventLoop` (or of `MCReplies`, `MCBanHistory`
and `MCHeartbeat`, which extend it or its module), which is the complete
system above parsed requests; one differs from another in who sends what. Time-outs are written
*server / challenge / cleanup interval / lag*, in ticks. The code's
defaults (`config_data.cpp`) are 360 s / 15 s / 10 s; the runs keep the server
time-out at least as long as the challenge time-out. Nothing in the code relates
the three, and the theorems assume no relation either.

| Run | Instance | Checks | Shows |
|---|---|---|---|
| `queries` | two servers and two clients, one of each family, the clients at port 65535, the IPv6 address with a text of 45 characters; servers with and without NAT, with a good and a malformed protocol or other number; every filter; 1/1/1/0 | `TypeOK`, `NatAnnounceMatchesReply`, `RepliesWhole`, `InfoMessagesOwn`, `ListReadsBack` | The announcements belong to the reply of the same query, no reply is cut by its buffer, the messages to an outdated client do not run into one another, and a list of either family reads back as the servers it lists. A list has at most one server here; `ListsReadBack` is about the longer ones. |
| `bans` | two ports of a host, one of them 0, and a console; digests of administrators and of strangers, two challenge values; 1/1/1/1; with history | `CountsSound`, `OrphansAreBanned`, `ThrowsOnlyAfterBan`, `BanNeedsChallenge`, `ChallengeKept` | Counts are right up to what a ban leaves behind, and only a ban leads to the exception of `Insert`. A ban or unban is a command with an administrator's digest over a challenge that is not too old; until then a copy of it takes effect again. Before its time-out a challenge goes only with its own server, when the sweep finds that one expired. |
| `liveness` | two ports of a host and a console, quota 1, `FairSpec`; 2/1/1/1 | `StalenessBound`, `ImplementsDirectory`, `SilentServerLeaves`, `ChallengeEventuallyLeaves`, `QuotaOneDropsServers`, `ImplementsFairDirectory` | Late sweeps, renewals, bans and overlapping challenges never let an entry live longer than the bound; the list is a directory with leases (refinement); what has expired goes away; and with a quota of one a listed server is refused its renewal and drops off again and again. |
| `heartbeat` | one server that renews itself, a client and a console that bans it; 8/2/1/0, `Period` 5, `MaxDelay` 1; `FairHeartbeatSpec` | `DropsNeedLoss`, `RelistedEventually` | With settings that fit its period a server leaves the list only after a loss, a ban or the end of the process; and whatever happened, the loss of a new challenge with the expired server included (`server_list.cpp:114`), it is listed again and again if the master stays up and no ban of its host stands. |
| `quota_per_host` | two ports of a host, quota 1 | `QuotaPerHost`: **violated** | Finding 1 |
| `banned_ignored` | a server and a console | `BannedNotListed`: **violated** | Finding 2 |
| `heartbeat_after_ban` | a server and a console | `HeartbeatNeverThrows`: **violated** | Finding 3 |
| `short_datagrams` | a buffer of 7 bytes; eight datagrams, one of them too long for it, each cut anywhere, in any order | `StaleFromPrevious`, `HeaderIsOwn` | Two receptions replace the whole buffer; a parsed request has its own header. |
| `invalid_size` | the same | `InvalidSizeIgnored`: **violated** | Finding 4 |
| `infostring` | every text of up to 5 of two letters and the separator, before every memory of up to 2 | `ParsesPairs`, `KeysKept`, `OverrunIsOne`, `TokensAreWords` | `Parse` agrees with the reference definition `Pairs`, unless memory interferes; and what that can do. `Tokenize` agrees with the reference `Words` on the same texts. |
| `fullness` | texts and memory of up to 3 | `FullnessChecked`: **violated** | Finding 5 |
| `startup` | every command line, 57 configuration files, both ports taken and freed at any time, restarts; `FairAppSpec` | `SocketsBound`, `SettingsOfOneFile`, `SweepsIffWholeSecond`, `RestartsServe` | The loop has bound sockets only; its settings are those of the file it has read, of which a `Parse` that fails has taken the administrators and the server's version and nothing else; the cleanup timer repeats if the interval is a second or more and fires once otherwise (Finding 6); and a family whose port was taken is served again after restarts, whatever ends the process, unless the file ends every start. |

`SilentServerLeaves` reads: either a server is off the list from some time on, or its
heartbeats go on being accepted for ever. Nothing else keeps it there.

The sender with port 0 in `bans` deserves a remark: a UDP datagram may carry source
port 0, `m_banlist` holds addresses with port 0 only, so this is the one
sender the early return of `HandlePacket` ever applies to.

**Why the bounds are enough.** Addresses interact through their host (a ban)
and through the shared maps, so two ports of a host and two hosts show each
interaction. Handlers compare one challenge with one value, so two values tell right
from wrong. Time-outs of one or two ticks with a lag of one let an entry be fresh, at its
time-out, past it and unswept, and swept. No run caps a counter: ages are
bounded because a sweep is at most `CleanupInterval + MaxLag` away, which is a
property (`StalenessBound`) and not a constraint. The theorems of section 5
remove these bounds for the properties they state. A datagram affects the buffer
for one further reception only (`StaleFromPrevious`), so pairs of datagrams are all
there is to see. In a text of five characters keys and values
may be empty, repeated or missing, with up to three pairs.

In `heartbeat` the time-outs are the smallest that satisfy `TimingAssumption` with a delay and no lag at
all, each of its inequalities exactly at its limit; the request, its copy, the reply and
the heartbeat of a round may all be under way at once. In `queries` the longest text of an
address and a port of five digits are what the 64 bytes have to hold, and the theorem
`RepliesAreWhole` covers the others. In `startup` the files miss each member, have each member mistyped, and
combine all outcomes of the two versions, three lists of administrators and intervals
below, at and between whole seconds, so each return of `Parse` is taken.

Port 3 is a client's; protocols 48 and 49 and the few versions are stand-ins.
No run uses symmetry, for the properties include temporal ones.

## 4. Fairness

`FairSpec`, of the loop alone, adds weak fairness of two actions only:

- `Tick`: the steady clock does not stop. `Tick` is disabled only when the sweep is
  as late as it may get, so fairness of `Tick` alone would not make the sweep happen.
- `CleanupTimerCallback`: `event_base_dispatch` runs the callback of a timer that
  is due. It stays due until it is dispatched, so weak fairness suffices.

No packet, signal, failure or restart is fair: nobody has to send anything, and
a process that ended may stay down. The liveness properties hold then because
an ended process lists nobody.

`FairHeartbeatSpec` is about a server that goes on and a network that is not cut:

- `HeartbeatTick`, the sweep, and `SendRequest` are weakly fair: the clock, the loop
  as above, and the server's own timer.
- `RecvRequest`, `RecvReply` and `RecvAppend` are strongly fair for each server: a datagram
  that is sent again and again arrives again and again. Weak fairness would say
  nothing, since a datagram that is lost is no longer there to arrive. Any finite number
  of losses in a row remains possible. Restarts are not fair; `RelistedEventually` is
  about a process that stays up, and a host that is not
  banned, from some time on.

`FairAppSpec` is about a container that is kept running:

- The steps of `Run` are weakly fair, as is a timer that is armed or due (libevent).
- `Restart` is weakly fair: `docker-compose.yml` says `restart: always`.
- Binding a socket is strongly fair: a constructor or `Bind` may fail at any
  attempt, but if it is attempted again and again with its port free, it succeeds
  in the end. So is the construction of the loop with that socket bound:
  `event_base_new` or `event_new` may fail in any start, but not in all of them.
- `EndLoop` is not fair, so `RestartsServe` asks for a process that ends again and
  again. Nor is the file: the property has the premise that from some time on it
  is none of those that can abort the process in `ParseConfig` (`MayAbort`), for
  with such a file every start may end there.

## 5. What is proved

The proofs use the constants' assumptions named in the modules
(`NetAddressAssumption`, `VersionAssumption`, `ServerListAssumption`, `AdminAssumption`,
`RequestHandlerAssumption`, `InputAssumption`, `EventLoopAssumption`, `ByteAssumption`,
`SocketAssumption`, `InfostringAssumption`, `ConfigAssumption`, `ApplicationAssumption`,
`RepliesAssumption`, `SourceAssumption`): intervals
are natural numbers, the cleanup interval is not zero, requests have the form
their `Parse` functions guarantee, a malformed or absent value is none of the real
ones, ports fit 16 bits where their digits are counted, the text of an address has at
most 45 characters, and no datagram comes from the unspecified address and port zero (it would be
the end of a list). There is no assumption about how many addresses, values or requests there are, nor how
the time-outs compare, with one exception: the theorems of `HeartbeatProofs` use
`HeartbeatAssumption` (the servers' requests are well formed and of a current version) and
`TimingAssumption`, the conditions on the settings under which a renewal works at all:

    2 * MaxDelay <= challenge time-out                     the challenge outlasts its round trip
    challenge time-out + cleanup interval + MaxLag
                 + MaxDelay < Period                       it has been swept by the next request
    Period + 3 * MaxDelay <= server time-out               the entry lasts until the next heartbeat
    2 <= quota                                             a server's own count does not refuse it

The defaults (15 s, 10 s, 360 s, quota 14) satisfy them for a period of a minute or of five.
A period of 25 s or less does not: the old challenge may still be there, and
a request for a new one is dropped in silence (`request_handler.cpp:70`).

| Theorem | Module | States |
|---|---|---|
| `TypeCorrect` | `EventLoopProofs` | `Spec => []TypeOK` |
| `CountsCorrect` | `EventLoopProofs` | `Spec => []CountsSound` |
| `StalenessBounded` | `EventLoopProofs` | `Spec => []StalenessBound` |
| `ChallengesKept` | `EventLoopProofs` | `Spec => ChallengeKept` |
| `HeartbeatImplementsLoop` | `HeartbeatProofs` | `HeartbeatSpec => Spec` |
| `NetworkSound` | `HeartbeatProofs` | `HeartbeatSpec => []NetworkInv` |
| `DropsOnlyAfterLoss` | `HeartbeatProofs` | `HeartbeatSpec => DropsNeedLoss` |
| `DirectoryImplemented` | `EventLoopProofs` | `Spec => ImplementsDirectory` |
| `OrphansOnlyFromBans` | `BanHistoryProofs` | `HistorySpec => []OrphansAreBanned` |
| `ThrowOnlyAfterBan` | `BanHistoryProofs` | `HistorySpec => []ThrowsOnlyAfterBan` |
| `AnnouncementsMatch` | `HandlerProofs` | `Spec => []NatAnnounceMatchesReply` |
| `BansAreAuthorised` | `HandlerProofs` | `Spec => BanNeedsChallenge` |
| `RepliesAreWhole` | `HandlerProofs` | `Spec => []RepliesWhole` |
| `MessagesAreOwn` | `HandlerProofs` | `Spec => []InfoMessagesOwn` |
| `ListsReadBack` | `HandlerProofs` | `Spec => []ListReadsBack` |
| `QuotaIsPerAddress` | `HandlerProofs` | with a quota of two or more only an outstanding challenge refuses another; with one every listed server is refused |
| `OutputStaysInBuffer` | `HandlerProofs` | no write leaves a buffer of fixed size or changes what is in it |
| `SocketsAreBound` | `ApplicationProofs` | `AppSpec => []SocketsBound` |
| `SettingsAreOfOneFile` | `ApplicationProofs` | `AppSpec => []SettingsOfOneFile` |
| `TimerOffForGood` | `ApplicationProofs` | the cleanup timer of a running loop is off only if its interval is below a second, and then for good |
| `VersionOrder` | `HandlerProofs` | the comparisons of versions are a strict order and its complement |
| `StreamStaysInBounds` | `SocketProofs` | no reader leaves the datagram or clears the flag |
| `OnlyPreviousIsStale` | `SocketProofs` | `SocketSpec => []StaleFromPrevious` |
| `HeadersAreOwn` | `SocketProofs` | `SocketSpec => []HeaderIsOwn` |
| `OverrunBounded` | `InfostringProofs` | `InfoSpec => []OverrunIsOne` |
| `TextIsParsed` | `InfostringProofs` | `InfoSpec => []ParsesPairs` |
| `KeysAreKept` | `InfostringProofs` | `InfoSpec => []KeysKept` |
| `FullnessIsExact` | `InfostringProofs` | `InfoSpec => [](TerminatedTwice => FullnessChecked)` |
| `CommandsAreTokenized` | `InfostringProofs` | `InfoSpec => []TokensAreWords` |

**The inductive invariant** is `IInv == TypeOK /\ CountsSound /\ StalenessBound`
(theorem `Invariance`). Its parts need each other:

- `TypeOK` says that counts are integers, and `CountsAfterRemove` needs them to be 1,
  or a removed server's count would remain or become negative: `CountsSound`.
- `ListedIsCounted` alone is not inductive: a count of 2 would survive a removal,
  a listed server without count would get -1. With `CountsAreOne` each removed
  server's count is erased and no other changes.
- `StalenessBound` is relative to `sinceCleanup`. A tick adds one to both sides. A
  sweep leaves only entries within their time-out and sets `sinceCleanup` to
  `NextDue`, which is not negative because the callback is enabled only when due (`TypeOK`).

`ListInv` collects the part that is about the maps, so that each handler has
one lemma; the proof that `Next` preserves `IInv` has a step per callback and,
below it, per handler.

**The refinement** maps the age of a listed server to its keep-alive timer and
the directory's `up` to `process = "running"`. Handlers that change no server
are stuttering steps; a heartbeat is `Announce`; a sweep is `Expire`; a ban is
`Ban` and removes the servers of its host; every end of the process is `GoDown`.
`TimePasses` is enabled only below the lease, and that is where
`StalenessBound` comes in: `sinceCleanup < CleanupInterval + MaxLag` in `Tick`
gives `age < ServerTimeoutInterval + CleanupInterval + MaxLag`.

**The history.** `HistoryInv` adds to `IInv` that every address counted
but not listed has its host in `bannedSinceStart`, that a host on the ban list is in
it, and that a process ended by the exception has a history. Since `Insert` throws for just those addresses,
`ThrowsOnlyAfterBan` follows.

**The renewal.** A step of `Heartbeat` is a step of `EventLoop` or leaves it alone, so
everything proved of the loop holds with the network too, `IInv` above all. `NetworkInv` then says how
old the round of a datagram is: a request is as old as the time since it was
sent, a reply at most `MaxDelay` older than itself, a heartbeat at most twice that; and a request that has not
arrived is the only datagram of its server, because `Period` is longer than a round. `HeartbeatInv` adds
that a challenge in the map was made at most `MaxDelay` after its request (so none is left
when the next request comes: this is where `StalenessBound` is needed), and that
a listed server that lost nothing has renewed itself in this round (`Renewed`) or is at
a stage of doing so (`Asking`, `Answered`, `Appending`), with the challenge it needs
in the map. The proof has a lemma per step for the server itself and one for all others
(`RequestKeepsOthers`, `AppendKeepsOthers`). A sweep can then drop a listed server only if it is in `lost`.

**Loops over data.** The theorems of the library on induction take an operator as a parameter,
which the installed provers cannot instantiate. The lemma `SetInduction` of `NaturalLemmas` says the same of a set, and a set can be
instantiated. It follows from a theorem of the library without such a parameter: finite sets
of numbers ordered by strict inclusion are well-founded, so among the intervals `0 .. n` with `n` in a set
that is not empty there is a smallest one, and that set has a least number (`LeastNatural`). A recursive function of the model
is a `CHOOSE`; each is shown to exist by giving its values in closed form, and to be that one by
`SetInduction` on the set of the numbers where it agrees.

**The bytes.** `RepliesAreWhole` follows from `TypeOK` and `NatAnnounceMatchesReply` (what is announced is the
address of a client) by adding up lengths: 6 + 45 + 1 + 5 = 57 bytes at most. `MessagesAreOwn` finds
each value of `InfoStream` to be its header and text. In `ListsReadBack`
`Entries` is the closed form of the loop over the servers: byte `k * size + i` is the `i`-th byte of the address after `k`
others (`EntryAt`), and one round appends one address (`EntriesGrow`). So the parts of
the list are the addresses (`PartIsEntry`), none of them is null (`SourceAssumption`),
and the marker is the next part in a list of IPv4 addresses and less than a part in one of IPv6 (`ListEnds`). That the
servers of an answer are finitely many senders of one family is an invariant of the loop
(`ListedSenders`, `SenderLists`) together with `NatAnnounceMatchesReply`.

**The start-up.** `HeldSockets` says of each stage that a socket that was created is bound, and to a
port nobody else has. `SettingsOfOneFile` is inductive itself: before `ParseConfig` the settings are the defaults, which
is why a refused file leaves the defaults and not a mixture of two files. `TimerInv` is the part of
`SweepsIffWholeSecond` that needs no fairness.

**The handlers.** `AnnouncementsMatch` needs no strengthening: `sent` is
rewritten by every handler, and `SendServers` clears the vector before it fills it.
`BansAreAuthorised` uses `Invariance`: a command is accepted while its challenge is
in the map, and `StalenessBound` says how old that can be.

**The buffer.** `SocketInv` adds to the two properties that `size` is the length of
the last datagram, cut to the capacity: the resize to the capacity zeroes what lies
behind `size`, and that is why only one earlier datagram can show. `HeaderIsOwn` rests
on `StreamStaysInBounds`: a `Parse` that has not underflowed has moved over the whole
header, so the compared bytes lie within the datagram.

**The tokeniser.** `OverrunInv` says where the pointer can be in each of the loops:
the outer loop may stand one behind the terminator, the inner loop never does. `ParseInv` says what has been
read at any position: up to the last separator the map holds the pairs of the text so far (`Describes`), `key` and
`value` are the characters since, and the parity of the separators tells the two loops apart. A character
leaves the pairs alone (`PastCharacter`), a separator ends a key or a value (`PastSeparator`). Behind the text, all pairs
are in the map; what memory adds there keeps their keys (`KeysAreKept`) but not their values, so `TextIsParsed`
has the premise that a zero follows, or that the text was not left. Under that
premise the check of finding 5 is exact (`FullnessIsExact`).

**The words of a command.** `TokenizeIsWords`: from a position on, one round of `Tokenize` takes the first of the words that
start there or later (`WordInFront`) and goes on behind it, where the starts that are left are the same without
that one (`StartsStep`). So the function that gives the words from each position is the recursion's (`RoundIsWords`), and
by induction on what is left of the text nothing else is (`RoundsAreUnique`).

**Only model-checked.** Every invariant and action property of the passing runs is proved. Liveness
(`SilentServerLeaves`, `ChallengeEventuallyLeaves`, `QuotaOneDropsServers`,
`ImplementsFairDirectory`, `RelistedEventually`, `SweepsIffWholeSecond`, `RestartsServe`)
is beyond the prover, which handles neither fairness of this kind nor `ENABLED`. What
these rest on and needs no fairness is proved: `StalenessBound` for the leaving of silent servers and of challenges,
`QuotaIsPerAddress` for `QuotaOneDropsServers`, `TimerOffForGood` for `SweepsIffWholeSecond`, `DropsOnlyAfterLoss`
for `RelistedEventually`, `SocketsAreBound` for `RestartsServe`.

## 6. Findings

1. *The quota is per address and port* (`quota_per_host`). `request_handler.cpp:68`
   speaks of "too much servers for this IP address" and the setting is called
   `max_servers_per_ip`, but the count is kept under a key that includes the port, so it never
   exceeds 1 (`CountsAreOne`). A quota above one is never reached, and a quota of one refuses a
   listed server its own renewal (`QuotaOneDropsServers`).
2. *A ban does not keep a host out* (`banned_ignored`). `request_handler.cpp:41`
   says packets from banned addresses are ignored, but the ban list holds addresses with port 0
   and is looked up with the sender's port. The ban removes the host's servers;
   one whose count is not kept under its own port may register again at once.
3. *A heartbeat after a ban ends the process* (`heartbeat_after_ban`).
   `BanAddress` erases the servers of every port and the count of port 0, so the counts of
   the banned servers stay. The next heartbeat of such a server passes the checks
   (its challenge is kept too), `Insert` skips the insertion, `at()` throws and nothing catches
   it. `OrphansAreBanned` and `ThrowsOnlyAfterBan` show that this is the only way there.
4. *A short datagram may complete itself from the one before* (`invalid_size`).
   `request_handler.cpp:49` ignores invalid sizes, but only those below two bytes. The comparison with the
   header of an admin challenge request reads 14 bytes of the buffer, and there is nothing
   to parse behind it. After such a request, a datagram that repeats two bytes of
   it is handled as one. `HeaderIsOwn` shows that no other request can be
   dispatched this way, for the others look at the length while parsing.
5. *The tokeniser reads behind its text* (`fullness`). When a value ends at the terminator, the
   inner loop stops there and the outer loop's `p++` steps over it. If the byte behind it is not zero,
   the loop reads on and adds keys that the text does not have, so the check that
   `server_append_request.cpp:32` reports on may pass for a text that is not complete.
   `OverrunIsOne` shows that a zero there confines it to one byte. Whether it is zero depends on the
   allocator and on earlier strings, which is why `Leftover` is a set.

6. *An interval below a second ends all sweeps* (`startup`). `src/README.md:9` says that the master removes a server that stopped
   sending heartbeats "after some time", and the setting `cleanup_interval` is a number with a fraction. `event_loop.cpp:142`
   cuts the fraction off, and libevent fires a persistent timer with a zero interval once. `SweepsIffWholeSecond` says
   that a process that stays up sweeps again and again exactly if the interval is a second or more; `TimerOffForGood` proves
   that below it the timer is off after its first dispatch. Servers and challenges then stay for ever.

## 7. Not modelled

- `m_packetRateMap` and the one-second timer that clears it: counted, never read.
- Logging, the ownership of handles in the libevent wrappers, build information. `event_add` may fail and its result is dropped
  (`libevent_wrappers.cpp:56`): the model takes an event that was created to be added.
- The conversions of the C library and of scnlib and fmt: addresses to and from text, numbers from text.
  Their outcomes are modelled (a text is valid or not, a version is a record or
  `Malformed`), not how they read characters.
- Fields of a `ServerEntry` that are logged or kept and read by nobody; `Timer::SetInterval` and
  `CycleElapsed`, which nobody calls.
- What `sendto` does: its result is dropped (`socket.cpp`), so a reply that cannot be sent is a
  lost datagram. That includes a list of some ten thousand servers, longer than a datagram
  (`client_query_response.cpp:42` names it as to do): an instance of that size is beyond a
  model checker, and there is one call to look at.
- A digest longer than 64 bytes (`admin_command_request.cpp:24`), which a configuration
  may ask for: what follows the overrun is undefined, and the model has no bytes of a digest.
- The end marker of a list of IPv6 addresses is six zero bytes and no address of that family. A client that
  reads whole addresses only, as `ListReadsBack` does, ignores it; clients are not part of this repository.
