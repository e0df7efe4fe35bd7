----------------------------- MODULE BanHistory -----------------------------
(* The event loop with a history variable: the hosts banned since the        *)
(* process was started, whether or not they were unbanned again.             *)
EXTENDS EventLoop

VARIABLE bannedSinceStart

historyVars == <<vars, bannedSinceStart>>

HistoryInit == Init /\ bannedSinceStart = {}

HistoryNext ==
    /\ Next
    /\ bannedSinceStart' =
          IF process = "running" THEN bannedSinceStart \cup {b.host : b \in m_banlist'}
          ELSE {}

HistorySpec == HistoryInit /\ [][HistoryNext]_historyVars

\* An address that is counted but not listed, on which Insert throws
\* (server_list.cpp:38), belongs to a host that was banned: time-outs, sweeps
\* and renewals alone never leave a count behind.
OrphansAreBanned ==
    \A a \in DOMAIN m_serverCountMap \ DOMAIN m_serversMap : a.host \in bannedSinceStart

\* A heartbeat ends the process only in the wake of a ban.
ThrowsOnlyAfterBan == process = "out_of_range" => bannedSinceStart # {}
=============================================================================
