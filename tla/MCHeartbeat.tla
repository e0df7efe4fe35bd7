---------------------------- MODULE MCHeartbeat -----------------------------
(* Values of the constants for the run of the servers' renewal cycle.        *)
EXTENDS Heartbeat, TLC

CONSTANTS h1, h2, n1, n2, valve

\* One host of each family.
MCFamilyOf == (h1 :> "IPv4") @@ (h2 :> "IPv6")

Of(major, minor, patch) == [major |-> major, minor |-> minor, patch |-> patch]
Minimal == Of(0, 21, 0)
Current == {Of(0, 21, Unset)}

At(host, port) == [host |-> host, port |-> port]
OneServer == {At(h1, 1)}
OneClient == {At(h1, 3)}
OneConsole == {At(h2, 3)}

Plain == {[challenge |-> n, version |-> v, nat |-> FALSE, gamedir |-> valve,
           protocol |-> 49, others |-> "numbers"] : n \in Nonce, v \in Version}
OneQuery == {[version |-> v, nat |-> FALSE, gamedir |-> valve, protocol |-> Unset] : v \in Version}
\* The administrator bans and unbans the server's host.
AdminBans == {[master |-> m, digest |-> <<"admin", n>>, command |-> c, host |-> h1] :
               m \in Nonce, n \in Nonce, c \in {"ban", "unban"}}
=============================================================================
