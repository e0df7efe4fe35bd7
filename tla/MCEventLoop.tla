---------------------------- MODULE MCEventLoop -----------------------------
(* Values of the constants for the model-checking runs.                      *)
EXTENDS EventLoop, TLC

CONSTANTS h1, h2, n1, n2, valve

\* One host of each family.
MCFamilyOf == (h1 :> "IPv4") @@ (h2 :> "IPv6")

\* A version equal to the minimal one, though without a patch, and older ones.
Of(major, minor, patch) == [major |-> major, minor |-> minor, patch |-> patch]
Minimal == Of(0, 21, 0)
Current == {Of(0, 21, Unset)}
OldAndCurrent == {Of(0, 20, 5), Of(0, 21, Unset)}

At(host, port) == [host |-> host, port |-> port]
OneServer == {At(h1, 1)}
TwoHosts == {At(h1, 1), At(h2, 1)}
TwoPorts == {At(h1, 1), At(h1, 2)}
PortZero == {At(h1, 0), At(h1, 1)}
OneConsole == {At(h2, 3)}
Nobody == {}

\* A current and an outdated server; every value of the challenge.
ByVersion == {[challenge |-> n, version |-> v, nat |-> FALSE, gamedir |-> valve,
               protocol |-> 49, others |-> "numbers"] : n \in Nonce, v \in Version}
\* One well-formed request per challenge.
Plain == {r \in ByVersion : r.version \in Current}
\* Servers that queries tell apart, one of them with a protocol that is no
\* number, and one with another number that is none.
ByContent == {[challenge |-> n1, version |-> Of(0, 21, Unset), nat |-> t, gamedir |-> valve,
               protocol |-> scanned[1], others |-> scanned[2]] :
                  t \in BOOLEAN,
                  scanned \in {<<49, "numbers">>, <<Malformed, "numbers">>, <<49, Malformed>>}}
ByFilter == {[version |-> v, nat |-> t, gamedir |-> g, protocol |-> p] :
               v \in Version \cup {Unset}, t \in BOOLEAN, g \in Gamedir, p \in Protocol \cup {Unset}}
\* Every command of an administrator and of a stranger.
ByCommand == {[master |-> m, digest |-> <<w, n>>, command |-> c, host |-> h1] :
               m \in Nonce, w \in Password, n \in Nonce, c \in {"ban", "unban", "other"}}
\* Administrators command about the first host, strangers about the second.
ByAuthority == {r \in AdminCommandRequest : r.host = IF r.digest[1] \in Admins THEN h1 ELSE h2}
None == {}
=============================================================================
