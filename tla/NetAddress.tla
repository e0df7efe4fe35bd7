----------------------------- MODULE NetAddress -----------------------------
(* Network addresses as the master server compares them (net_address.cpp).  *)
(* A host stands for an address family together with its address bytes; a   *)
(* NetAddress adds a port.  Port 0 is the port NetAddress::Parse gives to   *)
(* an address typed without one.                                            *)
EXTENDS Naturals

CONSTANTS Host,       \* family and address bytes of a machine
          Port,       \* the non-zero ports in use
          FamilyOf    \* the family of each host

ASSUME NetAddressAssumption ==
    /\ Port \subseteq Nat \ {0}
    /\ FamilyOf \in [Host -> {"IPv4", "IPv6"}]

\* m_family and m_addressData (together the host), and m_port.
Address == [host : Host, port : Port \cup {0}]

\* NetAddress::GetAddressFamily
GetAddressFamily(a) == FamilyOf[a.host]

\* Mutated form of Equals: the port is compared even when not asked for.
EqualsWithPort(a, b, includePort) == a.host = b.host /\ a.port = b.port

\* NetAddress::Equals: hosts are compared always, ports on request.
Equals(a, b, includePort) ==
    /\ GetAddressFamily(a) = GetAddressFamily(b)
    /\ includePort => a.port = b.port
    /\ a.host = b.host

\* NetAddress::Parse(text) as the admin commands call it: the port argument
\* is left at its default.
Parse(host) == [host |-> host, port |-> 0]
=============================================================================
