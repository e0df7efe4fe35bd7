--------------------------- MODULE MCApplication ----------------------------
(* Values of the constants for the run of the start-up.                      *)
EXTENDS Application, TLC

Of(type, value) == [type |-> type, value |-> value]
Version == [major |-> 0, minor |-> 20, patch |-> 0]

\* A file that sets everything otherwise than the defaults.
File ==
    [max_servers_per_ip |-> Of("int", 3), admin_hash_length |-> Of("int", 32),
     cleanup_interval |-> Of("float", 5 * Second),
     server_timeout_interval |-> Of("float", 100 * Second),
     challenge_timeout_interval |-> Of("float", 20 * Second),
     admin_hash_key |-> Of("string", "key"), admin_hash_personal |-> Of("string", "personal"),
     server_min_version |-> Of("string", Version), client_min_version |-> Of("string", Version),
     admins |-> Of("array", <<"root">>)]

\* Files without a member, or with a member of another type.
Without == {[m \in DOMAIN File \ {gone} |-> File[m]] : gone \in DOMAIN File}
Mistyped == {[File EXCEPT ![m].type = "other"] : m \in DOMAIN File}
\* Files with each outcome of the versions, the administrators and the interval.
Varied ==
    {[File EXCEPT !["server_min_version"].value = server, !["client_min_version"].value = client,
                  !["admins"].value = admins, !["cleanup_interval"].value = interval] :
        server \in {Version, Malformed}, client \in {Version, Malformed},
        admins \in {<<"root">>, <<Incomplete, "root">>, <<"root", NotObject>>},
        interval \in {1, 2, 3}}
MCDocuments == {NoDocument} \cup Without \cup Mistyped \cup Varied

\* No arguments, arguments that do not parse, and every choice of addresses,
\* with a port that is one and a number that is not.
MCCommandLines ==
    [given : BOOLEAN, parses : {FALSE}, address : {[f \in Family |-> Absent]}, port : {27010}]
      \cup [given : {TRUE}, parses : {TRUE}, address : [Family -> AddressText], port : {27010, 92546}]
=============================================================================
