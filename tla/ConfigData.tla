----------------------------- MODULE ConfigData -----------------------------
(* The settings (config_data.cpp).  A parsed file is a function from the     *)
(* names of its members to their JSON types and values.  Times are in half   *)
(* seconds, so that the model has times that are no whole second.            *)
EXTENDS Integers, Sequences

CONSTANTS NoDocument,     \* a file that is missing, or is no JSON object
          Malformed,      \* a version text that VersionInfo::Parse refuses
          Incomplete,     \* an admins entry without a name or password string
          NotObject       \* an admins entry that is no JSON object

\* A second in the model's unit of time.
Second == 2

\* The type each member must have; rapidjson's IsFloat refuses an integer.
MemberType ==
    [max_servers_per_ip |-> "int", admin_hash_length |-> "int",
     cleanup_interval |-> "float", server_timeout_interval |-> "float",
     challenge_timeout_interval |-> "float", admin_hash_key |-> "string",
     admin_hash_personal |-> "string", server_min_version |-> "string",
     client_min_version |-> "string", admins |-> "array"]

\* The members whose values are taken as they are, and taken last.
Settings == DOMAIN MemberType \ {"server_min_version", "client_min_version", "admins"}

\* The versions of ConfigData::ConfigData.
DefaultVersion == [major |-> 0, minor |-> 21, patch |-> 0]

\* A malformed text is no version.
ASSUME ConfigAssumption == Malformed # DefaultVersion

\* ConfigData::ConfigData
Default ==
    [settings |-> [max_servers_per_ip |-> 14, admin_hash_length |-> 64,
                   cleanup_interval |-> 10 * Second,
                   server_timeout_interval |-> 360 * Second,
                   challenge_timeout_interval |-> 15 * Second,
                   admin_hash_key |-> "Half-Life", admin_hash_personal |-> "Freeman"],
     server |-> DefaultVersion, client |-> DefaultVersion, admins |-> <<>>]

\* The checks before anything is taken.
Readable(document) ==
    /\ document # NoDocument
    /\ DOMAIN MemberType \subseteq DOMAIN document
    /\ \A member \in DOMAIN MemberType : document[member].type = MemberType[member]

\* The loop over the administrators, which skips an incomplete entry.
IsAdmin(entry) == entry \notin {Incomplete, NotObject}
WithAdmins(admins, document) == admins \o SelectSeq(document["admins"].value, IsAdmin)
TakeAdmins(config, document) == [config EXCEPT !.admins = WithAdmins(@, document)]

\* HasMember on an entry that is no object: an assertion, or undefined.
MayAbort(document) ==
    Readable(document) /\ \E i \in DOMAIN document["admins"].value :
                              document["admins"].value[i] = NotObject

\* The assignments of Parse.
TakeServer(config, document) == [config EXCEPT !.server = document["server_min_version"].value]
TakeClient(config, document) == [config EXCEPT !.client = document["client_min_version"].value]
TakeSettings(config, document) ==
    [config EXCEPT !.settings = [s \in Settings |-> document[s].value]]

\* return false
Refused(config) == [config |-> config, loaded |-> FALSE]

\* Mutated form of Parse: the settings are taken before the versions are read.
ParseSettingsFirst(config, document) ==
    IF ~Readable(document) THEN Refused(config)
    ELSE LET taken == TakeSettings(TakeAdmins(config, document), document)
         IN  IF document["server_min_version"].value = Malformed THEN Refused(taken)
             ELSE [config |-> TakeClient(TakeServer(taken, document), document), loaded |-> TRUE]

\* ConfigData::Parse: the returns leave what was taken so far.
Parse(config, document) ==
    IF ~Readable(document) THEN Refused(config)
    ELSE LET withAdmins == TakeAdmins(config, document)
             withServer == TakeServer(withAdmins, document)
             withClient == TakeClient(withServer, document)
         IN  IF document["server_min_version"].value = Malformed THEN Refused(withAdmins)
             ELSE IF document["client_min_version"].value = Malformed THEN Refused(withServer)
             ELSE [config |-> TakeSettings(withClient, document), loaded |-> TRUE]
=============================================================================
