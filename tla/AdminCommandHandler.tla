------------------------ MODULE AdminCommandHandler -------------------------
(* The commands of the administrators (admin_command_handler.cpp): a command *)
(* is authorised by a digest of an administrator's password and the hash     *)
(* half of the console's challenge.                                          *)
EXTENDS ServerList

CONSTANTS Password,    \* the passwords consoles use
          Admins       \* those of the administrators in the configuration

ASSUME AdminAssumption == Admins \subseteq Password

VARIABLE m_banlist     \* the banned addresses, a member of RequestHandler

\* BLAKE2b of password and challenge, taken as injective: the key and the
\* personalisation are the same for the two sides.
Digest(password, hash) == <<password, hash>>

\* What AdminCommandRequest::Parse yields.  The command is "ban" or "unban"
\* with the host it names; "other" is every text that Tokenize does not split
\* into one of them and a parsable address.
AdminCommandRequest ==
    [master : Nonce, digest : Password \X Nonce,
     command : {"ban", "unban", "other"}, host : Host]

\* The address is erased before the command handler returns.
HandleBanCommand(host) ==
    /\ m_banlist' = m_banlist \cup {Parse(host)}
    /\ BanAddress(Parse(host))

HandleUnbanCommand(host) ==
    /\ m_banlist' = m_banlist \ {Parse(host)}
    /\ UNCHANGED listVars

HandleCommand(command, host) ==
    \/ command = "ban" /\ HandleBanCommand(host)
    \/ command = "unban" /\ HandleUnbanCommand(host)
    \/ command = "other" /\ UNCHANGED <<m_banlist, listVars>>

\* Mutated form of Authorised: the password is not looked up among the admins.
AuthorisedAnyone(request, hash) ==
    \E password \in Password : Digest(password, hash) = request.digest

\* Some administrator's password gives the digest of the request.
Authorised(request, hash) ==
    \E password \in Admins : Digest(password, hash) = request.digest

HandleCommandRequest(request, challenge) ==
    \/ /\ Authorised(request, challenge.hash)
       /\ HandleCommand(request.command, request.host)
    \/ /\ ~Authorised(request, challenge.hash)
       /\ UNCHANGED <<m_banlist, listVars>>
=============================================================================
