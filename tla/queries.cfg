SPECIFICATION Spec

CONSTANTS
    Host = {h1, h2}
    Port = {1, 2, 65535}
    FamilyOf <- MCFamilyOf
    Gamedir = {valve}
    Protocol = {48, 49}
    Password = {"admin", "guest"}
    Admins = {"admin"}
    ServerMinimalVersion <- Minimal
    ClientMinimalVersion <- Minimal
    Malformed = Malformed
    Unset = Unset
    h1 = h1
    h2 = h2
    n1 = n1
    n2 = n2
    valve = valve
    AddressSpan <- MCAddressSpan
    TextLength <- MCTextLength
    GameServer <- TwoHosts
    Client <- HighPorts
    Console <- Nobody
    AppendRequests <- ByContent
    Queries <- ByFilter
    Commands <- None
    Nonce = {n1}
    Version <- OldAndCurrent
    ServerCountQuota = 2
    ServerTimeoutInterval = 1
    ChallengeTimeoutInterval = 1
    CleanupInterval = 1
    MaxLag = 0

INVARIANTS
    TypeOK
    NatAnnounceMatchesReply
    RepliesWhole
    InfoMessagesOwn
    ListReadsBack
