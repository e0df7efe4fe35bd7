SPECIFICATION Spec

CONSTANTS
    Host = {h1, h2}
    Port = {1, 2, 3}
    FamilyOf <- MCFamilyOf
    Gamedir = {valve}
    Protocol = {48, 49}
    Password = {"admin", "guest"}
    Admins = {"admin"}
    ServerMinimalVersion <- Minimal
    ClientMinimalVersion <- Minimal
    Malformed = Malformed
    Unset = Unset
    h1 = h1
    h2 = h2
    n1 = n1
    n2 = n2
    valve = valve
    GameServer <- TwoPorts
    Client <- Nobody
    Console <- Nobody
    AppendRequests <- Plain
    Queries <- None
    Commands <- None
    Nonce = {n1, n2}
    Version <- Current
    ServerCountQuota = 1
    ServerTimeoutInterval = 3
    ChallengeTimeoutInterval = 1
    CleanupInterval = 2
    MaxLag = 1

PROPERTIES
    QuotaPerHost
