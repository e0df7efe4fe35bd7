SPECIFICATION Spec

CONSTANTS
    Host = {h1, h2}
    Port = {1, 2, 3}
    FamilyOf <- MCFamilyOf
    Gamedir = {valve}
    Protocol = {48, 49}
    Password = {"admin", "guest"}
    Admins = {"admin"}
    ServerMinimalVersion <- Minimal
    ClientMinimalVersion <- Minimal
    Malformed = Malformed
    Unset = Unset
    h1 = h1
    h2 = h2
    n1 = n1
    n2 = n2
    valve = valve
    GameServer <- OneServer
    Client <- Nobody
    Console <- OneConsole
    AppendRequests <- Plain
    Queries <- None
    Commands <- ByCommand
    Nonce = {n1}
    Version <- Current
    ServerCountQuota = 2
    ServerTimeoutInterval = 1
    ChallengeTimeoutInterval = 1
    CleanupInterval = 1
    MaxLag = 1

INVARIANTS
    HeartbeatNeverThrows
