SPECIFICATION SocketSpec

CONSTANTS
    Byte <- MCByte
    NUL = "nul"
    Capacity = 7
    ClientQueryHeader <- MCQuery
    ServerChallengeHeader <- MCChallenge
    ServerAppendHeader <- MCAppend
    AdminChallengeHeader <- MCAdminChallenge
    AdminCommandHeader <- MCAdminCommand
    WordLength = 1
    AdminHashLength = 2
    Datagram <- MCDatagram

INVARIANTS
    InvalidSizeIgnored
