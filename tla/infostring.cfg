SPECIFICATION InfoSpec

CONSTANTS
    Character = {"k", "v"}
    Slash = "slash"
    NUL = "nul"
    TextLength = 5
    LeftoverLength = 2
    Text <- MCText
    Leftover <- MCLeftover
    Required <- OneKey

INVARIANTS
    ParsesPairs
    KeysKept
    OverrunIsOne
    TokensAreWords

\* Parse is called once and returns.
CHECK_DEADLOCK FALSE
