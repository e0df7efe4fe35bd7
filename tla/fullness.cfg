SPECIFICATION InfoSpec

CONSTANTS
    Character = {"k", "v"}
    Slash = "slash"
    NUL = "nul"
    TextLength = 3
    LeftoverLength = 3
    Text <- MCText
    Leftover <- MCLeftover
    Required <- OneKey

INVARIANTS
    FullnessChecked

\* Parse is called once and returns.
CHECK_DEADLOCK FALSE
