SPECIFICATION FairAppSpec

CONSTANTS
    NoDocument = NoDocument
    Malformed = Malformed
    Incomplete = Incomplete
    NotObject = NotObject
    Absent = Absent
    Documents <- MCDocuments
    CommandLines <- MCCommandLines

INVARIANTS
    SocketsBound
    SettingsOfOneFile

PROPERTIES
    SweepsIffWholeSecond
    RestartsServe
