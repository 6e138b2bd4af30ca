SPECIFICATION MCSpec
CONSTANTS
    Name <- MCName
    Extra <- MCExtra
    NoExtra = ""
    Release = {1, 2}
    Own = "app"
    Pip = "pip"
    Family <- MCFamily
    Patch <- MCPatch
    Implementation = {"cpython", "other"}
    CPython = "cpython"
    Locks <- MCLocks
    MaxMoves = 2
INVARIANTS
    CheckTypeOK
    ExtrasRight
    ReadySound
    BlockedSound
PROPERTIES
    CheckEnds
CHECK_DEADLOCK FALSE
