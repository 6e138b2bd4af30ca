SPECIFICATION MCSpec
CONSTANTS
    Project <- MCProject
    Name <- MCName
    Layer <- MCLayer
    Writer = {w1, w2}
    None = None
    MaxHead = 2
    MaxMoves = 2
    MaxCalls = 2
INVARIANTS
    TypeOK
    VerdictMatchesReference
    ReleaseInstallable
    WrittenStays
CHECK_DEADLOCK FALSE
