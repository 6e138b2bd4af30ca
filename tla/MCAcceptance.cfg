SPECIFICATION Spec
CONSTANTS
    Project = {p1, p2}
    Case = {k1}
    Builder = {b1, b2}
    Acceptor = {a1}
    None = None
    MaxCalls = 3
    MaxTouches = 1
INVARIANTS
    TypeOK
    BuiltByOne
PROPERTIES
    PreparedStays
CHECK_DEADLOCK FALSE
