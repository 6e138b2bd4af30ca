SPECIFICATION Spec
CONSTANTS
    Project = {p1}
    Case = {k1}
    Builder = {b1}
    Acceptor = {a1}
    None = None
    MaxCalls = 3
    MaxTouches = 0
INVARIANTS
    OutputsOfTheRun
CHECK_DEADLOCK FALSE
