SPECIFICATION FairSpec
CONSTANTS
    Operator = {o1, o2}
    Reader = {r1}
    Candidate = {c1, c2}
    ReceiptId = {id1, id2, id3}
    None = None
    c1 = c1
    c2 = c2
    old = old
    new = new
    StateContract <- MCStateContract
    Transitions <- MCTransitions
    MaxAttempts = 3
INVARIANTS
    TypeOK
    PointerSound
    ReceiptChain
    ReadersNeverBreak
PROPERTIES
    RefinesCasRegister
    LockReleased
CHECK_DEADLOCK FALSE
