SPECIFICATION MCSpec
CONSTANTS
    Controller = {c1, c2}
    r1 = r1
    r2 = r2
    s1 = s1
    s2 = s2
    old = old
    new = new
    good = good
    bad = bad
    Root = {r1, r2}
    Document <- MCDocument
    Stack = {s1, s2}
    Contract = {old, new}
    Evidence = {good, bad}
    None = None
    MaxCalls = 3
    MaxChanges = 1
INVARIANTS
    TypeOK
    FailureUndone
PROPERTIES
    ReplacesReviewed
    PublishedTruthful
SYMMETRY Symmetry
CHECK_DEADLOCK FALSE
