SPECIFICATION Spec
CONSTANTS
    File = {f1, f2}
    Content = {a, busy}
    Busy = {busy}
    Absent = Absent
    Operator = {o1, o2}
    None = None
    MaxWrites = 2
    MaxStarts = 3
    MaxArchives = 2
INVARIANTS
    TypeOK
    SteadyFilesAsReviewed
PROPERTIES
    VerifiedCopyIsWhole
CHECK_DEADLOCK FALSE
