SPECIFICATION Spec
CONSTANTS
    File = {f1, f2}
    Content = {a, b}
    Absent = Absent
    Packager = {k1, k2}
    Restorer = {r1}
    None = None
    MaxWrites = 3
    MaxPacked = 2
INVARIANTS
    TypeOK
    ArchiveIsSnapshot
PROPERTIES
    RefinesAtomicTransfer
CHECK_DEADLOCK FALSE
