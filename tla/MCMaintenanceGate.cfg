SPECIFICATION GateFairSpec
CONSTANTS
    Controller = {k1, k2}
    Submitter = {s1, s2}
    JobFile = {j1, j2, j3}
    Nobody = Nobody
INVARIANTS
    GateTypeOK
    NoJobUnderMaintenance
PROPERTIES
    FailsClosed
    MarkerRemoved
    RefinesWorkGate
