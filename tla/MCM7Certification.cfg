SPECIFICATION MCSpec
CONSTANTS
    kit = kit
    data = data
    domestic = domestic
    r1 = r1
    r2 = r2
    c1 = c1
    c2 = c2
    v1 = v1
    v2 = v2
    Project = {kit}
    ProjectOrder <- MCProjectOrder
    Label = {data, domestic}
    EvidenceOrder <- MCEvidenceOrder
    Required <- MCRequired
    Run = {r1, r2}
    ProjectOf <- MCProjectOf
    HeadOf <- MCHeadOf
    Certifier = {v1, v2}
    None = None
    Evidence <- MCEvidence
    MaxAttempts = 2
    MaxUploads = 2
    MaxChanges = 1
    MaxCalls = 2
SYMMETRY MCSymmetry
INVARIANTS
    TypeOK
    Attested
CHECK_DEADLOCK FALSE
