SPECIFICATION FairSpec
CONSTANTS
    Runtime = {baseline, accepted}
    InitialRuntime = baseline
    Accepted = {accepted}
    Candidate = {c1, c2}
    Proc = {1, 2}
    Job = {j1}
    Operation = Operation
    Foreign = Foreign
    None = None
    baseline = baseline
    accepted = accepted
    c1 = c1
    c2 = c2
    CandidateOf <- MCCandidateOf
    MaxOperations = 1
    MaxPublished = 2
PROPERTIES
    RestoresOwnCommit
CHECK_DEADLOCK FALSE
