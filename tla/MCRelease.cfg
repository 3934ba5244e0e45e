CONSTANTS
    b1 = b1
    b2 = b2
    b3 = b3
    b4 = b4
    old = old
    new = new
    pa = pa
    pb = pb
    None = None
    Absent = Absent
    TagCommit = "c1"
    MaxTree = 5
    Procs = {pa, pb}
    Versions = {1, 2}
    Pinned = {1}
    Builds <- MCBuilds
    RunOf <- MCRunOf
    AttemptOf <- MCAttemptOf
    CommitOf <- MCCommitOf
    Frozen = {b1, b2, b3}
    BuiltAt <- MCBuiltAt
    IssuerOf <- MCIssuerOf
    TarballOf <- MCTarballOf
    Generations = {old, new}
    Policies <- MCPolicies
SPECIFICATION MCSpec
SYMMETRY MCSymmetry
INVARIANTS EvidenceIsSound InclusionIsExact RecordIsSound BuildsAreSound
CHECK_DEADLOCK FALSE
