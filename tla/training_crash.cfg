\* Two lives, a crash at every point, resumes and second invocations, two revisions.
CONSTANTS
    Contents = {c1, c2}
    ApprovalIds = {a1, a2}
    Pids = {p1, p2}
    MaxRevision = 2
    MaxLives = 2
    None = None
SPECIFICATION FairSpec
CHECK_DEADLOCK FALSE
INVARIANTS
    TypeOK
    StartedOnlyIfApproved
    StoreFollowsCheckpoint
    OneWriter
    ResultsFromApprovedSpec
PROPERTIES
    EvidenceGrows
    OutputsWriteOnce
    ApprovedEnds
