\* Two invocations, three lives: a crash or a refused write anywhere.
CONSTANTS
    Contents = {c1, c2}
    MaxPlannerTurns = 6
    ApprovalIds = {a1, a2}
    MaxRevision = 2
    MaxInvocations = 2
    MaxLives = 3
    None = None
SPECIFICATION FairSpec
CHECK_DEADLOCK FALSE
INVARIANTS
    RevisionsAccounted
    GatedPatchPassed
    GatedPatchIsThePlans
    PlanIsTraced
PROPERTIES
    RepairedOnce
    EvidenceImmutable
    Settles
