\* A subprocess outlives its process and the workflow is invoked again.
CONSTANTS
    Contents = {c1, c2}
    ApprovalIds = {a1, a2}
    Pids = {p1, p2, p3}
    MaxRevision = 1
    MaxLives = 2
    None = None
SPECIFICATION Spec
CHECK_DEADLOCK FALSE
INVARIANTS
    ExecutesExactRun
