\* Two invocations, crashes and refused writes anywhere, pushes upstream.
CONSTANTS
    Urls = {u1, u2}
    Commits = {c1, c2}
    ApprovalIds = {a1, a2}
    MaxInvocations = 2
    MaxLives = 2
    None = None
SPECIFICATION Spec
CHECK_DEADLOCK FALSE
INVARIANTS
    CompletedIsPinned
    FetchedOnlyGranted
