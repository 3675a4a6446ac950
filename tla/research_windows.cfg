\* Two workflows in turn and at once over one watermark, one of them with a
\* planner: every answer, one crash, refused writes.
CONSTANTS
    Workflows = {w1, w2}
    Papers = {p1}
    Planned = {w2}
    Overlap = 1
    Lookback = 1
    MaxRecords = 1
    Limit = 1
    MaxNow = 4
    MaxCrashes = 1
    None = None
SPECIFICATION Spec
CHECK_DEADLOCK FALSE
SYMMETRY Symmetry
INVARIANTS
    NothingMissed
    WatermarkHasItsResult
    SelectedByHuman
