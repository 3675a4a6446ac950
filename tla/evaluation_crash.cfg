\* Two invocations over inputs that are written twice and outputs that are edited.
CONSTANTS
    s1 = s1
    s2 = s2
    Specs = {s1, s2}
    Trained <- MCTrained
    Metrics <- MCMetrics
    MinDelta = 2
    MaxDrop = 1
    MaxChanges = 2
    Edited = Edited
    MaxInvocations = 2
    MaxLives = 2
    None = None
SPECIFICATION Spec
CHECK_DEADLOCK FALSE
INVARIANTS
    EvaluatedAsItWas
    VerdictOfOneSpec
    VerdictTurnsAround
PROPERTIES
    OutputsWriteOnce
    CompletesOnItsOutputs
