\* Two pipelines over one workspace, two runs, three scripts.
SPECIFICATION Spec
CONSTANTS
    Pipelines = {p1, p2}
    Scripts <- MCScripts
    MaxRuns = 2
    MaxGates = 6
    None = None
INVARIANTS BuiltOnItsOwnRun SucceededIsWhole
PROPERTIES IsChain
CHECK_DEADLOCK FALSE
