SPECIFICATION Spec
CONSTANTS
    Pipelines = {p1}
    Scripts <- MCScripts
    MaxRuns = 1
    MaxGates = 6
    None = None
INVARIANTS TerminalRecord
CHECK_DEADLOCK FALSE
