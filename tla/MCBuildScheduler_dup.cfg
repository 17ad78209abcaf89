SPECIFICATION Spec
CONSTANTS
    e1 = e1
    e2 = e2
    e3 = e3
    Executions = {e1, e2, e3}
    NoExecution = NoExecution
    MaxBuilds = 1
    MaxConcurrent = 1
    Scoped = {}
    Unreadable = {}
    Timed = {1}
    RunOnceMayRaise = FALSE
    MaxCrashes = 1
    MaxFaults = 0
    MaxControls = 0
SYMMETRY MCSymmetry
INVARIANTS
    NoDuplicateExecution
CHECK_DEADLOCK FALSE
