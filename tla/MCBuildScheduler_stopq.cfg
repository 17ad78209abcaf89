SPECIFICATION Spec
CONSTANTS
    e1 = e1
    e2 = e2
    e3 = e3
    Executions = {e1, e2, e3}
    NoExecution = NoExecution
    MaxBuilds = 2
    MaxConcurrent = 1
    Scoped = {}
    Unreadable = {}
    Timed = {1, 2}
    RunOnceMayRaise = FALSE
    MaxCrashes = 1
    MaxFaults = 0
    MaxControls = 1
SYMMETRY MCSymmetry
INVARIANTS
    StoppedIsCancelled
CHECK_DEADLOCK FALSE
