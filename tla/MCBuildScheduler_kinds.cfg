SPECIFICATION Spec
CONSTANTS
    e1 = e1
    e2 = e2
    e3 = e3
    Executions = {e1, e2, e3}
    NoExecution = NoExecution
    MaxBuilds = 4
    MaxConcurrent = 2
    Scoped = {2}
    Unreadable = {3}
    Timed = {1, 4}
    RunOnceMayRaise = TRUE
    MaxCrashes = 1
    MaxFaults = 0
    MaxControls = 0
SYMMETRY MCSymmetry
INVARIANTS
    QueueInv
    HistoryInv
PROPERTIES
    ImplementsQueue
CHECK_DEADLOCK FALSE
