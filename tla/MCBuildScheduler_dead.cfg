SPECIFICATION FairSpec
CONSTANTS
    e1 = e1
    e2 = e2
    e3 = e3
    Executions = {e1, e2, e3}
    NoExecution = NoExecution
    MaxBuilds = 1
    MaxConcurrent = 1
    Scoped = {}
    Unreadable = {}
    Timed = {1}
    RunOnceMayRaise = TRUE
    MaxCrashes = 0
    MaxFaults = 0
    MaxControls = 0
PROPERTIES
    QueueDrains
CHECK_DEADLOCK FALSE
