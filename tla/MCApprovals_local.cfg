SPECIFICATION Spec
CONSTANTS
    r1 = r1
    r2 = r2
    routine = routine
    Requests = {r1, r2, routine}
    Routine = {routine}
    SlackInUse = FALSE
    MaxCrashes = 1
    MaxFaults = 0
PROPERTIES
    ImplementsGate
    ExpiryIsFinal
CHECK_DEADLOCK FALSE
