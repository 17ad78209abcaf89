SPECIFICATION Spec
CONSTANTS
    r1 = r1
    r2 = r2
    routine = routine
    Requests = {r1, routine}
    Routine = {routine}
    SlackInUse = TRUE
    MaxCrashes = 0
    MaxFaults = 0
PROPERTIES
    ExpiryIsFinal
CHECK_DEADLOCK FALSE
