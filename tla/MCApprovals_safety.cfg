SPECIFICATION FairSpec
CONSTANTS
    r1 = r1
    r2 = r2
    routine = routine
    Requests = {r1, r2, routine}
    Routine = {routine}
    SlackInUse = TRUE
    MaxCrashes = 1
    MaxFaults = 1
INVARIANTS
    OneCard
    DecidedOnce
    NoSilentApproval
    ApprovalInv
PROPERTIES
    PersonsWordStands
    SilenceIsSettled
CHECK_DEADLOCK FALSE
