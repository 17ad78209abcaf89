SPECIFICATION MCFairSpec
CONSTANTS
    b1 = b1
    b2 = b2
    Build = {b1, b2}
    LoggedIn = {"claude_code", "codex"}
    ApiKey = {}
    LocalModels = FALSE
    Window = 1
    Budget <- MCBudget
    MaxClock = 2
    Only = TRUE
    MaxRepairs = 1
    Cost <- MCCost
    MaxEvents = 1
INVARIANTS
    FactoryInv
    OverspendIsBounded
PROPERTIES
    PullRequestStands
    RefusedIsRested
    EveryBuildEnds
CHECK_DEADLOCK FALSE
