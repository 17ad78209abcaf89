SPECIFICATION MCFairSpec
CONSTANTS
    m1 = m1
    m2 = m2
    m3 = m3
    Model = {m1, m2, m3}
    FamilyOf <- MCFamilyOf
    Quality <- MCQuality
    LoggedIn = {"claude_code", "codex"}
    ApiKey = {}
    LocalModels = FALSE
    Window = 1
    Budget <- MCBudget
    MaxClock = 2
    Pin = ""
    Patience = {1, 2}
    Request <- MCRequest
    MaxRun = 2
    Horizon = 3
    MaxEvents = 2
INVARIANTS
    FullBuildInv
    ApprovalIsEarned
PROPERTIES
    SubmittedWithinMode
    SnapshotRules
    ExhaustedOnlyByChoice
    KilledOnlyIfStill
    EveryBuildSettles
CHECK_DEADLOCK FALSE
