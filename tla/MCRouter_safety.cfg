SPECIFICATION MCSpec
CONSTANTS
    small = small
    large = large
    cloud = cloud
    ollama = ollama
    openrouter = openrouter
    q1 = q1
    q2 = q2
    q3 = q3
    Model = {small, large, cloud}
    Backend = {ollama, openrouter}
    Request = {q1, q2, q3}
    Attr <- MCAttr
    Demand <- MCDemand
    Reply <- MCReply
    Evaluated = {ollama}
    LocalOnly = FALSE
    TripAfter = 2
    BaseBackoff = 2
    MaxBackoff = 3
    DiscoverTtl = 1
    MaxFallbacks = 1
    MaxTime = 2
    MaxFlips = 1
    MaxRestarts = 1
SYMMETRY MCSymmetry
INVARIANTS
    RouterInv
    CatalogIsHonest
PROPERTIES
    EarlyReleaseByOldChain
CHECK_DEADLOCK FALSE
