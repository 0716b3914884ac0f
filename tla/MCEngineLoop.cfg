CONSTANTS
    Ids = {r1, r2}
    Tokens = {t}
    Caps = {2}
    MaxStepTokens = 2
    QueueCapacity = 1
    MayPanic = TRUE
SPECIFICATION FairSpec
CHECK_DEADLOCK FALSE
INVARIANTS
    TrackersMatch
    StreamWellFormed
    OkMeansStreamEndWhileLoaded
    LeaverCostsOneStep
PROPERTIES
    EveryWaiterHears
    EvictionEndsLoop
