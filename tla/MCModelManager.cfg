CONSTANTS
    Models = {m1, m2}
    Requests = {r1, r2}
    total_bytes = 9
    per_block_bytes = 2
    min_blocks = 1
    DesiredBytes = 5
    WeightBytes = 2
    DiskBytes = 1
    Ceiling = 9
    ExplicitBudget = TRUE
    HasDraft = TRUE
    KV_RETRY_HALVINGS = 1
    Upsets = {"load panics", "draft panics", "engine panics", "weights lost"}
SPECIFICATION FairSpec
CHECK_DEADLOCK FALSE
INVARIANTS
    OneLoadEach
    EngineToldIffRemoved
    BudgetAccounted
    MemoryWithinBudget
PROPERTIES
    NoGuardedSlotTurnsDead
    EveryWaiterAnswered
