CONSTANTS
    Models = {m1, m2}
    Requests = {r1, r2, r3}
    total_bytes = 3
    per_block_bytes = 1
    min_blocks = 2
    DesiredBytes = 2
    WeightBytes = 2
    DiskBytes = 1
    Ceiling = 6
    ExplicitBudget = TRUE
    HasDraft = FALSE
    KV_RETRY_HALVINGS = 1
    Upsets = {"engine panics"}
SPECIFICATION Spec
SYMMETRY ManagerSymmetry
CHECK_DEADLOCK FALSE
INVARIANTS
    NoDeadSlot
