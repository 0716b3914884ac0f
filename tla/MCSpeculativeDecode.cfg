CONSTANTS
    Vocabulary = {0, 1, 2}
    StopToken = 0
    SPEC_DRAFT_K = 2
    Window = 2
    PromptLength = 3
    BLOCK_SIZE = 2
    WINDOW_KEEP_MARGIN = 1
    ContigMinimum = 1
    MAX_POOL_BUFFERS = 1
    ContigLimit = 10
    MaxTokens = 5
    MaxPreemptions = 1
SPECIFICATION FairSpec
CHECK_DEADLOCK FALSE
INVARIANTS
    CachesComplete
    BlocksForTokens
    PoolHoldsPrefill
    ContigWithinBudget
    TokensGreedy
PROPERTY
    GenerationEnds
