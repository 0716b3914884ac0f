CONSTANTS
    Vocabulary = {0, 1, 2}
    StopToken = 0
    SPEC_DRAFT_K = 2
    Window = 2
    PromptLength = 3
    BLOCK_SIZE = 2
    WINDOW_KEEP_MARGIN = 1
    ContigMinimum = 1
    MAX_POOL_BUFFERS = 1
    ContigLimit = 10
    MaxTokens = 3
    MaxPreemptions = 1
SPECIFICATION Spec
CHECK_DEADLOCK FALSE
INVARIANT
    LengthCapHolds
