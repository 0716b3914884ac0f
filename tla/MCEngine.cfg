CONSTANTS
    Blocks = {b1, b2, b3}
    BlockSize = 2
    CacheCapacity = 2
    Ids = {1, 2, 3}
    Tokens = {1}
    Prompts <- MixedPrompts
    MaxTokensChoices = {2, 3}
    max_num_sequences = 3
    max_tokens_per_step = 4
    MaxFaults = 1
SPECIFICATION Spec
SYMMETRY BlockSymmetry
CHECK_DEADLOCK FALSE
INVARIANTS
    RefsMatchHolders
    ContentCorrect
    QueuesConsistent
    CacheAligned
    SinglePromptCovered
PROPERTIES
    NoSharedWrite
    ImplementsService
