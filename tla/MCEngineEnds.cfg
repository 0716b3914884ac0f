CONSTANTS
    Blocks = {b1, b2, b3}
    BlockSize = 2
    CacheCapacity = 2
    Ids = {1, 2, 3}
    Tokens = {1}
    Prompts <- ApartPrompts
    MaxTokensChoices = {2}
    max_num_sequences = 2
    max_tokens_per_step = 1
    MaxFaults = 1
SPECIFICATION FairSpec
CHECK_DEADLOCK FALSE
INVARIANTS
    EveryRunningRuns
PROPERTIES
    EveryRequestEnds
