CONSTANTS
    Token <- MCToken
    Bytes <- MCBytes
    Kind <- MCKind
    Sessions <- MCSessions
    DECODE_STABLE_LOOKBACK = 4
    SPLIT_CHAR_BACKOFF = 3
    StripsLeadingSpace = TRUE
SPECIFICATION Spec
CHECK_DEADLOCK FALSE
INVARIANTS
    StreamExact
    ChannelsSplit
    LogprobsExact
    CallsWhole
