CONSTANTS
    MAX_DEPTH = 3
    MAX_WHITESPACE_RUN = 2
    GUIDED_DEPTH = 2
    COMPILE_DEPTH = 5
    MAX_MEMBERS = 3
    Bound = 8
    Defs <- MCDefs
    Schemas <- MCSchemas
    Requests <- MCRequests
    Vocabulary <- MCVocabulary
SPECIFICATION Spec
CHECK_DEADLOCK FALSE
INVARIANTS
    StopMeansValid
    NeverStuck
    NothingRefused
