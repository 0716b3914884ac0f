CONSTANTS
    max_blocks = 5
    segment_blocks = 2
    MaxRefs = 2
SPECIFICATION Spec
INVARIANTS
    FreeListExact
    NumFreeExact
PROPERTY ImplementsPool
