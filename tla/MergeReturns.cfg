SPECIFICATION Spec
CONSTANTS
    Pools = {1, 2}
    Debounce = 1
    BlockSizes = {3}
    Allocators = {a}
    MaxPointers = 6
INVARIANT MergeReturns
CHECK_DEADLOCK FALSE
