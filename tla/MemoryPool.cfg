SPECIFICATION Spec
CONSTANTS
    Pools = {1, 2}
    Debounce = 1
    BlockSizes = {3, 4}
    Allocators = {a, b}
    MaxPointers = 6
INVARIANTS TypeOK FreedOnce
PROPERTY ImplementsStacks
CHECK_DEADLOCK FALSE
