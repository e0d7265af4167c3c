CONSTANTS
    HeapBase <- MCHeapBase
    HeapLimit <- MCHeapLimit
    MaxCoalesce = 7
    Sizes = {5, 8, 20}
SPECIFICATION Spec
INVARIANT HeapTiled
PROPERTIES ImplementsAllocator NoNeedlessGrowth FreeMemoryMerges
CHECK_DEADLOCK FALSE
