CONSTANT
    QueueLimit = 3
SPECIFICATION BootFairSpec
INVARIANTS HeapExclusive NothingUsedEarly
PROPERTIES BootFinishes
CHECK_DEADLOCK FALSE
