CONSTANTS
    Volumes <- MCVolumes
    Direct = 2
    KB = 2
    DB = 2
    Span = 70
    Lines <- MCLines
    Opens <- MCOpens
    Reads <- MCReads
    Dust = Dust
    Faults <- MCFaults
    Null = Null
    MaxCalls = 3
SPECIFICATION Ext2Spec
INVARIANTS FoundIsFile ReadIsFile ShownIsFile BlocksFreed WildOnlyIf
CHECK_DEADLOCK FALSE
