CONSTANTS
    Port <- MCPort
    Sectors = 5
    SecsMax = 2
    LbaMax = 4
    Data <- MCData
    Junk = Junk
    Calls <- MCCalls
    Machines <- MCMachines
    Buses = 2
    Devs = 2
    Funcs = 3
    MaxCalls = 2
SPECIFICATION FairSpec
INVARIANTS ReadIsOfRequest WriteIsStored DisksFound
PROPERTIES NothingHangs
CHECK_DEADLOCK FALSE
