CONSTANTS
    BufSize = 3
    MaxConsumers = 2
    k1 = k1
    c1 = c1
    f1 = f1
    Keys <- MCKeys
    Chars <- MCChars
    Callbacks <- MCCallbacks
    None = None
SPECIFICATION FairSpec
INVARIANTS NoTornEvent
PROPERTIES RefinesEventService AcceptedIsDispatched
