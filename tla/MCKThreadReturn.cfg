CONSTANTS
    MaxThreads = 3
    MaxCreates = 3
    MayReturn = TRUE
    s1 = s1
    s2 = s2
    s3 = s3
    s4 = s4
    s5 = s5
    s6 = s6
    Stack <- MCLiveStack
    Boot = Boot
    NoStack = NoStack
SPECIFICATION FairSpec
PROPERTY ReturnedIsReaped
CHECK_DEADLOCK FALSE
