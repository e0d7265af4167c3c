CONSTANTS
    Frames = 8
    Size = 2
    Dirs = 6
    UserFirst = 2
    Kernel = 4
    IdTab = 1
    Dust <- MCDust
SPECIFICATION Spec
INVARIANTS NoAlias TablesPrivate UserConfined UserPagesUsable NoFrameLost
PROPERTIES MappedStays
CHECK_DEADLOCK FALSE
