CONSTANTS
    Key = {2, 30, 42, 54, 58}
    Arrow = {72}
    Queue = 4
SPECIFICATION Ps2Spec
INVARIANTS CharOfKeysHeld
