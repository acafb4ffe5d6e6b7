SPECIFICATION Spec
CONSTANTS
    KeepAlives = {15000, 65536}
    Paddings = {96, 255}
    MaxDisturbances = 0
INVARIANTS NeverPanics
CHECK_DEADLOCK FALSE
