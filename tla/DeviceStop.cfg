SPECIFICATION FairSpec
CONSTANTS
    RekeyBudget = 2
    Capacity = 1
    MaxSends = 0
PROPERTIES TunnelStops
CHECK_DEADLOCK FALSE
