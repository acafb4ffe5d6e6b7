SPECIFICATION Spec
CONSTANTS
    RekeyBudget = 2
    Capacity = 1
    MaxSends = 2
INVARIANTS TunnelSurvivesRekey
CHECK_DEADLOCK FALSE
