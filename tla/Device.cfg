\* One frame in each direction fills the connection, so that every writer blocks on
\* every other; with the bind frames and two frames more, both loops can have a rekey
\* request due while the connection is full both ways.
SPECIFICATION FairSpec
CONSTANTS
    RekeyBudget = 2
    Capacity = 1
    MaxSends = 2
INVARIANTS TypeOK KeysAgree EndsForCause PlaneOutlivesPump
PROPERTIES TunnelStopsUnlessStranded RequestGoesOut
CHECK_DEADLOCK FALSE
