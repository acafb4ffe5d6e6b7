SPECIFICATION FairSpec
CONSTANTS
    None = None
    Sessions = {s1, s2}
    Configs <- Reloads
    MaxEvents = 1
INVARIANTS TypeOK SlotInOneCare CountIsExact NothingLeftOpen ShutdownDrains PeersFresh
PROPERTIES ShutdownReturns SlotsComeBack
CHECK_DEADLOCK FALSE
