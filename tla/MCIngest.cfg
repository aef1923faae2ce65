CONSTANTS
    TradeIds = {1, 2, 3}
    NumTimeframes = 1
    Period <- OnePeriod
    MaxLast = 1
    MaxClock = 2
    Troubles = {"drop", "fault", "crash"}
    MaxTroubles = 1

SPECIFICATION Spec

INVARIANTS
    TypeOK
    OneInsertPerCandle
    PublishedIsStored
    VolumeAccounted

CHECK_DEADLOCK FALSE
