CONSTANTS
    TradeIds = {1}
    NumTimeframes = 1
    Period <- OnePeriod
    MaxLast = 1
    MaxClock = 1
    Troubles = {}
    MaxTroubles = 1

SPECIFICATION Spec

INVARIANT
    CandleTimeIsOpenTime

CHECK_DEADLOCK FALSE
