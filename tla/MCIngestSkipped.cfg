CONSTANTS
    TradeIds = {1, 2, 3}
    NumTimeframes = 1
    Period <- OnePeriod
    MaxLast = 1
    MaxClock = 1
    Troubles = {"drop"}
    MaxTroubles = 1

SPECIFICATION WatchSpec

INVARIANT
    NoTradeSkipped

CHECK_DEADLOCK FALSE
