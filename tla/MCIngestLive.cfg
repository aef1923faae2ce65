CONSTANTS
    TradeIds = {1}
    NumTimeframes = 2
    Period <- TwoPeriods
    MaxLast = 1
    MaxClock = 2
    Troubles = {"drop", "fault", "crash"}
    MaxTroubles = 1

SPECIFICATION FairSpec

PROPERTIES
    CountedTradeIsFlushed
    CloserComesBack

CHECK_DEADLOCK FALSE
