CONSTANTS
    None = None
    k1 = k1
    k2 = k2
    k3 = k3
    Charts = {0, 1}
    Shown = {1}
    Keys = {k1, k2}
    Series = {"series"}
    SeriesOf <- OneSeries
    Base = {k2}
    First <- SameKey
    Start = 2
    MaxTime = 3
    PageLen = 1
    MaxCandles = 2
    MaxSwitches = 1
    MaxTroubles = 1
    MaxWire = 1

SPECIFICATION Spec

INVARIANTS
    TypeOK
    ListInOrder
    SentCandleKept

CHECK_DEADLOCK FALSE
