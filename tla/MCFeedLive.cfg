CONSTANTS
    None = None
    k1 = k1
    k2 = k2
    k3 = k3
    Charts = {0, 1}
    Shown = {1}
    Keys = {k1, k2, k3}
    Series = {"series"}
    SeriesOf <- OneSeries
    Base = {k1}
    First <- SameKey
    Start = 1
    MaxTime = 2
    PageLen = 1
    MaxCandles = 1
    MaxSwitches = 4
    MaxTroubles = 2
    MaxWire = 1
    FewSwitches = 1
    FewTroubles = 1
    FewKeys = {k1, k2}

SPECIFICATION AspectSpec

INVARIANTS
    CallbackShowsKey
    SilentOnlyWhenShared

PROPERTIES
    RegistryKept
    LiveCandleShown

CHECK_DEADLOCK FALSE
