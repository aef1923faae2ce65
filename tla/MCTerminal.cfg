CONSTANTS
    btc = btc
    eth = eth
    auto = auto
    clear = clear
    delta = delta
    clusters = clusters
    Symbols = {btc, eth}
    Intervals = {"1m", "15m", "50t"}
    Multipliers = {1, 2, 5}
    Styles = {auto, clear}
    Order <- MCOrder
    Variants = {plain, custom}
    plain = plain
    custom = custom
    Overlays = {delta}
    Roles = {"Guest", "Pro"}
    Settings <- MCSettings
    d1 = d1
    d2 = d2
    Null = Null
    Tools = {"channel", "horizontal", "text"}
    Ids = {d1, d2}
    MaxCandles = 1
    Slots = {1, 2}
    Columns = 2
    Steps = 4
    Volumes = {0, 1}

SPECIFICATION Spec

SYMMETRY MCSymmetry

INVARIANTS
    TypeOK
    NoShortSpot
    CompressionBelongsToKey
    DraftNotStale
    GestureNeedsButton
    ScrollInStep
    ValueAreaRight
PROPERTY
    HiddenChartUntouched
