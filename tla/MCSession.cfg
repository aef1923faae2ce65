CONSTANTS
    btc = btc
    Symbols = {btc}
    Prices = {10000, 20000, 30000}
    Sizes = {1, 2}
    Cash = 50000
    MaxOrders = 3
    None = None
    Roles = {"Free", "Pro", "VIP", "Admin"}
    Settings <- MCSettings
    MaxTimers = 1

SPECIFICATION BothSpec

INVARIANTS
    TypeOK
    PositionIsNetOfFills
    EntryIsAverageOfFills
    ReachedOrderLeaves
    FilledOnlyWhenReached
    RoleIsStored
    PickNotLost
    PlanPaidFor
