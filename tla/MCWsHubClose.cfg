CONSTANTS
    c1 = c1
    c2 = c2
    ip = ip
    loopback = loopback
    Clients = {c1, c2}
    Addresses = {loopback}
    LocalAddresses = {loopback}
    MaxPerIP = 1
    MaxSubs = 1
    BufSize = 1
    BaseCompression = 2
    CompressionLevels = 1
    Requests = {0, 2}
    MaxClock = 1
    MaxMessages = 2
    MaxTroubles = 0

SPECIFICATION Spec

INVARIANTS
    BoundaryAnnounced

CHECK_DEADLOCK FALSE
