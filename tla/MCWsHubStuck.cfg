CONSTANTS
    c1 = c1
    c2 = c2
    ip = ip
    loopback = loopback
    Clients = {c1, c2}
    Addresses = {ip}
    LocalAddresses = {}
    MaxPerIP = 2
    MaxSubs = 1
    BufSize = 1
    BaseCompression = 2
    CompressionLevels = 1
    Requests = {0, 2}
    MaxClock = 0
    MaxMessages = 2
    MaxTroubles = 0

SPECIFICATION FairSpec

PROPERTY
    SlowClientStopsNobody

CHECK_DEADLOCK FALSE
