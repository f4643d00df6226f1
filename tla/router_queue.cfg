CONSTANTS
    Address <- Addresses
    NoAddress = "none"
    RouterAddress <- Routers
    Blacklisted = {"k"}
    gateway <- DirectGateway
    interface_ip <- DirectInterface
    Answering = {"a", "b"}
    Traffic <- AllPaths
    INIT_TTL = 3
    SR_ARPCACHE_SZ = 1
    SR_ARPCACHE_TO = 1
    MaxSent = 2
    MaxPackets = 2
    MaxDepth = 3
SPECIFICATION FairSpec
CHECK_DEADLOCK FALSE
INVARIANTS
    TypeOK
    QueueByNextHop
    NoneLost
    SentOrRefused
    PointersValid
    GivenUpAfterAttempts
PROPERTY
    EveryPacketSettled
