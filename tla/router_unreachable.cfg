CONSTANTS
    Address <- Addresses
    NoAddress = "none"
    RouterAddress <- Routers
    Blacklisted = {"k"}
    gateway <- DirectGateway
    interface_ip <- DirectInterface
    Answering = {}
    Traffic <- Pings
    INIT_TTL = 3
    SR_ARPCACHE_SZ = 2
    SR_ARPCACHE_TO = 2
    MaxSent = 2
    MaxPackets = 1
    MaxDepth = 12
SPECIFICATION Spec
CHECK_DEADLOCK FALSE
INVARIANT
    BoundedRecursion
