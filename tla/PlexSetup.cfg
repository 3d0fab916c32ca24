SPECIFICATION SSpec
CONSTANTS
    b1 = b1
    b2 = b2
    u1 = u1
    u2 = u2
    v1 = v1
    v2 = v2
    Browsers <- TwoBrowsers
    Users <- TwoUsers
    Servers <- TwoServers
    None = None
    MaxAddresses = 2
    MaxLogins = 2
    MaxRotations = 1
    MaxTroubles = 1
SYMMETRY Symmetry
INVARIANTS
    OwnersOnly
    SignedIsReadable
    LoginLasts
    
CHECK_DEADLOCK FALSE
