SPECIFICATION ClaimSpec
CONSTANTS
    IdBits = 4
    PrefixBits = 2
    Crc <- CrcDef
    BitsOf <- BitsOfDef
    Private = {}
    Id <- IdDef
    Ip <- IpDef
    Distance <- DistanceDef
    ValidFor <- ValidForDef
    Prefix <- PrefixDef
    K = 1
    StaleTime = 2
    CacheCap = 2
    FirstResponders = 1
    FirstSubnets = 1
    Peer <- PeerDef
    OwnId <- OwnIdDef
    FirstIds <- OwnIdDef
    Address <- AddressDef
    PublicAt <- PublicAtDef
    Wanted = {"t"}
    Entry <- EntryDef
    MaxLookups = 1
    MaxVotes = 1
    MaxCount = 2
    PingInterval = 1
    RefreshInterval = 2
PROPERTIES
    ResponsiveNodesStay
