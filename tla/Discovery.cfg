SPECIFICATION DiscoveryFairSpec
CONSTANTS
    Connectors <- TwoConnectors
    Tables = {users}
    Losses <- SomeLosses
    MaxVersion = 2
    MaxMoves = 2
    MaxFailures = 2
    NoModel = NoModel
    Unread = Unread
INVARIANT EventsAccountForCache
PROPERTY NoDriftToldTwice
PROPERTY CacheCatchesUp
