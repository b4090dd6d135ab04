SPECIFICATION FairSpec
CONSTANTS
    Requests = {"r1", "r2", "r3"}
    Users = {"u1", "u2"}
    UserOf <- Owner
    Corrects = {"r1"}
    Plans <- SomePlans
    AppTables = {"tasks"}
    Words <- Keywords
    PoolSize = 2
    MaxTurns = 1
    SessionTTL = 0
    CacheTTL = 0
    MaxTime = 2
CHECK_DEADLOCK FALSE
INVARIANT TurnsBelongToOwner
INVARIANT SessionRemembers
PROPERTY RequestsEnd
