SPECIFICATION FairSpec
CONSTANTS
    Passes = {daemon, trigger}
    Sigs = {s}
    Tables = {t}
    Ghost = ghost
    NoModel = none
    MaxQueries = 2
    Cooldown = 1
    Retain = 1
    MaxNow = 2
    MaxEvents = 2
INVARIANT AuditTrail
PROPERTY CooldownHolds
PROPERTY PhaseEnds
