SPECIFICATION LlmSpec
CONSTANTS
    SoftThreshold = 3
    SoftCooldown = 2
    HardCooldowns <- Cooldowns
    Passes = {p1, p2}
    Direct = {q}
    MaxStreak = 3
    Budget = 2
    MaxDays = 1
INVARIANT ThreeStrikes
INVARIANT OvershootIsBounded
PROPERTY CooldownRespected
