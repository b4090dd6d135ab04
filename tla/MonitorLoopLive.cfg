\* The daemon and a caller of trigger_analysis under fair scheduling, without symmetry.
SPECIFICATION FairSpec
CONSTANTS
    SoftThreshold = 3
    SoftCooldown = 2
    HardCooldowns <- CodeCooldowns
    NoProc = NoProc
    Faults = {}
    Anomalies = {a1, a2, a3}
    a1 = a1
    a2 = a2
    a3 = a3
    Bucket <- OneBucket
    Titles = {t1}
    t1 = t1
    Severities = {"warning"}
    MaxInsights = 1
    Triggers = {trig}
    trig = trig
PROPERTY PendingIsTaken
PROPERTY CollectionNotBlocked
