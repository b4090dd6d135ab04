\* The daemon: both jobs, three firings of one anomaly, up to two insights a pass.
SPECIFICATION Spec
CONSTANTS
    SoftThreshold = 3
    SoftCooldown = 2
    HardCooldowns <- CodeCooldowns
    NoProc = NoProc
    Faults = {"store", "crash"}
    Anomalies = {a1, a2, a3}
    a1 = a1
    a2 = a2
    a3 = a3
    Bucket <- OneBucket
    Titles = {t1, t2}
    t1 = t1
    t2 = t2
    Severities = {"warning"}
    MaxInsights = 2
    Triggers = {}
SYMMETRY Symmetry
INVARIANT AnalysisExclusive
INVARIANT AnomalyInOneList
INVARIANT NoAnomalyLostWithoutFault
INVARIANT NoCallWhileOpen
INVARIANT StoredAlertedOnce
INVARIANT CollectionsCloseTheirRows
PROPERTY ImplementsQueue
