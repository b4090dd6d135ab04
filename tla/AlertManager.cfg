\* With a window and without one: four insights, two make an incident.
\* After close() and at the bound of the clock the system stops.
SPECIFICATION FairSpec
CONSTANTS
    Insights <- Four
    Fp <- SampleFp
    Tables <- SampleTables
    Severity <- SampleSeverity
    Channels = {"log", "page"}
    Filter <- SampleFilter
    Modes = {TRUE, FALSE}
    MinIncidents = 2
    MaxPerHour = 2
    Cooldown = 2
    Hour = 3
    Callers = {"monitor"}
    MaxTime = 3
CHECK_DEADLOCK FALSE
INVARIANT HardCap
INVARIANT FingerprintCooldown
INVARIANT InsightInOnePlace
INVARIANT ClosedMeansHandled
PROPERTY BufferedIsFlushed
