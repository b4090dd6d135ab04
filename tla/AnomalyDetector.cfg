\* A week has two hours, the window holds two readings and a bucket the samples
\* of two cycles; it is trusted after two weeks.
SPECIFICATION FairSpec
CONSTANTS
    Series <- ThreeHosts
    Shared <- OneKey
    Values = {20, 40}
    Levels <- Standing
    Slots = 2
    Window = 2
    MinSamples = 2
    MaxSamples = 6
    MinWeeks = 2
    MinAbsolute = 10
    MinPercent = 2
    Warning = 2
    Critical = 3
    NoReading = NoReading
    MaxCycles = 2
    MaxEvents = 2
INVARIANT SeverityIsSustained
INVARIANT SingleSpikeNotReported
INVARIANT TrustNeedsWeeks
PROPERTY ShiftBecomesBaseline
