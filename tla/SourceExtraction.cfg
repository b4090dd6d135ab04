SPECIFICATION FairSpec
CONSTANTS
    Ranked <- FiveFiles
    BatchSize = 2
    MaxCommits = 3
    MaxFaults = 1
INVARIANT BatchesLeaveNoGap
INVARIANT NoStaleFile
PROPERTY ExtractionSettles
