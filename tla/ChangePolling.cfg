SPECIFICATION PollingFairSpec
CONSTANTS
    Deploys = {d1, d2}
    Commits = {c}
    LookBack = 2
    DeployLimit = 1
    CommitLimit = 1
    Horizon = 4
    RowLimit = 5
    Proximity = 3
    TopN = 4
    Retries = 2
    MaxFailures = 2
    BackOff = 1
    MaxNow = 3
    MaxLag = 1
    MaxChanges = 2
PROPERTY LatestChangesAreShown
INVARIANT GivesUpAfterFailures
PROPERTY BackOffEnds
