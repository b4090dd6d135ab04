SPECIFICATION FairSpec
CONSTANTS
    Chatters = {a, b}
    Schemas <- OneTable
    Extracted <- FromCode
    Corrections <- TwoCorrections
    Size <- Sizes
    StopWords = {"the"}
    Questions <- Asked
    Anomalies <- Spikes
    ForQuestion <- TwoFacts
    ForAnomalies <- OneFact
    MaxRows = 6
    MaxEvents = 3
CHECK_DEADLOCK FALSE
INVARIANT LastSaveStands
INVARIANT ActiveFactsAreFound
INVARIANT CorrectionsComeFirst
PROPERTY DuplicatesGo
