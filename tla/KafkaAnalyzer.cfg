SPECIFICATION FairSpec
CONSTANTS
    Batch = {b1}
    MaxAttempts = 3
    NoOffset = NoOffset
    MaxRuns = 3
    MaxFaults = 2
INVARIANTS TypeOK SentIsThere RunAccounts RestartsCountOnce
PROPERTIES KeepsUp StopEnds
CHECK_DEADLOCK FALSE
