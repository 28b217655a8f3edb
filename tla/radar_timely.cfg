SPECIFICATION FairSpec
CONSTANTS
    w1 = w1
    w2 = w2
    alice = alice
    Workers = {w1, w2}
    Runs <- TwoRuns
    Owners <- OneOwner
    OwnerOf <- SameOwnerOf
    Metered <- OnlyAlice
    NoWorker = NoWorker
    Batches = 1
    Timely = TRUE
    MaxRequests = 5
    MaxFaults = 1
    MaxRetries = 1
INVARIANTS MutualExclusion QuotaFollowsRun BuiltOnWholeOutput SavedWorkIsPaidOnce
PROPERTIES KeepsPromise EveryRunEnds
CHECK_DEADLOCK FALSE
