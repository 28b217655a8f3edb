SPECIFICATION Spec
CONSTANTS
    w1 = w1
    w2 = w2
    alice = alice
    Workers = {w1}
    Runs <- OneRun
    Owners <- OneOwner
    OwnerOf <- OneOwnerOf
    Metered <- OnlyAlice
    NoWorker = NoWorker
    Batches = 1
    Timely = TRUE
    MaxRequests = 6
    MaxFaults = 1
    MaxRetries = 1
CHECK_DEADLOCK FALSE
PROPERTIES CheckpointReused
