SPECIFICATION Spec
CONSTANTS
    w1 = w1
    w2 = w2
    alice = alice
    Workers = {w1, w2}
    Runs <- OneRun
    Owners <- OneOwner
    OwnerOf <- OneOwnerOf
    Metered <- OnlyAlice
    NoWorker = NoWorker
    Batches = 1
    Timely = FALSE
    MaxRequests = 5
    MaxFaults = 2
    MaxRetries = 1
SYMMETRY WorkerSymmetry
INVARIANT OwnedWhileRunning
CHECK_DEADLOCK FALSE
