SPECIFICATION ClosureSpec
CONSTANTS
    Requests = {r1}
    Ticks = {k1}
    Targets = {t1}
    MaxAttempts = 1
    MaxIntents = 0
    MaxFaults = 1
    Tries = 2
INVARIANT ClosedMeansStopped
PROPERTY ClosureEnds
CHECK_DEADLOCK FALSE
