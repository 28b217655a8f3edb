SPECIFICATION FairSpec
CONSTANTS
    Workers = {w1, w2}
    Sessions = {s1}
    Reviews = {r1, r2}
    Cases = 2
    DailyCalls = 3
    MaxDay = 2
    MaxVersion = 1
    MaxFaults = 1
INVARIANTS UncertainIsLast
PROPERTY EveryReviewEnds
CHECK_DEADLOCK FALSE
