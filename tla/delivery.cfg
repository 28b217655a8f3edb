SPECIFICATION FairSpec
CONSTANTS
    w1 = w1
    w2 = w2
    a = a
    b = b
    Workers = {w1, w2}
    Letters = {a}
    MaxAttempts = 3
    MaxFaults = 3
    MaxLate = 1
INVARIANT StatusIsTrue
PROPERTIES SentUnderItsClaim EveryLetterEnds
CHECK_DEADLOCK FALSE
