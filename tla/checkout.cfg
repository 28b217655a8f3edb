SPECIFICATION Spec
CONSTANTS
    r1 = r1
    r2 = r2
    t1 = t1
    t2 = t2
    Requests = {r1, r2}
    Ticks = {}
    Targets = {t1, t2}
    MaxAttempts = 2
    MaxIntents = 1
    MaxFaults = 1
SYMMETRY Alike
INVARIANTS PayableOnce EndsAreTrue ConsentKept
CHECK_DEADLOCK FALSE
