SPECIFICATION MCSpec
CONSTANTS
    w1 = w1
    w2 = w2
    s1 = s1
    alice = alice
    bob = bob
    carol = carol
    NoSchedule = NoSchedule
    Owners = {alice, bob, carol}
    Digests <- MCDigests
    OwnerOf <- MCOwnerOf
    Dispatchers = {w1, w2}
    Sessions = {s1}
    Schedules <- Both
    Page = 2
    MaxTime = 3
    Crashes = TRUE
    Plans = {"open", "free", "limited", "exhausted", "blocked"}
INVARIANTS PreviewIsWhatRuns
PROPERTIES OccurrencesRunOnce OverdueIsServed
CHECK_DEADLOCK FALSE
