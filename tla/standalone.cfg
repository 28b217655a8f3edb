SPECIFICATION StandaloneSpec
CONSTANTS
    DayLength = 3
    MonthLengths <- Calendar
    Schedules <- MCSchedules
    Users = {alice}
    DatabaseDays = 1
    ClosureDays = 2
    MaxDay = 5
    MaxSnapshots = 2
    Admins = {anna, ben, sue}
    Supers = {sue}
    Cases = {case}
    Verdicts = {v1, v2}
    Former = former
    MaxVersions = 3
    MaxRevision = 5
    Clients = {w1, w2}
    Guests = {p, q}
    Owners = {u}
    Addresses = {a}
    MaxAttempts = 1
    MaxChallenges = 3
    MaxCodes = 4
    MaxLegal = 2
    Requests = {r1, r2, r3}
    Limit = 2
    MaxWindow = 2
    Readers = {f1, f2}
    PmcPapers = {pmcPaper}
    ArxivPapers = {arxivPaper}
    Budget = 2
    MaxSelected = 1
    MaxSource = 2
    MaxTakeOvers = 1
    Senders = {s1, s2}
    MaxSends = 2
    MaxTurns = 2
    MaxClaims = 2
    MaxNotices = 2
    Topics = {t}
    Attempts = {1, 2}
    Configuration <- MCConfiguration
    MaxPapers = 2
    MaxClock = 2
CHECK_DEADLOCK FALSE
INVARIANTS AroundIsReference NothingRevived DisagreementIsDisputed WithinLimit InputsAreSaved ProvidersAreSpared EveryTurnIsTold AllowanceKept ReservationsEnd
PROPERTIES ProvenByNewest
