SPECIFICATION PlanSpec
CONSTANTS
    MaxPeriod = 3
    MaxIntents = 2
    MaxFailures = 2
    MaxFaults = 1
INVARIANTS HigherPlanIsPaid PaidPlanIsKept UndoneIsTrue
PROPERTY IntentsSettle
CHECK_DEADLOCK FALSE
