SPECIFICATION Spec
CONSTANTS
    Workers = {w1, w2}
    MaxVersion = 2
    MaxFailures = 2
    MaxFaults = 1
PROPERTIES SeenOnlyForward ClosingIsSilent CatchesUp
