SPECIFICATION Spec
CONSTANTS
    MaxInt = 15
    Second = 2
    Duration <- Durations
    Count <- Counts
INVARIANTS
    CapIsExponential
    DelayIsBounded
CHECK_DEADLOCK FALSE
