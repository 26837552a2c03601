SPECIFICATION Spec
CONSTANTS
    MaxValue = 2
    Decimal <- MCDecimal
    Readings <- MCReadings
    MaxRuns = 2
    MaxRows = 3
    Failed = Failed
INVARIANT
    FailureReported
CHECK_DEADLOCK FALSE
