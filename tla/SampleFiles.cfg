SPECIFICATION Spec
CONSTANTS
    MaxValue = 2
    Decimal <- MCDecimal
    Readings <- MCReadings
    MaxRuns = 2
    MaxRows = 3
    Failed = Failed
INVARIANTS
    SummaryTellsSamples
    OldSummaryBetrayed
    ReportTellsSamples
CHECK_DEADLOCK FALSE
