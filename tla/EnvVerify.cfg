SPECIFICATION Spec
CONSTANTS
    MaxOdd = 2
    MaxUnwritten = 2
INVARIANTS IInv StatusOfLastRead FoundAntennaReported ExitTellsFailures ReportComplete
CHECK_DEADLOCK FALSE
