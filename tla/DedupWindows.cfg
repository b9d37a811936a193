SPECIFICATION Reading

CONSTANTS
    MaxLine = 6
    MaxWindows = 3
    MaxGappy = 2

INVARIANTS
    MonotoneWindowsMerge
    GenerationMerges
    GapsOfOneSideMerge
    MergeNeverPanics

CHECK_DEADLOCK FALSE
