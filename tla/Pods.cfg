SPECIFICATION FairSpec

CONSTANTS
    Tools = {t1, t2, t3}
    NoPod = NoPod
    MaxStarts = 2
    MaxFaults = 2
    MaxEvictions = 2

INVARIANTS
    IInv
    StartedOnOwnPod
    CleanedUpLeavesNothing

PROPERTIES
    LeftoverStays
    WaitsReturn

CHECK_DEADLOCK FALSE
