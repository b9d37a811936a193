SPECIFICATION FairSpec

CONSTANTS
    Plain = {c1}
    DevInfo = DevInfo
    Callback = Callback
    Fallible = {}
    MaxRunningPolls = 1
    PollResultsQueueSize = 1
    MaxSignals = 1
    MaxLeaving = 1

PROPERTIES
    RunEnds
    ErrorsNeverBlockMain
    ErrorLeadsToFetch
    ShutdownEndsWhenResultsFit

CHECK_DEADLOCK FALSE
