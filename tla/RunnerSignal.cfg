SPECIFICATION FairSpec

CONSTANTS
    Plain = {c1}
    DevInfo = DevInfo
    Callback = Callback
    Fallible = {}
    MaxRunningPolls = 1
    PollResultsQueueSize = 1
    MaxSignals = 1
    MaxLeaving = 1

PROPERTIES
    SignalEndsRun

CHECK_DEADLOCK FALSE
