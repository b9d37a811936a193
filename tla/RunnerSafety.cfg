SPECIFICATION Spec

CONSTANTS
    Plain = {c1}
    DevInfo = DevInfo
    Callback = Callback
    Fallible = {c1, Callback}
    MaxRunningPolls = 2
    PollResultsQueueSize = 1
    MaxSignals = 2
    MaxLeaving = 1

INVARIANTS
    IInv
    NoPollOutlivesCleanUp
    MonitorNeverBlocks
    FetchNotForgotten
    ForwardingNeverBlocks

PROPERTIES
    LifecycleSpec

CHECK_DEADLOCK FALSE
