SPECIFICATION FairSpec

CONSTANTS
    Polls = {p1, p2, p3}
    QueueSize = 2
    MaxChanges = 2
    MaxFailures = 3

INVARIANT IInv

PROPERTIES
    FreshAnswer
    OlderOnlyByOverlap
    ErrorIsAnswered

CHECK_DEADLOCK FALSE
