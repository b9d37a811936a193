SPECIFICATION FairSpec

CONSTANTS
    Polls = {p1, p2}
    MaxLines = 3
    MaxStreams = 3
    KeepGenerations = 1
    SliceChanLength = 1
    LineChanLength = 1
    DumpChannelSize = 1

INVARIANTS
    TypeOK
    FileIsPrefix
    PassedLinesWritten
    CleanUpOutlastsWriter
    NeverPanics
PROPERTIES
    CleanUpReturns
