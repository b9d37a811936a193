SPECIFICATION Spec

CONSTANTS
    Polls = {p1, p2}
    MaxEntries = 2

INVARIANTS
    RecordsAreWhole
    StatesAreOwn
    TypesAlwaysFit

CHECK_DEADLOCK FALSE
