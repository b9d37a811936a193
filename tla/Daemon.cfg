SPECIFICATION FairSpec

CONSTANTS
    Polls = {p1, p2, p3}
    MaxRestarts = 3

INVARIANTS
    IInv

PROPERTIES
    FallsBackOnlyToAGonePod
    FollowsTheDaemon
