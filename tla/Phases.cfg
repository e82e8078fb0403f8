CONSTANTS
    Subsystems = {s1, s2}
    Timeouts <- MCTimeouts
    NewTimeouts <- MCNewTimeouts
    MinPoll = 1
    MaxPoll = 3
    ForcePoll = 2
    Late = 1
SPECIFICATION FairSpec
CHECK_DEADLOCK FALSE
INVARIANTS IInv TeardownBounded
PROPERTIES NoEarlyTimeout TeardownEnds
