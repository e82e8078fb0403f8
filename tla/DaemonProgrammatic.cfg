CONSTANTS
    s1 = s1  s2 = s2
    Subsystems = {s1}
    Builds <- DefaultTokio
    Arriving = {}
    Programmatic = TRUE
    Main = Main
    Undecided = Undecided
SPECIFICATION FairSpec
CHECK_DEADLOCK FALSE
PROPERTIES ShutdownReturns
