CONSTANTS
    s1 = s1  s2 = s2
    Subsystems = {s1, s2}
    Builds <- MCBuilds
    Arriving = {"TERM", "QUIT", "CTRL_C"}
    Programmatic = TRUE
    Main = Main
    Undecided = Undecided
SPECIFICATION FairSpec
CHECK_DEADLOCK FALSE
INVARIANTS IInv SignalShutdownIsGraceful
PROPERTIES SignalShutdownReturns PollingHandlerStops
