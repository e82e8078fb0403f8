CONSTANTS
    s1 = s1  s2 = s2  p1 = p1  p2 = p2  t1 = t1  t2 = t2  t3 = t3
    Subsystems = {s1, s2}
    Threads = {p1, p2}
    Tasks = {t1, t2}
    Runtime = "tokio"
    Exclusive = TRUE
    MayBlock = FALSE
    MayReport = TRUE
    InitialDelay = 1
    MaxDelay = 3
    Backoff = {s1}
    NoTask = NoTask
    NoSubsystem = NoSubsystem
SPECIFICATION FairSpec
INVARIANTS StoppedMeansEnded EventsTellState RestartsAddUp
PROPERTIES ReadyWhenEnded StopReturns
