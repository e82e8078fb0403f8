CONSTANTS
    s1 = s1  s2 = s2  p1 = p1  p2 = p2  t1 = t1  t2 = t2  t3 = t3
    Subsystems = {s1}
    Threads = {p1, p2}
    Tasks = {t1, t2, t3}
    Runtime = "tokio"
    Exclusive = FALSE
    MayBlock = TRUE
    MayReport = TRUE
    InitialDelay = 1
    MaxDelay = 3
    Backoff = {}
    NoTask = NoTask
    NoSubsystem = NoSubsystem
SPECIFICATION Spec
SYMMETRY Symmetry
INVARIANTS IInv
PROPERTIES StopNeverAbandons
