CONSTANTS
    t1 = t1  t2 = t2  t3 = t3
    Tasks = {t1, t2, t3}
    NoTask = NoTask
    MaxHistory = 2
    MaxClock = 2
SPECIFICATION Spec
CHECK_DEADLOCK FALSE
INVARIANTS IInv
PROPERTIES QuietWhenStopped TasksEnd
