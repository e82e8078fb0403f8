CONSTANTS
    c1 = c1  c2 = c2  c3 = c3
    w1 = w1  w2 = w2  r1 = r1
    Calls = {c1, c2, c3}
    ReasonOf <- MCReasonOf3
    Waiters = {w1, w2}
    Readers = {r1}
SPECIFICATION FairSpec
INVARIANTS IInv NoLostWakeup WinnerDecides NoLoserReason StatsCoherent
PROPERTIES ImplementsLatchSafely ImplementsLatch
