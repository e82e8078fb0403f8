CONSTANTS
    t1 = t1  t2 = t2  o1 = o1  o2 = o2  o3 = o3  c1 = c1  c2 = c2
    Threads = {t1, t2}
    Objects = {o1, o2, o3}
    InitialSize = 1
    MaxSize = 1
    NoObject = NoObject
    MaxSamples = 2
    Readers = {c1}
    Resetters = {c2}
    Reports = 3
SPECIFICATION Spec
SYMMETRY Symmetry
CHECK_DEADLOCK FALSE
INVARIANTS IInv CountersExact SnapshotCoherent
