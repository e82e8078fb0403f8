CONSTANTS
    p1 = p1  p2 = p2  p3 = p3
    Procs = {p1, p2, p3}
    NoProc = NoProc
SPECIFICATION Spec
SYMMETRY Symmetry
CHECK_DEADLOCK FALSE
INVARIANTS IInv OneInstance PidFileTells ListenerReachable
PROPERTIES ForeignFilesStay
