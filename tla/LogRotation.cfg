CONSTANTS
    w1 = w1  w2 = w2
    Writers = {w1, w2}
    MaxSize = 2
    MaxFiles = 2
    Lengths = {1, 2, 3}
    Records = 4
    NoWriter = NoWriter
SPECIFICATION Spec
SYMMETRY Symmetry
CHECK_DEADLOCK FALSE
INVARIANTS IInv
PROPERTIES ImplementsLog KeepsNewest KeepsFullFiles
