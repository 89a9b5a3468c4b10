SPECIFICATION HSpec
CONSTANTS
    Threads = {t1, t2}
    Sketches = {a, b}
    Keys = {x, y}
    Depth = 2
    Width = 2
    HashFunctions <- MCHashFunctions
    Ks = {1}
    MaxCalls = 3
    None = None
SYMMETRY Symmetry
CHECK_DEADLOCK FALSE
INVARIANTS HeapCurrent NeverUnderestimates NoDeadlock
