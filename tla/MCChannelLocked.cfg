\* two threads, one at a time inside: what a lock would give
CONSTANTS
    t1 = t1  t2 = t2
    n1 = n1  n2 = n2
    Null = Null
    Threads = {t1, t2}
    Node = {n1, n2}
    MaxId = 3
SPECIFICATION ListSpec
CONSTRAINT OneInside
SYMMETRY NodeSymmetry
INVARIANTS UnregisterFindsChannel
PROPERTY ImplementsContract
CHECK_DEADLOCK FALSE
