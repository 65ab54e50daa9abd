\* one thread: the stores implement the table
CONSTANTS
    t1 = t1
    n1 = n1  n2 = n2  n3 = n3
    Null = Null
    Threads = {t1}
    Node = {n1, n2, n3}
    MaxId = 4
SYMMETRY NodeSymmetry
SPECIFICATION ListSpec
INVARIANTS UnregisterFindsChannel
PROPERTY ImplementsContract
CHECK_DEADLOCK FALSE
