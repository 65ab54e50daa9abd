SPECIFICATION Spec
CONSTANTS
    t1 = t1  t2 = t2  t3 = t3
    Tree = {t1, t2, t3}
    Null = Null
    KeysInTime = TRUE
SYMMETRY Symmetry
INVARIANTS FreedExactlyOnce ListsAreLive QueuedIsLive
CHECK_DEADLOCK FALSE
