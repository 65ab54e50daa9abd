\* two threads without a lock: the assertion of channel_unregister fails
CONSTANTS
    t1 = t1  t2 = t2
    n1 = n1  n2 = n2
    Null = Null
    Threads = {t1, t2}
    Node = {n1, n2}
    MaxId = 3
SPECIFICATION ListSpec
INVARIANTS UnregisterFindsChannel
CHECK_DEADLOCK FALSE
