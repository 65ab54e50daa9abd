\* one thread writes and disconnects, the network thread reads
CONSTANTS
    w1 = w1
    Writers = {w1}
    MaxSent = 3
    MaxReceived = 3
SPECIFICATION Spec
INVARIANTS ServerDecrypts HandledIsIntact
PROPERTIES ThreadEnds
CHECK_DEADLOCK FALSE
