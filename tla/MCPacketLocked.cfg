\* two threads write and disconnect, one at a time: what a lock would give
CONSTANTS
    w1 = w1  w2 = w2
    Writers = {w1, w2}
    MaxSent = 3
    MaxReceived = 2
SPECIFICATION Spec
CONSTRAINT OneWriting
INVARIANTS ServerDecrypts HandledIsIntact
CHECK_DEADLOCK FALSE
