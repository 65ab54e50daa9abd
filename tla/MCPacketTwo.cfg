\* violation: two threads write at once
CONSTANTS
    w1 = w1  w2 = w2
    Writers = {w1, w2}
    MaxSent = 2
    MaxReceived = 0
SPECIFICATION Spec
INVARIANTS ServerDecrypts
CHECK_DEADLOCK FALSE
