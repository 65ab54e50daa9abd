\* violation: the welcome comes before the wait for it
CONSTANTS
    Breaks = FALSE
    MaxPackets = 3
SPECIFICATION LoginSpec
PROPERTIES LoginReturns
CHECK_DEADLOCK FALSE
