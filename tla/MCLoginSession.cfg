\* a login, packets from the server, an exit, on a connection that may break
CONSTANTS
    Breaks = TRUE
    MaxPackets = 4
SPECIFICATION LoginSpec
INVARIANTS RefusalIsTold ThreadGoneWhenFreed
PROPERTIES ExitReturns
CHECK_DEADLOCK FALSE
