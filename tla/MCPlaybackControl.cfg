\* two calls of play, next and stop in any order, racing with both other threads
CONSTANTS
    Tracks = 2
    Playable = {1, 2}
    Size <- Sizes2
    SUBSTREAM_SIZE = 2
    maxbytes = 3
    watermark = 1
    Commands = {"play", "next", "stop"}
    ListModes = {TRUE}
    MaxCommands = 2
    Faults = {}
    InOrder = TRUE
SPECIFICATION Spec
INVARIANTS TotbytesExact
PROPERTIES CallsReturn
CHECK_DEADLOCK FALSE
