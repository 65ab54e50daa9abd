\* violation: a play that races with a stop or another play may never be announced
CONSTANTS
    Tracks = 2
    Playable = {1, 2}
    Size <- Sizes2
    SUBSTREAM_SIZE = 2
    maxbytes = 3
    watermark = 1
    Commands = {"play", "next", "stop"}
    ListModes = {TRUE}
    MaxCommands = 2
    Faults = {}
    InOrder = TRUE
SPECIFICATION Spec
PROPERTIES PlayIsAnswered
CHECK_DEADLOCK FALSE
