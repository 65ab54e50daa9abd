\* the last track is shorter than a substream: all of it may arrive during snd_stop
CONSTANTS
    Tracks = 2
    Playable = {1, 2}
    Size <- SizesShort
    SUBSTREAM_SIZE = 2
    maxbytes = 4
    watermark = 2
    Commands = {"play"}
    ListModes = {TRUE, FALSE}
    MaxCommands = 1
    Faults = {"write", "channel", "key"}
    InOrder = TRUE
SPECIFICATION Spec
INVARIANTS NoCrash
CHECK_DEADLOCK FALSE
