\* one call of despotify_play, on a track or a list; anything may fail
CONSTANTS
    Tracks = 3
    Playable = {1, 3}
    Size <- Sizes3
    SUBSTREAM_SIZE = 2
    maxbytes = 4
    watermark = 2
    Commands = {"play"}
    ListModes = {TRUE, FALSE}
    MaxCommands = 1
    Faults = {"write", "channel", "key"}
    InOrder = TRUE
SPECIFICATION Spec
INVARIANTS BufferBounded NoCrash BusyIsOneSubstream FifoIsStream
CHECK_DEADLOCK FALSE
