\* violation: an underrun stops playback for ever
CONSTANTS
    Tracks = 1
    Playable = {1}
    Size <- Sizes1
    SUBSTREAM_SIZE = 2
    maxbytes = 5
    watermark = 2
    Commands = {"play"}
    ListModes = {TRUE}
    MaxCommands = 1
    Faults = {}
    InOrder = TRUE
SPECIFICATION Spec
PROPERTIES ListIsPlayed
CHECK_DEADLOCK FALSE
