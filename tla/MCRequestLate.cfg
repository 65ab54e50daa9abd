\* violation: the answer to an earlier request is taken for this one's
CONSTANTS
    MaxRequests = 3
    Packets = 2
    Ops = {"search", "load_tracks", "image", "playlist", "lists", "rename"}
    Errors = FALSE
    WritesFail = FALSE
SPECIFICATION Spec
INVARIANTS ResponseIsAlwaysMine
CHECK_DEADLOCK FALSE
