\* answers at any time or never, errors, failed writes, and wake-ups nobody signalled
CONSTANTS
    MaxRequests = 3
    Packets = 2
    Ops = {"search", "load_tracks", "playlist"}
    Errors = TRUE
    WritesFail = TRUE
SPECIFICATION Spec
INVARIANTS ResponseIsMine CachedAsAnswered
PROPERTIES CallsReturn
CHECK_DEADLOCK FALSE
