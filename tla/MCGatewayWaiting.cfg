SPECIFICATION Spec
CONSTANTS
    x1 = x1
    x2 = x2
    s1 = s1
    s2 = s2
    u1 = u1
    u2 = u2
    Null = Null
    Rest = {x1}
    Session = {s1, s2}
    User = {u1, u2}
    Requests = {"search", "browse", "image", "playlist", "key", "substream"}
    MaxLines = 1
    Shared = FALSE
    KeyErrors = FALSE
CHECK_DEADLOCK FALSE
PROPERTIES
    WaitingEnds
