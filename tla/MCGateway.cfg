SPECIFICATION Spec
CONSTANTS
    x1 = x1
    x2 = x2
    s1 = s1
    s2 = s2
    u1 = u1
    u2 = u2
    Null = Null
    Rest = {x1, x2}
    Session = {s1, s2}
    User = {u1, u2}
    Requests = {"browse"}
    MaxLines = 1
    Shared = FALSE
    KeyErrors = FALSE
SYMMETRY Symmetry
CHECK_DEADLOCK FALSE
INVARIANTS
    ClientIsLive
    AnswerIsMine
    OneReplyEach
    OneSessionPerUser
