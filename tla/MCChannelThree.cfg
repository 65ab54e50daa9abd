\* three channels at a time: ids drift upwards past the largest a packet can carry;
\* a channel up there is never found again, so that no id above 4 is ever taken
CONSTANTS
    r1 = r1  r2 = r2  r3 = r3
    Req = {r1, r2, r3}
    WireIds = 3
    MaxId = 5
SYMMETRY ReqSymmetry
SPECIFICATION Spec
INVARIANTS TypeOK UniqueIds AnswersFindTheirChannel SubstreamNeverLeaks
PROPERTIES CallbackOrder ImplementsContract
CHECK_DEADLOCK FALSE
