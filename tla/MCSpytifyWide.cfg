SPECIFICATION Spec
CONSTANTS
    o1 = o1  o2 = o2  o3 = o3  o4 = o4
    t1 = t1  t2 = t2
    Obj = {o1, o2, o3, o4}
    Tree = {t1, t2}
    Null = Null
SYMMETRY Symmetry
INVARIANTS FreedExactlyOnce DanglesOnlyWithoutOwner
CHECK_DEADLOCK FALSE
