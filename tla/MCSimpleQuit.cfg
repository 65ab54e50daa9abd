SPECIFICATION Spec
CONSTANTS
    t1 = t1  
    Tree = {t1}
    Null = Null
    KeysInTime = TRUE
PROPERTIES QuitEnds
CHECK_DEADLOCK FALSE
