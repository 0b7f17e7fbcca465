SPECIFICATION CanvasSpec
CONSTANTS
    t1 = t1
    t2 = t2
    t3 = t3
    n1 = n1
    n2 = n2
    Mouse = m
    Touches = {t1, t2, t3}
    Nodes = {n1, n2}
    Edge = e
    Group = {n1, n2}
    Modes = {"replace", "toggle"}
    NoPtr = none
    Scenes <- FourScenes
INVARIANTS
    CanvasTypeOK
    RestWhenNothingTouches
PROPERTIES
    
    LockedMovesOnlyStale
SYMMETRY Fingers
CHECK_DEADLOCK FALSE
