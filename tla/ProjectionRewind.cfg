SPECIFICATION Spec
CONSTANTS
    n1 = n1
    Nodes <- OneNode
    Attempts = 2
    MaxEdits = 4
    MaxFaults = 2
INVARIANTS
    RowsInLine
CHECK_DEADLOCK FALSE
