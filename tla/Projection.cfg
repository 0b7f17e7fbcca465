SPECIFICATION FairSpec
CONSTANTS
    n1 = n1
    Nodes <- OneNode
    Attempts = 2
    MaxEdits = 4
    MaxFaults = 2
INVARIANTS
    TypeOK
    BehindOnlyInVersion
    FlaggedAfterAllAttempts
PROPERTIES
    RowsNeverGoBack
    VersionsAreProjected
CHECK_DEADLOCK FALSE
