SPECIFICATION FairSpec
CONSTANTS
    c1 = c1
    c2 = c2
    e1 = e1
    e2 = e2
    i1 = i1
    Clients <- TwoClients
    Edits <- TwoEdits
    Imports <- OneImport
    MaxDrops = 2
    MaxCrashes = 1
INVARIANTS
    TypeOK
    RoomCoversStoredEdits
PROPERTIES
    EditsAreDurable
    
CHECK_DEADLOCK FALSE
