SPECIFICATION FairSpec
CONSTANTS
    r1 = r1
    Runs <- OneRun
    Wall <- ManifestWall
    Slots = 1
    MaxStalled = 1
    MaxFaults = 1
PROPERTIES
    ReaperRecovers
    SettlesWithoutFaults
