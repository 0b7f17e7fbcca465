SPECIFICATION Spec
CONSTANTS
    r1 = r1
    Runs <- OneRun
    Wall <- ManifestWall
    Slots = 1
    MaxStalled = 1
    MaxFaults = 2
INVARIANTS
    TypeOK
    SucceededHasProposal
    ExecutionsBounded
    ProposalsComeFromOutput
    FailureExplained
    InProcessCancelWasAsked
    StrandedOnlyByFault
PROPERTIES
    RevivedOnlyByQueuedJob
    SucceededUnseatedOnlyByStaleSweep
