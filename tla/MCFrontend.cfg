SPECIFICATION FairSpec
CONSTANTS
    Protocol = {0, 1}
    Domain = {1, 2}
    WaitRounds = 2
    Prompt = FALSE
    MaxFaults = 3
INVARIANTS
    TypeOK
    AllOrNothing
    ClosedBeforeConnect
    GrantedToBackend
PROPERTY
    AnnouncedWhenReady
    LinkSpec
    OperationReturns
CHECK_DEADLOCK FALSE
