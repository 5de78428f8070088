SPECIFICATION FairSpec
CONSTANTS
    RingLen = 5
    IndexRange = 16
    MaxEvents = 19
INVARIANTS
    TypeOK
    DpcAfterCloseIsLate
    BackendKeptOut
PROPERTY
    HandledInOrder
    EveryEventHandled
CHECK_DEADLOCK FALSE
