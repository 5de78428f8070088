SPECIFICATION DeviceSpec
CONSTANT
    BufferLength = {8, 9, 31, 32, 112, 113}
INVARIANTS
    DriverTypeOK
    NoRequestOutstanding
    CreatedWhole
    HeldWhilePowered
    PnpFollowsSystem
    QuietWhenStopped
    ReadsAreServed
    AssertionsHold
    UnloadedIsUnreferenced
PROPERTY
    RequestReturns
    AnsweredWhileStarted
CHECK_DEADLOCK FALSE
