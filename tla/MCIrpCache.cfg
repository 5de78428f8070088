SPECIFICATION FairSpec
CONSTANTS
    Irp = {r1, r2, r3}
    NoIrp = NoIrp
    Completer = {dpc}
    Pauser = pnp
    MAXIRPCACHE = 2
INVARIANTS
    TypeOK
    CacheCompact
    PausedResidue
PROPERTY
    QueueSpec
    PauseTerminates
