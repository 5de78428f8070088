SPECIFICATION Spec
CONSTANTS
    Irp = {r1}
    NoIrp = NoIrp
    Completer = {dpc}
    Pauser = pnp
    MAXIRPCACHE = 4
INVARIANT
    CompletedOnce
