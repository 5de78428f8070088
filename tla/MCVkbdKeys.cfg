SPECIFICATION Spec
CONSTANTS
    Key = {k1, k2, k3, k4}
    NoKey = NoKey
    Modifier = {shift}
    Button = {}
    Motion <- NoMotion
    KEYS = 3
    MAXXY = 1
    MAXZ = 1
    MAXIRPCACHE = 2
SYMMETRY KeySymmetry
INVARIANTS
    NoGhostKeys
    UnsentIsPending
PROPERTY
    OnlyRolloverDrops
