SPECIFICATION Spec
CONSTANTS
    Key = {k1}
    NoKey = NoKey
    Modifier = {}
    Button = {left, right}
    Motion <- BoundaryMotion
    KEYS = 1
    MAXXY = 1
    MAXZ = 1
    MAXIRPCACHE = 2
INVARIANTS
    FreedIsZero
