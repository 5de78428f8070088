SPECIFICATION HidSpec
CONSTANTS
    Key <- TableKeys
    NoKey = 0
    Modifier <- TableModifiers
    Button <- TableButtons
    Code <- SomeCodes
    Motion <- BoundaryMotion
    KEYS = 6
    MAXXY = 32767
    MAXZ = 127
    MAXIRPCACHE = 1
INVARIANTS
    TypeOK
    UnsentIsPending
    MouseUnderstood
    ModifiersUnderstood
