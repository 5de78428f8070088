SPECIFICATION HidSpec
CONSTANTS
    Key <- TableKeys
    NoKey = 0
    Modifier <- TableModifiers
    Button <- TableButtons
    Code <- SomeKeys
    Motion <- NoMotion
    KEYS = 6
    MAXXY = 32767
    MAXZ = 127
    MAXIRPCACHE = 1
INVARIANT
    KeysUnderstood
