\* Four bytes: NUL and the dot, both below the slash, the slash, and a letter.
SPECIFICATION PathsSpec
CONSTANTS
    Byte = {0, 46, 47, 97}
    Slash = 47
    MaxLen = 4
CHECK_DEADLOCK FALSE
INVARIANTS
    AgreesWithNames
    SubtreeIsContiguous
