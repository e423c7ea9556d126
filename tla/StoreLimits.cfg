\* The metadata is one byte longer than the reader takes.
SPECIFICATION Spec
CONSTANTS
    Byte = {46, 47, 97, 98}
    Slash = 47
    Key <- MCKey
    Value = {1, 2, 3}
    Unreadable = {2}
    BlockSize = 5
    MetaLength = 9
    LongValue = {3}
    MaxMetaSize = 8
    MaxStringSize = 4
    MaxBlockSize = 17
INVARIANT
    OnlyDamageIsRefused
