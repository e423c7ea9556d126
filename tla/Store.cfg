\* Blocks of one to three records: a record takes from 2 bytes to 6.  The limits let
\* three blocks through when their first keys are short.
SPECIFICATION Spec
CONSTANTS
    Byte = {46, 47, 97, 98}
    Slash = 47
    Key <- MCKey
    Value = {1, 2, 3}
    Unreadable = {2}
    BlockSize = 5
    MetaLength = 9
    LongValue = {3}
    MaxMetaSize = 9
    MaxStringSize = 4
    MaxBlockSize = 17
INVARIANTS
    TypeOK
    ReadsBack
    NeverCorrupt
    DamageIsRefused
    AcceptedIsSorted
    SeekIsLocal
