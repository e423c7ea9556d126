\* The output is given by a link, by a name with a class in it, or the root is relative.
SPECIFICATION Spec
CONSTANTS
    Byte = {32, 35, 42, 46, 47, 91, 93, 97, 98, 108, 111, 116, 169, 189, 191, 195, 239}
    Slash = 47
    Star = 42
    Opening = 91
    Closing = 93
    HashSign = 35
    Space = 32
    Trees <- MCOtherTrees
    Roots <- MCOtherRoots
    Targets <- MCOtherTargets
    Listed <- MCUnlisted
    Binary <- MCBinary
    TmpSuffix <- MCTmpSuffix
    Character <- MCCharacter
    Replacement <- MCReplacement
    BlockSize = 9
    MetaLength = 9
INVARIANT
    LeavesItselfOut
