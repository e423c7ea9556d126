\* --mounts=local --jobs=1: the second mount point of a share is entered.
SPECIFICATION Spec
CONSTANTS
    w1 = w1
    w2 = w2
    Worker = {w1}
    CellsPerJob = 4
    Node <- SharesNode
    Root = "/"
    Kids <- SharesKids
    Kind <- SharesKind
    Dev <- TwiceMounted
    LocalDev = {1, 4}
    Excluded = {}
    Big = {}
    Refused = {}
    Mounts = "local"
    MaxDepth = 64
    NoHash = FALSE
    MaxSkipped = 20
    MaxFaults = 0
    World <- MCWorld
INVARIANTS
    SharesAreNotEntered
