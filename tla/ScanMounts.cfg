\* --mounts=local --jobs=1: a ring of four cells, each used again and again, two
\* shares, each mounted once, and a depth limit.
SPECIFICATION Spec
CONSTANTS
    w1 = w1
    w2 = w2
    Worker = {w1}
    CellsPerJob = 4
    Node <- SharesNode
    Root = "/"
    Kids <- SharesKids
    Kind <- SharesKind
    Dev <- TwoShares
    LocalDev = {1, 4}
    Excluded = {}
    Big = {}
    Refused = {}
    Mounts = "local"
    MaxDepth = 2
    NoHash = FALSE
    MaxSkipped = 20
    MaxFaults = 1
    World <- MCWorld
INVARIANT
    SharesAreNotEntered
PROPERTY
    ImplementsOrderedScan
