\* --mounts=same --jobs=1: a directory after a mount point is taken for a mount.
SPECIFICATION Spec
CONSTANTS
    w1 = w1
    w2 = w2
    Worker = {w1}
    CellsPerJob = 4
    Node <- FlatNode
    Root = "/"
    Kids <- FlatKids
    Kind <- FlatKind
    Dev <- OneShare
    LocalDev = {1}
    Excluded = {}
    Big = {}
    Refused = {}
    Mounts = "same"
    MaxDepth = 64
    NoHash = FALSE
    MaxSkipped = 20
    MaxFaults = 0
    World <- MCWorld
INVARIANTS
    SkippedAreMounts
