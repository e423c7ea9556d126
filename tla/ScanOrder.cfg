\* One device, two workers, a ring of four cells: the walker waits on free, the
\* workers finish in any order, system calls fail, emit fails, the context ends.
SPECIFICATION Spec
CONSTANTS
    w1 = w1
    w2 = w2
    Worker <- Workers
    CellsPerJob = 2
    Node <- SmallNode
    Root = "/"
    Kids <- SmallKids
    Kind <- SmallKind
    Dev <- OneDevice
    LocalDev = {1}
    Excluded = {"a/x"}
    Big = {"b"}
    Refused = {"c"}
    Mounts = "local"
    MaxDepth = 64
    NoHash = FALSE
    MaxSkipped = 20
    MaxFaults = 1
    World <- MCWorld
INVARIANTS
    TypeOK
    RingNeverBlocks
    ExclusiveCells
    EmittedFinished
    NothingOutlivesWalk
PROPERTIES
    ImplementsOrderedScan
    WalkReturns
