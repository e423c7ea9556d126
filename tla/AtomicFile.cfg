\* Two runs, one after the other or at the same time, each of which may be refused, fail,
\* be interrupted or be killed at any step, and a machine that crashes twice.
SPECIFICATION Spec
CONSTANTS
    i1 = i1
    i2 = i2
    i3 = i3
    r1 = r1
    r2 = r2
    Run <- Runs
    Inode <- Inodes
    Earlier = Earlier
    None = None
    Hole = Hole
    Chunks = 2
    MaxCrashes = 2
SYMMETRY Symmetric
INVARIANTS
    TypeOK
    FinalIsWhole
    DoneIsDurable
PROPERTIES
    NoForceSparesFound
    NoLeftover
