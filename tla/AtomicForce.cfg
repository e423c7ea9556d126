\* Two runs at the same time, of which the second looks before the first has renamed.
SPECIFICATION Spec
CONSTANTS
    i1 = i1
    i2 = i2
    i3 = i3
    r1 = r1
    r2 = r2
    Run <- Runs
    Inode <- Inodes
    Earlier = Earlier
    None = None
    Hole = Hole
    Chunks = 2
    MaxCrashes = 0
SYMMETRY Symmetric
PROPERTY
    NoForceKeeps
