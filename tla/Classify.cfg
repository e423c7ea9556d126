\* Every pair of entries reachable by changing one fact at a time.
SPECIFICATION EntriesSpec
CONSTANTS
    Path = {1}
    Type = {"dir", "file", "symlink", "other"}
    Hash = {"h1", "h2"}
    Unhashed = "unhashed"
    Link = {"l1", "l2"}
    Size = {1, 2}
    MTime = {1, 2}
    Attrs = {1, 2}
INVARIANTS
    ContentClaimsAreVerified
    UnchangedMeansEqual
PROPERTIES
    TouchIsInvisible
