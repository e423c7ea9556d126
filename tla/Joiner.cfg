\* Every join of two streams over three paths, with a read error at any entry of
\* the fingerprint, a callback that may fail at any change, and a scan that may
\* stop at any entry.
SPECIFICATION Spec
CONSTANTS
    Path = {1, 2, 3}
    Type = {"dir", "file", "symlink"}
    Hash = {"h1", "h2"}
    Unhashed = "unhashed"
    Link = {1}
    Size = {1}
    MTime = {1}
    Attrs = {1}
    Fingerprints <- Streams
    Scans <- Streams
    Ignored <- MCIgnored
    Shown <- MCShown
INVARIANTS
    TypeOK
    ReportIsPrefix
    DoneMeansComplete
    CountersAddUp
