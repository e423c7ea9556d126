\* A path absent from the fingerprint that the scan could not read.
SPECIFICATION Spec
CONSTANTS
    Path = {1, 2, 3}
    Type = {"dir", "file", "symlink"}
    Hash = {"h1", "h2"}
    Unhashed = "unhashed"
    Link = {1}
    Size = {1}
    MTime = {1}
    Attrs = {1}
    Fingerprints <- Streams
    Scans <- Streams
    Ignored <- MCIgnored
    Shown <- MCShown
INVARIANT
    UnreadableSaysSo
