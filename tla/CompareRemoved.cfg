\* What the scan does not reach is reported as deleted.
SPECIFICATION Spec
CONSTANTS
    Path <- MCPath
    Root = 1
    Above <- MCAbove
    Systems <- MCSystems
    Excluded = {6}
    Extras <- MCExtras
    MaxDepth = 3
    Volatile = {3, 4, 5}
    Ignored <- MCIgnored
    Shown <- MCShown
INVARIANTS
    RemovedMeansGone
