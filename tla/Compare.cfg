\* Every pair of trees, with and without --exclude, in the three modes.
SPECIFICATION Spec
CONSTANTS
    Path <- MCPath
    Root = 1
    Above <- MCAbove
    Systems <- MCSystems
    Excluded = {6}
    Extras <- MCExtras
    MaxDepth = 3
    Volatile = {3, 4, 5}
    Ignored <- MCIgnored
    Shown <- MCShown
INVARIANTS
    TypeOK
    ReportIsWhole
    UnchangedIsQuiet
    NewContentsUnlisted
    ExitTellsDrift
    SummaryCountsAll
    ReportAddsUp
