\* The counters of a new directory reach beyond the perimeter.
SPECIFICATION Spec
CONSTANTS
    Path <- MCPath
    Root = 1
    Above <- MCAbove
    Systems <- MCSystems
    Excluded = {6}
    Extras <- MCExtras
    MaxDepth = 3
    Volatile = {3, 4, 5}
    Ignored <- MCIgnored
    Shown <- MCShown
INVARIANTS
    SummaryWithinPerimeter
