\* Both policies, for caches of no entry up to three entries; five positions
\* fill every list of ARC when two are cached.
SPECIFICATION Spec
CONSTANTS
    Positions = {1, 2, 3, 4, 5}
    CacheSizes = {0, 1, 2, 3}
    DataSizes = {0, 2}
    Scale = 6
    NaN = NaN
    WildP <- Garbage
INVARIANTS SizesBounded PopsOnlyFilled MostRecentKept
CHECK_DEADLOCK FALSE
