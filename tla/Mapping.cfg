SPECIFICATION Spec
CONSTANTS
    Word32 = 8
    Word64 = 64
    Sides = {1, 2, 3, 4}
    TopPosition = 13
    StoredMaps <- Stored
INVARIANTS
    MapExact
    MapToExact
    AbstractionExact
PROPERTIES
    MappingStable
    OnlyAtLimits
CHECK_DEADLOCK FALSE
