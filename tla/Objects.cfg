\* Two positions and limits at either, two epochs and the invalid epoch 0, and
\* entries of zero and one byte; whoever seals decides where large entries go.
SPECIFICATION Spec
CONSTANTS
    c1 = c1
    c2 = c2
    Clients = {c1, c2}
    NumPositions = 2
    MaxLimit = 1
    NumData = 2
    MaxEpoch = 2
    OmapMaxSizes <- MixedSizes
    OffsetMod = 16
    Word = 16
SYMMETRY ClientSymmetry
INVARIANTS ReclaimedForGood
PROPERTIES RamImplements LmdbImplements CephImplements
