\* Users also fill positions past the tail.
SPECIFICATION Spec
CONSTANTS
    c1 = c1
    c2 = c2
    Clients = {c1, c2}
    NoToken = NoToken
    Creator = c1
    Finishers <- OneEach
    Width = 1
    Slots = 1
    MaxStripes = 3
    MaxOps = 3
    MaxEpoch = 5
    InitialStripes = 1
    InitStripes = FALSE
    ExpandRetries = 2
    ProposeRetries = 2
    OpKinds = {"append", "fill"}
    OpPositions = {1}
    PastTail = TRUE
    MayCrash = {}
SYMMETRY ClientSymmetry
INVARIANTS AppendOrder
