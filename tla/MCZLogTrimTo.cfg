\* Appends, and fills, reads and trimTo of positions up to and past the tail,
\* over two stripes of two objects, from two clients.
SPECIFICATION Spec
CONSTANTS
    c1 = c1
    c2 = c2
    Clients = {c1, c2}
    NoToken = NoToken
    Creator = c1
    Finishers <- OneEach
    Width = 2
    Slots = 2
    MaxStripes = 2
    MaxOps = 2
    MaxEpoch = 6
    InitialStripes = 1
    InitStripes = FALSE
    ExpandRetries = 1
    ProposeRetries = 2
    OpKinds = {"append","fill","trimTo","read"}
    OpPositions = {0, 4}
    PastTail = TRUE
    MayCrash = {}
SYMMETRY ClientSymmetry
INVARIANTS TypeOK ReadsSeeConsumed TrimToComplete
PROPERTIES ImplementsSharedLog
