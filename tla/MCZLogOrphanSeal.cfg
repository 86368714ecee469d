\* A client may crash after it sealed a stripe and before it proposed a view.
SPECIFICATION FairSpec
CONSTANTS
    c1 = c1
    c2 = c2
    Clients = {c1, c2}
    NoToken = NoToken
    Creator = c1
    Finishers <- OneEach
    Width = 1
    Slots = 1
    MaxStripes = 1
    MaxOps = 1
    MaxEpoch = 3
    InitialStripes = 1
    InitStripes = FALSE
    ExpandRetries = 2
    ProposeRetries = 2
    OpKinds = {"read"}
    OpPositions = {0}
    PastTail = FALSE
    MayCrash = {c1}
PROPERTIES OpsComplete
CHECK_DEADLOCK FALSE
