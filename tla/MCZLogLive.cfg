\* Every operation, expansion and open comes to an end when nobody crashes;
\* a stuck thread is reported as a violation of these properties.
SPECIFICATION FairSpec
CONSTANTS
    c1 = c1
    c2 = c2
    Clients = {c1, c2}
    NoToken = NoToken
    Creator = c1
    Finishers <- FirstOnly
    Width = 1
    Slots = 1
    MaxStripes = 2
    MaxOps = 1
    MaxEpoch = 5
    InitialStripes = 1
    InitStripes = TRUE
    ExpandRetries = 2
    ProposeRetries = 2
    OpKinds = {"append", "tail", "read", "fill", "trim", "trimTo"}
    OpPositions = {1}
    PastTail = TRUE
    MayCrash = {}
PROPERTIES OpsComplete OpenCompletes
CHECK_DEADLOCK FALSE
