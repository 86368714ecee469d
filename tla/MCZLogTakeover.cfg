\* Two clients open the log one after the other or at the same time and
\* append; the log starts without a stripe, so appends race to expand it, and its
\* stripe has two objects, which a takeover seals one by one.
\* One of them, with two threads, may crash between any two steps: its
\* operations never end, so threads of the survivor may wait forever.
SPECIFICATION Spec
CONSTANTS
    c1 = c1
    c2 = c2
    Clients = {c1, c2}
    NoToken = NoToken
    Creator = c1
    Finishers <- TwoAndOne
    Width = 2
    Slots = 2
    MaxStripes = 1
    MaxOps = 3
    MaxEpoch = 6
    InitialStripes = 0
    InitStripes = FALSE
    ExpandRetries = 2
    ProposeRetries = 2
    OpKinds = {"append"}
    OpPositions = {}
    PastTail = FALSE
    MayCrash = {c1}

INVARIANTS TakeoverFences ViewsMonotone AppendOrder
PROPERTIES SequencerKept
CHECK_DEADLOCK FALSE
