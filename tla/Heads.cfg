\* Two clients create, open, use and reopen the log, on each backend.
SPECIFICATION FairSpec
CONSTANTS
    c1 = c1
    c2 = c2
    Clients = {c1, c2}
    Backends = {"ram", "lmdb", "ceph"}
    OptionSet = {{"create_if_missing"}, {"create_if_missing", "error_if_exists"}, {}}
    ProposeRetries = 2
    MaxViewReads = 2
    MaxOpens = 3
    MaxExpands = 1
    MaxHeads = 3
    MayCrash = {c1, c2}
INVARIANTS OneLog TokensUnique LinkedIsComplete ReadViewsExact
PROPERTIES HeadsAppendOnly OpenEnds
CHECK_DEADLOCK FALSE
