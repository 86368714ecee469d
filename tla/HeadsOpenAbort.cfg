\* Two clients open the log at the same time and nobody crashes.
SPECIFICATION Spec
CONSTANTS
    c1 = c1
    c2 = c2
    Clients = {c1, c2}
    Backends = {"ceph"}
    OptionSet = {{"create_if_missing"}}
    ProposeRetries = 2
    MaxViewReads = 2
    MaxOpens = 2
    MaxExpands = 0
    MaxHeads = 3
    MayCrash = {}
INVARIANTS ManagerShutDown
CHECK_DEADLOCK FALSE
