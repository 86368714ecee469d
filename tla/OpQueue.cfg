\* More callers than places: two user threads, two finishers whose callbacks
\* queue operations too, up to the point where they block each other.
SPECIFICATION FairSpec
CONSTANTS
    Users = {u1, u2}
    Finishers = {f1, f2}
    MaxInflight = 2
    CallbackQueues = TRUE
    MaxOps = 5
INVARIANTS InflightExact InflightBound WaiterHasWaker OpsHandedOn DestroyedClean
PROPERTIES OpsAnswered DestructionEnds
