\* Failing reads and two levels of backoff below the maximum.
SPECIFICATION FairSpec
CONSTANTS
    Callers = {c1, c2}
    MinTimeout = 1
    MaxTimeout = 4
    MayFail = TRUE
    MaxEpoch = 3
INVARIANTS PromptRead NobodyLeftBehind
PROPERTIES ImplementsNewerView WaitersServed ShutdownEnds
