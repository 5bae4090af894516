SPECIFICATION FairSpec
CONSTANTS
    Pid = {p1, p2}
    Dir = {d1, d2}
    Ports = {1, 2}
    Platforms = {"unix", "windows"}
    MaxStarts = 2
    MaxSignals = 2
    CanCrash = TRUE
    None = None
INVARIANTS
    FilesTrue
    AppliedOnce
PROPERTIES
    StopsWhenTold
CHECK_DEADLOCK FALSE
