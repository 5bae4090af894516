SPECIFICATION FairSpec
CONSTANTS
    j = j
    k = k
    Name = {j, k}
    MaxInterval = 2
    MaxEdits = 2
    CanPanic = TRUE
    Configs <- AnyEdit
INVARIANTS
    OnceStaysDone
PROPERTIES
    JobsFollowConfig
    IntervalJobsRun
