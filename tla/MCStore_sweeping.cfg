SPECIFICATION FairSpec
CONSTANTS
    Client = {c1}
    Sweepers = {sw}
    NoId = NoId
    NoRec = NoRec
    A1 = A1
    A2 = A2
    B1 = B1
    X1 = X1
    ha = ha
    hb = hb
    t = t
    u = u
    Hash = {ha, hb}
    Tag = {t, u}
    Id = {A1, A2, B1, X1}
    Rec <- Lifetimes
    Quota = 3
    QuotaAction = "pause_scraper"
    MaxRecordSize = 8
    MaxTime = 2
    CanCrash = FALSE
    CanFail = TRUE
INVARIANT IndexComplete
PROPERTY ExpiredSwept
