SPECIFICATION Spec
CONSTANTS
    Client = {c1, c2}
    Sweepers = {sw}
    NoId = NoId
    NoRec = NoRec
    A1 = A1
    A2 = A2
    B1 = B1
    X1 = X1
    ha = ha
    hb = hb
    t = t
    u = u
    Hash = {ha, hb}
    Tag = {t, u}
    Id = {A1, A2, B1}
    Rec <- Versions
    Quota = 5
    QuotaAction = "evict_oldest"
    MaxRecordSize = 8
    MaxTime = 2
    CanCrash = TRUE
    CanFail = FALSE
SYMMETRY Symmetry
INVARIANTS
    SourceIndexExact
    QuotaRespected
    IndexComplete
PROPERTIES
    ImplementsSourceMap
    RemovalJustified
