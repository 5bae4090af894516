SPECIFICATION LimiterSpec
CONSTANTS
    Kinds = {"announce", "relay", "gateway"}
    Id = {a, b}
    Limit = 2
    Window = 2
    Bytes = {0, 1, 3}
    MaxUsed = 4
    MaxBack = 3
    MaxJumps = 2
INVARIANTS
    TwoWindowBound
    LimitedByOwnUse
PROPERTY AnswersAgree
