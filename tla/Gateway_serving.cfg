SPECIFICATION FairSpec
CONSTANTS
    Admin = {a1, a2}
    Nick = {n, m}
    MaxKeys = 2
    CanKill = TRUE
    Conn = {c1, c2}
    NoKey = NoKey
    Permits = 1
    RequireKey = TRUE
INVARIANTS
    KeysExact
PROPERTIES
    RevokedRefused
    WaitsForClientsOnly
