SPECIFICATION DirSpec
CONSTANTS
    Kinds = {"config", "bootstrap", "providers", "banned", "peers"}
    Editor = {e1, e2}
    Roles = {"light", "full"}
    Jobs = {"job"}
    Names = {"default", "other"}
    Values = {"default", "changed"}
    MaxEdits = 4
    MaxKills = 1
    User = {u}
    MaxIds = 3
    IdKills = 2
    Missing = Missing
    Torn = Torn
INVARIANTS
    EditsExact
    CertMatches
PROPERTIES
    FutureKept
    IdentityKept
CHECK_DEADLOCK FALSE
