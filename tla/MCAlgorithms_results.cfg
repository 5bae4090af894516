SPECIFICATION Spec
CONSTANTS
    ScanFactor = 2
    WordSize = 4
    DaySeconds = 60
    Tracking = {3}
    ByteBits = 2
    HashLen = 3
    IdLen = 2
    Unreserved = {"a", "2", "5"}
    Queries <- SomeQueries
    Records <- SomeRecords
    Dates <- SomeDates
    Searches <- SomeSearches
    Urls <- SomeUrls
    Contents <- SomeContents
    Proofs <- SomeProofs
    Lookups <- SomeLookups
    Params <- SomeParams
    QueryLen = 4
    MaxRecords = 4
    MaxPeers = 4
    MaxText = 4
INVARIANTS
    QueryMeaning
    DatesExact
    
    ContentIdentified
    BytesAsNumbers
    ParamsKept
CHECK_DEADLOCK FALSE
