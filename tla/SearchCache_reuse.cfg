SPECIFICATION CacheSpec
CONSTANTS
    Searcher = {s1, s2}
    Query = {q1, q2, q3}
    NoQuery = NoQuery
    Ttl = 2
    MaxEntries = 2
    MaxWrites = 2
    MaxScan = 1
INVARIANTS
    CapacityHeld
PROPERTIES
    StalenessBound
