SPECIFICATION FairSpec
CONSTANTS
    c1 = c1
    c2 = c2
    t1 = t1
    t2 = t2
    Clients <- MCClients
    Tables <- MCTables
    TTL <- MCTTL
    MaxWire <- MCMaxWire
INVARIANTS
    OnlyPostgresFails
    LookupCountedOnce
    StaleOnlyForTTL
PROPERTIES
    EventuallyFresh
