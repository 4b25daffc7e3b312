SPECIFICATION FairSpec
CONSTANTS
    a1 = a1
    a2 = a2
    r = r
    Admins <- MCAdmins
    Requests <- MCRequests
    Posts <- MCPosts
    MaxLatency <- MCMaxLatency
    FullRatio <- MCFullRatio
INVARIANTS
    TypeOK
    TreatedByOneSetting
    GaugeAgreesUnlessRaced
PROPERTIES
    OffStopsInjection
