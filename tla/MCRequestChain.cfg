SPECIFICATION FairSpec
CONSTANTS
    r1 = r1
    r2 = r2
    users = users
    chaos = chaos
    health = health
    Requests <- MCRequests
    Routes <- MCRoutes
    Class <- MCClass
    Codes <- MCCodes
INVARIANTS
    InProgressExact
    NeverOffTheBooks
    SignalsAgree
    PanicIsReported
PROPERTIES
    UnwindingEnds
CHECK_DEADLOCK FALSE
