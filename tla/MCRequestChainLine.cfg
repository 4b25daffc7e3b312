SPECIFICATION Spec
CONSTANTS
    r1 = r1
    r2 = r2
    users = users
    chaos = chaos
    health = health
    Requests <- MCRequests
    Routes <- MCRoutes
    Class <- MCClass
    Codes <- MCCodes
INVARIANT OneLinePerRequest
CHECK_DEADLOCK FALSE
