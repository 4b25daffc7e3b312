SPECIFICATION FairSpec
CHECK_DEADLOCK FALSE
CONSTANTS
    h1 = h1
    h2 = h2
    h3 = h3
    Handlers <- MCHandlers
    MaxOpen <- MCMaxOpen
INVARIANTS
    ConnectionsReturned
    HandlersHaveResources
    CleanExitFlushes
PROPERTIES
    ImplementsProcessLife
    SignalCutsNobody
    WaitsOnlyBehindHung
