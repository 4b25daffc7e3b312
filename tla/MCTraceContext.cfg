SPECIFICATION FairSpec
CHECK_DEADLOCK FALSE
CONSTANTS
    Requests <- MCRequests
    Upstream <- MCUpstream
    ForeignHeaders <- MCForeignHeaders
    MaxForeign <- MCMaxForeign
INVARIANTS
    TracesAreWhole
    ExemplarsAccounted
PROPERTIES
    ExemplarsResolve
