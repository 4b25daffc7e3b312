SPECIFICATION Spec
CONSTANTS
    c1 = c1
    c2 = c2
    NoOwner = NoOwner
    Clients <- MCClients
    Environments <- MCEnvironments
    Texts <- MCTexts
    Credentials <- MCCredentials
    SlowMinDefault <- MCSlowMinDefault
    SlowMaxDefault <- MCSlowMaxDefault
    NsPerMs <- MCNsPerMs
    DurationSpan <- MCDurationSpan
    MaxLeaks <- MCMaxLeaks
INVARIANTS
    AnswersInBounds
PROPERTIES
    ImplementsLeakLedger
