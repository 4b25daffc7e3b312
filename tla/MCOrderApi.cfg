SPECIFICATION FairSpec
CONSTANTS
    o1 = o1
    o2 = o2
    Orders <- MCOrders
    MaxAttempts <- MCMaxAttempts
INVARIANTS
    EventHasRow
    AnswerMatchesTable
    PublishNeverFailsRequest
    PublishAccounting
    PublishedIsLogged
PROPERTIES
    ImplementsProcessLife
    CreatedIsAnswered
    JobSettles
    DrainEnds
