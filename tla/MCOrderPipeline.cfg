SPECIFICATION PipelineSpec
CONSTANTS
    o1 = o1
    o2 = o2
    Orders <- MCOrders
    MaxAttempts <- MCMaxAttempts
    MaxStarts <- MCMaxStarts
CONSTRAINT OneRetried
INVARIANTS
    ProcessedPerAttempt
PROPERTIES
    ImplementsLedger
    FeedsConsumer
