SPECIFICATION FairSpec
CONSTANTS
    e = e
    Events <- MCEvents
    MaxLog <- MCMaxLog
    MaxStarts <- MCMaxStarts
INVARIANTS
    HandledOnceInOrder
    LossBoundedByEnds
PROPERTIES
    ProcessedWhileUp
CHECK_DEADLOCK FALSE
