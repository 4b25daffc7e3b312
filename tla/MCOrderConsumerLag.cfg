SPECIFICATION Spec
CONSTANTS
    e = e
    Events <- MCEvents
    MaxLog <- MCMaxLog
    MaxStarts <- MCMaxStarts
INVARIANT LagCountsUnconsumed
CHECK_DEADLOCK FALSE
