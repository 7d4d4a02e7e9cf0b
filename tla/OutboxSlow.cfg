SPECIFICATION FairOutboxSpec
CONSTANTS
    Rows = {e1}
    Workers = {w1, w2}
    HandlerCount <- TwoHandlers
    MaxAttempts = 3
    BatchSize = 1
    SlowWorkers = TRUE
    MaxFaults = 1
CHECK_DEADLOCK FALSE
INVARIANT DecidedForAReason
PROPERTY EmittedIsDecided
