SPECIFICATION FairAsyncSpec
CONSTANTS
    Stream = {s1, s2}
    Call = {c1}
    PoolSize = 1
    LoopSize = 2
    QueueBound = 1
    MaxEvents = 2
INVARIANTS OnlyJamsBlock
PROPERTIES CallersServed CloseReturns
CHECK_DEADLOCK FALSE
