SPECIFICATION FairSpec
CONSTANTS
    ThreadEmitter = {t1}
    LoopEmitter = {l1}
    SyncStream = {s1}
    AsyncStream = {a1}
    QueueBound = 2
    BufferBound = 2
    MaxEvents = 3
    MaxConnects = 2
INVARIANTS EveryEventAccounted EmittersInOrder ResumeIsComplete
PROPERTIES CloseUnblocks EventsArrive
CHECK_DEADLOCK FALSE
