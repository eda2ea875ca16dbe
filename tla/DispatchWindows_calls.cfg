SPECIFICATION FairSpec
CONSTANTS
    Thread = {t1, t2}
    None = None
    MaxContinuations = 2
    MaxWindows = 2
    MaxCalls = 3
INVARIANTS CountersTrack ContinuationsBounded
PROPERTIES EveryCallEnds
CHECK_DEADLOCK FALSE
