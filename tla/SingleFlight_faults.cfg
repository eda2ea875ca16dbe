SPECIFICATION FairSpec
CONSTANTS
    Thread = {t1, t2, t3}
    Key = {k1, k2}
    None = None
    MaxCache = 1
    MaxCalls = 3
    Faults = {"refused", "provider", "expiry", "waitTimeout", "lockTimeout", "invalidate", "unkeyed", "close"}
INVARIANTS ClaimsAreOwned NoLostWakeup
PROPERTIES ImplementsContract EveryCallEnds
CHECK_DEADLOCK FALSE
