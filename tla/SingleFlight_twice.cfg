SPECIFICATION Spec
CONSTANTS
    Thread = {t1, t2}
    Key = {k1}
    None = None
    MaxCache = 3
    MaxCalls = 4
    Faults = {}
INVARIANTS NeverTwice
CHECK_DEADLOCK FALSE
