SPECIFICATION FairSpec
CONSTANTS
    Process = {p, q}
    Home = p
    MaxEntries = 3
    Record = {1, 2, 3}
    SinkBound = 2
    LedgerFaults = {"write", "torn", "crash"}
    SinkFaults = {"refuse", "hang"}
INVARIANTS RestartsKeepChain  OnlyRacersAreLeft EveryRecordAccounted
PROPERTIES CloseReturns
CHECK_DEADLOCK FALSE
