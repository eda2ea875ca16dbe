SPECIFICATION FairStrategies
CONSTANTS
    Caller = {s1, c1}
    Strategist = {s1}
    FailureThreshold = 2
    SuccessThreshold = 2
    Abandons = TRUE
    MaxRounds = 1
    SessionCap = 2
    CallCaps = {1}
    NoCap = NoCap
    MaxSteps = 2
    MaxRevisions = 1

INVARIANTS CapsHold AnswersAreFinal
PROPERTIES RecoveryIsProven RecoversUnlessOrphaned StrategiesEnd
