SPECIFICATION FairSpec
CONSTANTS
    Price = {starter, scale}
    Listed = {starter, scale}
    Offered = {starter}
    MaxRequests = 2
    MaxEvents = 2
    MaxTroubles = 1
INVARIANTS CreditedOnce EntitlementFollows PaidAfterCancel
PROPERTIES DriftRepaired
CHECK_DEADLOCK FALSE
