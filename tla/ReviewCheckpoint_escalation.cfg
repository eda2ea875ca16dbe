SPECIFICATION FairSpec
CONSTANTS
    Reviewer = {v1, v2}
    Rule = {r1, r2}
    Connectors = 2
    MaxRequired = 2
INVARIANTS QuorumDecides SignatureCovers OutcomeOnFile
PROPERTIES FirstResolutionStands EscalationResolves
CHECK_DEADLOCK FALSE
