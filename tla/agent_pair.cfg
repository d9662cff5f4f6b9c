SPECIFICATION FairSpec
CONSTANTS
    URLs <- TwoURLs
    Specs <- TwoSpecs
    Cards = {}
    MaxFailures = 1
    Policies = {}
    Keys = {k1, k2}
    NoAgent = NoAgent
    NoRegistry = NoRegistry
    NoCard = NoCard
    Webhooks = FALSE
    NoKey = NoKey
    NoApproval = NoApproval
    MaxOps = 1
    MaxTime = 0
    MaxFaults = 0
INVARIANT StatusCoherent
PROPERTY PhasesConverge
CHECK_DEADLOCK FALSE
