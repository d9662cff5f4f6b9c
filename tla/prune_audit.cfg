SPECIFICATION AuditSpec
CONSTANTS
    URLs <- OneURL
    Specs <- OnOffSpecs
    Cards <- OneCard
    MaxFailures = 1
    Policies <- CheckOnly
    Keys = {k1}
    NoAgent = NoAgent
    NoRegistry = NoRegistry
    NoCard = NoCard
    Webhooks = FALSE
    NoKey = NoKey
    NoApproval = NoApproval
    Scopes = {"Cluster"}
    DefaultScope = "Cluster"
    PruneAge = 1
    Handlers = {}
    MaxOps = 3
    MaxTime = 2
    MaxFaults = 0
PROPERTIES
    PrunedAfterPeriod
CHECK_DEADLOCK FALSE
