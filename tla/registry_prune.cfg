SPECIFICATION StandingSystem
CONSTANTS
    URLs <- OneURL
    Specs <- OneSpec
    Cards <- OneCard
    MaxFailures = 1
    Policies <- CheckOnly
    Keys = {k1}
    NoAgent = NoAgent
    NoRegistry = NoRegistry
    NoCard = NoCard
    Webhooks = FALSE
    NoKey = NoKey
    NoApproval = NoApproval
    Scopes = {"Cluster"}
    DefaultScope = "Cluster"
    PruneAge = 0
    Handlers = {}
    MaxOps = 1
    MaxTime = 1
    MaxFaults = 1
PROPERTIES
    StaleAgentsGo
    CountsConverge
CHECK_DEADLOCK FALSE
