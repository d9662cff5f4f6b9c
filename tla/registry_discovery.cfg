SPECIFICATION FairSystem
CONSTANTS
    URLs <- OneURL
    Specs <- OneSpec
    Cards = {}
    MaxFailures = 1
    Policies <- CheckOnly
    Keys = {}
    NoAgent = NoAgent
    NoRegistry = NoRegistry
    NoCard = NoCard
    Webhooks = FALSE
    NoKey = NoKey
    NoApproval = NoApproval
    Scopes = {"Cluster", "Namespace"}
    DefaultScope = "Cluster"
    PruneAge = 0
    Handlers = {}
    MaxOps = 3
    MaxTime = 0
    MaxFaults = 2
INVARIANT SystemTypeOK
PROPERTIES
    DiscoveryConverges
    RegistryDeletionCompletes
    RegistryKept
CHECK_DEADLOCK FALSE
