SPECIFICATION FairSpec
CONSTANTS
    URLs <- OneURL
    Specs <- ToggledSpecs
    Cards <- MCCards
    MaxFailures = 2
    Policies <- MCPolicies
    Keys = {k1}
    NoAgent = NoAgent
    NoRegistry = NoRegistry
    NoCard = NoCard
    Webhooks = TRUE
    NoKey = NoKey
    NoApproval = NoApproval
    MaxOps = 2
    MaxTime = 0
    MaxFaults = 1
PROPERTIES
    DeletionCompletes
    
CHECK_DEADLOCK FALSE
