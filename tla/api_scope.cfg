SPECIFICATION Spec
CONSTANTS
    URLs <- OneURL
    Specs <- TwoSpecs
    Cards = {}
    MaxFailures = 3
    Policies <- OnePolicy
    Keys <- TwoKeys
    NoAgent = NoAgent
    NoRegistry = NoRegistry
    NoCard = NoCard
    Webhooks = FALSE
    Scopes <- JustNamespace
    DefaultScope <- Everything
    PruneAge = 0
    Handlers = {h1}
    Requests <- Searches
    Contains <- Text
    MaxOps = 1
    MaxTime = 0
PROPERTY AnswersInScope
CHECK_DEADLOCK FALSE
