SPECIFICATION AlikeSpec
CONSTANTS
    URLs <- OneURL
    Specs <- TwoSpecs
    Cards = {}
    MaxFailures = 3
    Policies <- OnePolicy
    Keys <- TwoKeys
    NoAgent = NoAgent
    NoRegistry = NoRegistry
    NoCard = NoCard
    Webhooks = TRUE
    Scopes <- TwoScopes
    DefaultScope <- Everything
    PruneAge = 0
    Handlers = {h1, h2}
    Requests <- AllRequests
    Contains <- Text
    MaxOps = 2
    MaxTime = 0
PROPERTIES
    SettledListing
    CardsMatch
    SettingsKept
    RegistersAfresh
SYMMETRY Interchangeable
CHECK_DEADLOCK FALSE
