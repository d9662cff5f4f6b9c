SPECIFICATION Spec
CONSTANTS
    Auths <- MCAuths
    Secrets <- MCSecrets
    NoCopy = NoCopy
    NoKey = NoKey
    NoHeader = NoHeader
    Demands <- MCDemands
    Cards = {c1, c2}
    NoCard = NoCard
    MaxMoves = 2
PROPERTIES
    SteadyAnswerFound
    ChecksRecover
