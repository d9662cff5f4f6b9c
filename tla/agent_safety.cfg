SPECIFICATION Spec
CONSTANTS
    URLs <- OneURL
    Specs <- OneSpecs
    Cards <- MCCards
    MaxFailures = 2
    Policies <- MCPolicies
    Keys = {k1}
    NoAgent = NoAgent
    NoRegistry = NoRegistry
    NoCard = NoCard
    Webhooks = TRUE
    NoKey = NoKey
    NoApproval = NoApproval
    MaxOps = 2
    MaxTime = 1
    MaxFaults = 1
INVARIANTS
    TypeOK
    StatusCoherent
    ObservedPhaseEarned
    CurrentCopies
PROPERTIES
    ImplementsLifecycle
    ApprovalPersists
    ApprovalGate
    ProgressMonotone
CHECK_DEADLOCK FALSE
