SPECIFICATION AdmissionSpec
CONSTANTS
    AgentRequests <- MCAgentRequests
    RegistryRequests <- MCRegistryRequests
    NoObject = NoObject
INVARIANTS
    DisabledAsAsked
