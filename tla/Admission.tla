------------------------------ MODULE Admission -------------------------------
(***************************************************************************)
(* The specs that reach the store.  Users write an agent and the registry, *)
(* the agent controller writes the agent back with its finalizer added or  *)
(* removed, and each write goes through admission.  Whether the webhooks   *)
(* take part is decided at each start of the manager (ENABLE_WEBHOOKS,     *)
(* cmd/manager/main.go, 113); a schema always does, the one of the CRDs    *)
(* that are installed.  Those can be replaced while objects are stored,    *)
(* which checks none of them; each object is remembered with the CRDs its  *)
(* user's write passed.                                                    *)
(***************************************************************************)
EXTENDS Webhooks

CONSTANTS
    AgentRequests,      \* the agent specs users submit
    RegistryRequests,   \* the registry specs users submit
    NoObject            \* nothing is stored

ASSUME RequestsAssumption ==
    /\ AgentRequests \subseteq AgentSpecs
    /\ RegistryRequests \subseteq RegistrySpecs
    /\ NoObject \notin AgentSpecs
    /\ NoObject \notin RegistrySpecs

VARIABLES
    webhooks,       \* the manager runs with its webhooks
    crds,           \* the installed CRDs
    stored,         \* the stored agent spec, or NoObject
    asked,          \* the spec the user last submitted successfully
    vetted,         \* the webhooks took part in that,
    under,          \* and these CRDs
    registry,       \* the stored registry spec, or NoObject
    registryUnder   \* the CRDs that took part in writing it

installation == <<webhooks, crds>>
agentWrite == <<stored, asked, vetted, under>>
registryWrite == <<registry, registryUnder>>
admissionVars == <<installation, agentWrite, registryWrite>>

AdmissionTypeOK ==
    /\ webhooks \in BOOLEAN
    /\ stored \in AgentSpecs \cup {NoObject}
    /\ asked \in AgentSpecs \cup {NoObject}
    /\ vetted \in BOOLEAN
    /\ registry \in RegistrySpecs \cup {NoObject}
    /\ {crds, under, registryUnder} \subseteq Installations

AdmissionInit ==
    /\ webhooks \in BOOLEAN
    /\ crds \in Installations
    /\ stored = NoObject
    /\ asked = NoObject
    /\ vetted = FALSE
    /\ under = crds
    /\ registry = NoObject
    /\ registryUnder = crds

-----------------------------------------------------------------------------
(* Mutating webhook, then schema, then validating webhook.                 *)

AdmittedAgent(s) == IF webhooks THEN AgentDefault(s) ELSE s

AgentAdmittedRawCheck(s) ==
    AgentSchema(s, crds) /\ (webhooks => validateA2AAgent(s))

AgentAdmitted(s) ==
    /\ AgentSchema(AdmittedAgent(s), crds)
    /\ webhooks => validateA2AAgent(AdmittedAgent(s))

AdmittedRegistry(r) == IF webhooks THEN RegistryDefault(r) ELSE r

RegistryAdmitted(r) ==
    /\ RegistrySchema(AdmittedRegistry(r), crds)
    /\ webhooks => validateA2ARegistry(AdmittedRegistry(r))

ApplyAgent(s) ==
    /\ AgentAdmitted(s)
    /\ stored' = AdmittedAgent(s)
    /\ asked' = s
    /\ vetted' = webhooks
    /\ under' = crds
    /\ UNCHANGED <<installation, registryWrite>>

ApplyRegistry(r) ==
    /\ RegistryAdmitted(r)
    /\ registry' = AdmittedRegistry(r)
    /\ registryUnder' = crds
    /\ UNCHANGED <<installation, agentWrite>>

(* The controller's Update, which adds or removes the finalizer. *)
WriteFinalizer ==
    /\ stored # NoObject
    /\ AgentAdmitted(stored)
    /\ stored' = AdmittedAgent(stored)
    /\ UNCHANGED <<installation, asked, vetted, under, registryWrite>>

Redeploy ==
    /\ webhooks' = ~webhooks
    /\ UNCHANGED <<crds, agentWrite, registryWrite>>

(* make install over the chart's CRDs (Makefile, 32), or theirs over it. *)
InstallCRDs ==
    /\ crds' \in Installations \ {crds}
    /\ UNCHANGED <<webhooks, agentWrite, registryWrite>>

AdmissionNext ==
    \/ \E s \in AgentRequests : ApplyAgent(s)
    \/ \E r \in RegistryRequests : ApplyRegistry(r)
    \/ WriteFinalizer
    \/ Redeploy
    \/ InstallCRDs

AdmissionSpec == AdmissionInit /\ [][AdmissionNext]_admissionVars

-----------------------------------------------------------------------------
(* The health check period the controller uses for the stored agent.       *)

intervalSeconds ==
    IF stored.interval > 0 THEN stored.interval
    ELSE IF registry # NoObject /\ registry.interval > 0 THEN registry.interval
    ELSE 60

(* An agent that the webhooks let in never becomes one they refuse: the    *)
(* finalizer can be added and removed, and doing so leaves the spec, and   *)
(* with it the generation, alone.  Otherwise the agent could not be        *)
(* deleted, or every pass would start another (a2aagent_controller.go,     *)
(* 60-82; a2aagent_webhook.go, 50-154).  Only the bounds of the bases,     *)
(* installed over an agent that the chart's CRD let in, can get in the     *)
(* way.                                                                    *)
FinalizerWriteAdmitted ==
    /\ vetted
    /\ webhooks
    /\ crds = "bases" => under = "bases"
    => AgentAdmitted(stored) /\ AdmittedAgent(stored) = stored

(* The period a pass computes for an agent (a2aagent_controller.go,        *)
(* 153-162) is at least ten seconds when every interval it may come from   *)
(* passed one of the two gates that know a minimum: the bases, or, for the *)
(* agent's own, the webhook.  The registry's webhook knows none, "minimum  *)
(* interval is enforced by CRD schema" (a2aregistry_webhook.go), so with   *)
(* the chart's CRDs a registry interval counts as unchecked, and is        *)
(* harmless only where defaulting gave the agent an interval of its own.   *)
(* Retries and edits start passes of their own, before the period is over. *)
PeriodNotTooShort ==
    /\ stored # NoObject
    /\ vetted \/ under = "bases"
    /\ \/ registry = NoObject
       \/ registryUnder = "bases"
       \/ vetted /\ asked.interval >= 0
    => intervalSeconds >= 10

(***************************************************************************)
(* The inductive invariant behind both: what one gate let in satisfies     *)
(* that gate's conditions as it is stored, so it needs no second look at   *)
(* the request; in particular defaulting has nothing left to do.           *)
(***************************************************************************)
Resubmittable(s) ==
    /\ AgentDefault(s) = s
    /\ validateA2AAgent(s)

AdmissionInv ==
    /\ AdmissionTypeOK
    /\ stored # NoObject => AgentSchema(stored, under)
    /\ registry # NoObject => RegistrySchema(registry, registryUnder)
    /\ vetted => /\ asked # NoObject
                 /\ stored = AgentDefault(asked)
                 /\ Resubmittable(stored)

-----------------------------------------------------------------------------
(* What the documentation says and the defaulting webhook does not do.     *)

(* README.md, 333: an agent that users disable is disabled. *)
DisabledAsAsked ==
    stored # NoObject /\ ~asked.enabled => ~stored.enabled

(* README.md, 336 and 337: without an interval of its own, an agent is     *)
(* checked at the registry's.                                              *)
GlobalIntervalUsed ==
    /\ stored # NoObject
    /\ registry # NoObject
    /\ registry.interval > 0
    /\ asked.interval = 0
    => intervalSeconds = registry.interval

=============================================================================
