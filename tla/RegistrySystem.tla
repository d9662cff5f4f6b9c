---------------------------- MODULE RegistrySystem ----------------------------
(***************************************************************************)
(* The whole manager: the agents' life of AgentSystem and the A2ARegistry  *)
(* controller beside it.  The two controllers share the API server and     *)
(* nothing else: the policy that the agent controller applies is the spec  *)
(* of the registry object, the agents that the registry controller counts  *)
(* and prunes are the agent controller's.                                  *)
(***************************************************************************)
EXTENDS AgentSystem, RegistryController

systemVars == <<vars, registryVars>>

SystemTypeOK == TypeOK /\ RegistryTypeOK

SystemInit == Init /\ RegistryInit

(* Users with their agents, endpoints and time. *)
AgentEnvironment ==
    /\ \/ \E k \in Keys : UserCreate(k) \/ UserEdit(k) \/ UserDelete(k)
       \/ \E u \in URLs : EndpointChange(u)
       \/ Tick
    /\ UNCHANGED <<controllerVars, approval, registryVars>>

(* Users with the registry object, whose spec is the agents' policy. *)
RegistryUsers ==
    /\ \/ UserCreateRegistry
       \/ UserEditRegistry
       \/ UserDeleteRegistry
    /\ UNCHANGED <<controllerVars, approval>>

AgentSide == (Controller \/ Approver) /\ UNCHANGED registryVars

RegistryFault ==
    /\ FaultHappens
    /\ \/ RegistryWriteFails
       \/ RegistryWriteAnswerLost
       \/ \E k \in Keys : PruneFails(k)
    /\ UNCHANGED <<workerVars, queueVars, approval>>

RegistrySide ==
    \/ /\ RegistrySync \/ RegistryTimer \/ ReconcileRegistry
       /\ UNCHANGED <<controllerVars, approval>>
    \/ RegistryFault

(* One process runs both controllers and the API server; its new cache has *)
(* the registry's policy as well.                                          *)
SystemRestart ==
    /\ FaultHappens
    /\ Relist
    /\ WorkerIdle
    /\ queue' = {k \in Keys : agents[k] # NoAgent}
    /\ delayed' = {}
    /\ approval' = NoApproval
    /\ RegistryRestart
    /\ config' = PolicyOf(registry)
    /\ UNCHANGED <<serving, now, ops>>

SystemNext ==
    \/ AgentEnvironment
    \/ RegistryUsers
    \/ AgentSide
    \/ RegistrySide
    \/ SystemRestart

SystemSpec == SystemInit /\ [][SystemNext]_systemVars

(* As in AgentSystem; the registry's watch, timer and worker run as well. *)
SystemFairness ==
    /\ \A k \in Keys :
        /\ WF_systemVars(Sync(k) /\ UNCHANGED <<approval, registryVars>>)
        /\ WF_systemVars(TimerFires(k) /\ UNCHANGED <<approval, registryVars>>)
        /\ SF_systemVars(ReconcileGet(k) /\ UNCHANGED <<approval, registryVars>>)
    /\ WF_systemVars(Reconcile /\ UNCHANGED <<approval, registryVars>>)
    /\ WF_systemVars(RegistrySync /\ UNCHANGED <<controllerVars, approval>>)
    /\ WF_systemVars(RegistryTimer /\ UNCHANGED <<controllerVars, approval>>)
    /\ WF_systemVars(ReconcileRegistry /\ UNCHANGED <<controllerVars, approval>>)

FairSystem == SystemSpec /\ SystemFairness

-----------------------------------------------------------------------------
(* Properties.                                                             *)

RegistryLives == registry # NoRegistry /\ ~registry.deleting

(* The registry controller leaves the settings of the registry alone and    *)
(* removes the object only if somebody asked for it, although it works on a *)
(* cached copy that may be of a deleted predecessor or of older settings    *)
(* (a2aregistry_controller.go, 42-69, 130).                                 *)
KeepsRegistry ==
    registry # NoRegistry /\ ops' = ops =>
        IF registry' = NoRegistry THEN registry.deleting
        ELSE /\ registry'.policy = registry.policy
             /\ registry'.scope = registry.scope
             /\ registry'.deleting = registry.deleting
             /\ registry.finalizer => registry'.finalizer

RegistryKept == [][KeepsRegistry]_systemVars

(* While a registry exists, no agent stays Unreachable with an outdated    *)
(* heartbeat: a failed delete, a stale list or a restart in the middle of  *)
(* a pass only delays the removal (a2aregistry_controller.go, 96-114, 153; *)
(* a2aagent_controller.go, 57-70).                                         *)
Outdated(st) ==
    /\ st.phase = "Unreachable"
    /\ st.heartbeat # Never
    /\ now - st.heartbeat > PruneAge

StaleAgentsGo ==
    \A k \in Keys :
        ~ <>[](RegistryLives /\ agents[k] # NoAgent /\ Outdated(agents[k].status))

(* The discovery settings of the registry reach the API server, through    *)
(* conflicts, failed writes and restarts that put the default scope back   *)
(* (a2aregistry_controller.go, 130-146; internal/registry/server.go,       *)
(* 33-41, 62-66).                                                          *)
DiscoveryConverges ==
    \A s \in Scopes :
        <>[](RegistryLives /\ registry.scope = s) => <>[](discoveryConfig = s)

StoredCounts ==
    LET stored == {k \in Keys : agents[k] # NoAgent}
        healthy == {k \in stored : /\ agents[k].spec.enabled
                                   /\ agents[k].status.health = "Healthy"}
    IN [agentCount    |-> Cardinality(stored),
        healthyAgents |-> Cardinality(healthy)]

(* The registry's counters catch up with the agents, although no event of  *)
(* an agent wakes the registry controller: only its own timer does         *)
(* (a2aregistry_controller.go, 77-119, 153, 157-161).                      *)
CountsConverge ==
    \A n \in 0..Cardinality(Keys) : \A h \in 0..n :
        LET counts == [agentCount |-> n, healthyAgents |-> h] IN
        <>[](RegistryLives /\ StoredCounts = counts)
            => <>[](registry # NoRegistry /\ registry.status = counts)

(* A deleted registry goes away, and the agents are then run with the      *)
(* default policy (a2aregistry_controller.go, 50-60;                       *)
(* a2aagent_controller.go, 274-280).                                       *)
RegistryDeletionCompletes ==
    /\ (registry # NoRegistry /\ registry.deleting) ~> (registry = NoRegistry)
    /\ <>[](registry = NoRegistry) => <>[](config = NoRegistry)

=============================================================================
