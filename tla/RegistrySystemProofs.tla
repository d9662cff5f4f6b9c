------------------------- MODULE RegistrySystemProofs -------------------------
(***************************************************************************)
(* Proofs about the whole manager, for every set of keys, specs, cards,    *)
(* policies and scopes and every bound.  What AgentSystemProofs and        *)
(* AgentRefinementProofs show of the agents survives the composition with  *)
(* the registry controller, which prunes them and whose registry object is *)
(* their policy; and the registry controller keeps the registry object.    *)
(***************************************************************************)
EXTENDS RegistrySystem, AgentRefinementProofs, RegistryControllerProofs

SystemInv == IndInv /\ LifeInv /\ RegistryInv

(* What a step may do to the agents. *)
AgentsFare ==
    /\ IndInv'
    /\ LifeInv'
    /\ LifeStep
    /\ \A k \in Keys : StatusSteps(k)

LEMMA SystemInitInv ==
    ASSUME SystemInit
    PROVE  SystemInv /\ Lifecycle!LifecycleInit
BY InitIndInv, InitLife, RegistryInitInv DEF SystemInit, SystemInv

-----------------------------------------------------------------------------
(* Steps of the agents' own life are steps of AgentSystem.                 *)

LEMMA NoChangeIsFine ==
    ASSUME UNCHANGED agents
    PROVE  LifeStep /\ \A k \in Keys : StatusSteps(k)
BY DEF LifeStep, Lives, StatusSteps

LEMMA AgentStepsFare ==
    ASSUME SystemInv, Environment \/ Controller \/ Approver
    PROVE  AgentsFare
<1>1. IndInv /\ LifeInv /\ Next
  BY DEF SystemInv, Next
<1>2. IndInv'
  BY <1>1, NextIndInv
<1>3. LifeInv' /\ LifeStep
  BY <1>1, NextLifeInv, NextLives
<1>4. \A k \in Keys : StatusSteps(k)
  BY <1>1, NextStatusSteps
<1> QED BY <1>2, <1>3, <1>4 DEF AgentsFare

LEMMA AgentEnvironmentStep ==
    ASSUME SystemInv, AgentEnvironment
    PROVE  AgentsFare /\ RegistryInv' /\ UNCHANGED registry
<1>1. Environment /\ UNCHANGED registryVars
  BY DEF AgentEnvironment, Environment
<1>2. UNCHANGED config
  BY DEF AgentEnvironment, UserCreate, UserEdit, UserDelete, EndpointChange, Tick
<1> QED
  BY <1>1, <1>2, AgentStepsFare, RegistryFrame DEF SystemInv, registryVars

LEMMA AgentSideStep ==
    ASSUME SystemInv, AgentSide
    PROVE  AgentsFare /\ RegistryInv' /\ UNCHANGED registry
<1>1. (Controller \/ Approver) /\ UNCHANGED registryVars
  BY DEF AgentSide
<1>2. ASSUME Controller
      PROVE  UNCHANGED config
  BY <1>2 DEF Controller, Sync, TimerFires, ReconcileGet, Reconcile,
              RemoveFinalizer, AddFinalizer, CheckConflict, ApplyPolicy, Probe,
              WriteStatus, WriteConflict, WriteFails, WriteAnswerLost,
              clusterVars, worldVars
<1>3. ASSUME Approver
      PROVE  UNCHANGED config
  BY <1>3 DEF Approver, ApproveGet, ApproveWrite, ApproveConflict, clusterVars,
              worldVars
<1> QED
  BY <1>1, <1>2, <1>3, AgentStepsFare, RegistryFrame DEF SystemInv, registryVars

-----------------------------------------------------------------------------
(* Steps of the registry.                                                  *)

LEMMA PolicyType ==
    ASSUME NEW r \in Registry \cup {NoRegistry}
    PROVE  PolicyOf(r) \in Configs \cup {NoRegistry}
BY DEF PolicyOf, Registry

(* A step that leaves the agents alone. *)
LEMMA AgentsAside ==
    ASSUME SystemInv,
           config' \in Configs \cup {NoRegistry},
           ops' \in 0..MaxOps,
           faults' \in 0..MaxFaults,
           UNCHANGED <<agents, cache, current, notify, serving, now>>,
           UNCHANGED <<workerVars, queueVars, approval>>
    PROVE  AgentsFare
<1>1. UNCHANGED <<pc, req, agent, registryConfig, startedAt, requeue, queue,
                  delayed>>
  BY DEF workerVars, queueVars
<1>2. TypeOK'
  BY <1>1 DEF SystemInv, IndInv, TypeOK, ClusterTypeOK, ControllerTypeOK,
              DashboardTypeOK
<1>3. IndInv'
  BY <1>1, <1>2, FrameStep DEF SystemInv
<1>4. LifeInv'
  BY <1>1, OthersKeepLifeInv DEF SystemInv, IsCurrent
<1> QED BY <1>3, <1>4, NoChangeIsFine DEF AgentsFare

LEMMA RegistryUsersStep ==
    ASSUME SystemInv, RegistryUsers
    PROVE  AgentsFare /\ RegistryInv' /\ ops' # ops
<1>1. /\ UNCHANGED <<storeVars, config, serving, now>>
      /\ UserMoves
      /\ UNCHANGED <<controllerVars, approval>>
  BY DEF RegistryUsers, UserCreateRegistry, UserEditRegistry, UserDeleteRegistry
<1>2. /\ ops \in 0..MaxOps
      /\ faults \in 0..MaxFaults
      /\ config \in Configs \cup {NoRegistry}
  BY DEF SystemInv, IndInv, TypeOK, ClusterTypeOK, ControllerTypeOK
<1>3. ops' \in 0..MaxOps /\ ops' # ops
  BY <1>1, <1>2, BoundsAssumption DEF UserMoves
<1>4. AgentsFare
  BY <1>1, <1>2, <1>3, AgentsAside DEF storeVars, controllerVars
<1>5. RegistryInv'
  BY RegistryUserStep DEF SystemInv, RegistryUsers
<1> QED BY <1>3, <1>4, <1>5

(* The registry controller deletes an agent as a user would. *)
LEMMA PruneFares ==
    ASSUME SystemInv, NEW k \in Keys, Prune(k),
           UNCHANGED <<controllerVars, approval>>
    PROVE  AgentsFare
<1>1. /\ UNCHANGED <<pc, req, agent, registryConfig, startedAt, requeue>>
      /\ UNCHANGED <<queue, delayed, faults>>
      /\ UNCHANGED <<cache, config, serving, now, ops>>
  BY DEF controllerVars, workerVars, queueVars, Prune, worldVars
<1>2. /\ ops \in 0..MaxOps
      /\ faults \in 0..MaxFaults
      /\ config \in Configs \cup {NoRegistry}
  BY DEF SystemInv, IndInv, TypeOK, ClusterTypeOK, ControllerTypeOK
<1>3. CASE agents[k] # NoAgent /\ RequestDelete(k)
  <2>1. ControllerTypeOK' /\ DashboardTypeOK'
    BY <1>1 DEF SystemInv, IndInv, TypeOK, ControllerTypeOK, DashboardTypeOK
  <2>2. IndInv'
    BY <1>1, <1>2, <1>3, <2>1, DeleteRequest DEF SystemInv
  <2>3. pc # "idle" => req \in Keys
    BY DEF SystemInv, IndInv, WorkerState
  <2>4. PICK object : /\ agents' = [agents EXCEPT ![k] = object]
                      /\ current' = [current EXCEPT ![k] = {}]
    BY <1>3 DEF RequestDelete, Remove
  <2>5. pc # "idle" /\ IsCurrent(req, "worker")'
            => IsCurrent(req, "worker") /\ agents'[req] = agents[req]
    BY <1>1, <2>3, <2>4
    DEF IsCurrent, SystemInv, IndInv, TypeOK, ClusterTypeOK
  <2>6. LifeInv'
    BY <1>1, <2>5, OthersKeepLifeInv DEF SystemInv
  <2>7. LifeStep
    BY <1>3, DeleteLife DEF SystemInv
  <2>8. \A j \in Keys : StatusSteps(j)
    BY <1>3, DeleteStatusSteps DEF SystemInv
  <2> QED BY <2>2, <2>6, <2>7, <2>8 DEF AgentsFare
<1>4. CASE UNCHANGED <<agents, current, notify>>
  BY <1>1, <1>2, <1>4, AgentsAside DEF workerVars, queueVars
<1> QED BY <1>3, <1>4 DEF Prune

LEMMA RegistrySideStep ==
    ASSUME SystemInv, RegistrySide
    PROVE  AgentsFare /\ RegistryInv' /\ KeepsRegistry
<1>1. /\ ops \in 0..MaxOps
      /\ faults \in 0..MaxFaults
      /\ config \in Configs \cup {NoRegistry}
      /\ registry \in Registry \cup {NoRegistry}
  BY DEF SystemInv, IndInv, TypeOK, ClusterTypeOK, ControllerTypeOK, RegistryInv,
         RegistryTypeOK
<1>2. ASSUME UNCHANGED registry PROVE KeepsRegistry
  BY <1>2 DEF KeepsRegistry
<1>3. CASE RegistrySync /\ UNCHANGED <<controllerVars, approval>>
  <2>1. config' \in Configs \cup {NoRegistry}
    BY <1>1, <1>3, PolicyType DEF RegistrySync
  <2>2. AgentsFare
    BY <1>1, <1>3, <2>1, AgentsAside DEF RegistrySync, storeVars, controllerVars
  <2> QED BY <1>2, <1>3, <2>2, RegistrySyncStep DEF RegistrySync, SystemInv
<1>4. CASE RegistryTimer /\ UNCHANGED <<controllerVars, approval>>
  <2>1. AgentsFare
    BY <1>1, <1>4, AgentsAside DEF RegistryTimer, clusterVars, controllerVars
  <2> QED BY <1>2, <1>4, <2>1, RegistryTimerStep DEF RegistryTimer, SystemInv
<1>5. CASE ReconcileRegistry /\ UNCHANGED <<controllerVars, approval>>
  <2>1. ASSUME ~ \E k \in Keys : Prune(k)
        PROVE  UNCHANGED clusterVars
    BY <1>5, <2>1
    DEF ReconcileRegistry, RegistryGet, RegistryRemoveFinalizer,
        RegistryAddFinalizer, RegistryList, RegistryWriteStatus, PushConfig,
        RegistryConflict
  <2>2. ASSUME UNCHANGED clusterVars
        PROVE  AgentsFare
    BY <1>1, <1>5, <2>2, AgentsAside DEF clusterVars, controllerVars
  <2>3. AgentsFare
    BY <1>5, <2>1, <2>2, PruneFares
  <2>4. /\ RegistryInv'
        /\ \/ UNCHANGED registry
           \/ registry.deleting /\ registry' = NoRegistry
           \/ OnlyOurs
    BY <1>5, ReconcileRegistryStep DEF SystemInv
  <2>5. OnlyOurs => registry' # NoRegistry
    BY RegistryIsNotNoRegistry DEF OnlyOurs
  <2>6. KeepsRegistry
    BY <1>2, <2>4, <2>5 DEF KeepsRegistry, OnlyOurs
  <2> QED BY <2>3, <2>4, <2>6
<1>6. CASE RegistryFault
  <2>1. /\ UNCHANGED clusterVars
        /\ RegistryInv'
        /\ KeepsRegistry
    <3>1. CASE RegistryWriteFails
      BY <1>2, <3>1, RegistryGivesUpStep DEF RegistryWriteFails, SystemInv
    <3>2. CASE \E k \in Keys : PruneFails(k)
      BY <1>2, <3>2, RegistryPruneStep DEF PruneFails, SystemInv
    <3>3. CASE RegistryWriteAnswerLost
      <4>1. /\ RegistryInv'
            /\ \/ registry.deleting /\ registry' = NoRegistry
               \/ OnlyOurs
        BY <3>3, RegistryAnswerLostStep DEF SystemInv
      <4>2. OnlyOurs => registry' # NoRegistry
        BY RegistryIsNotNoRegistry DEF OnlyOurs
      <4>3. KeepsRegistry
        BY <4>1, <4>2 DEF KeepsRegistry, OnlyOurs
      <4> QED BY <3>3, <4>1, <4>3 DEF RegistryWriteAnswerLost
    <3> QED BY <1>6, <3>1, <3>2, <3>3 DEF RegistryFault
  <2>2. faults' \in 0..MaxFaults
    BY <1>1, <1>6, FaultsAssumption DEF RegistryFault, FaultHappens
  <2>3. UNCHANGED <<workerVars, queueVars, approval>>
    BY <1>6 DEF RegistryFault
  <2>4. AgentsFare
    BY <1>1, <2>1, <2>2, <2>3, AgentsAside DEF clusterVars
  <2> QED BY <2>1, <2>4
<1> QED BY <1>3, <1>4, <1>5, <1>6 DEF RegistrySide

LEMMA SystemRestartStep ==
    ASSUME SystemInv, SystemRestart
    PROVE  AgentsFare /\ RegistryInv' /\ UNCHANGED registry
<1>1. /\ UNCHANGED <<agents, serving, now, ops>>
      /\ cache' = agents
      /\ current' = [k \in Keys |-> {"cache"}]
      /\ notify' = {}
      /\ WorkerIdle
      /\ queue' = {k \in Keys : agents[k] # NoAgent}
      /\ delayed' = {}
      /\ faults < MaxFaults /\ faults' = faults + 1
      /\ approval' = NoApproval
      /\ RegistryRestart
      /\ config' = PolicyOf(registry)
  BY DEF SystemRestart, Relist, FaultHappens
<1>2. TypeOK'
  <2>1. config' \in Configs \cup {NoRegistry}
    BY <1>1, PolicyType DEF SystemInv, RegistryInv, RegistryTypeOK
  <2>2. ClusterTypeOK'
    BY <1>1, <2>1 DEF SystemInv, IndInv, TypeOK, ClusterTypeOK, Holders
  <2>3. faults' \in 0..MaxFaults
    BY <1>1, FaultsAssumption DEF SystemInv, IndInv, TypeOK, ControllerTypeOK
  <2>4. queue' \in SUBSET Keys /\ delayed' \in SUBSET Keys
    BY <1>1
  <2>5. ControllerTypeOK'
    BY <1>1, <2>3, <2>4 DEF WorkerIdle, ControllerTypeOK, PCs
  <2> QED BY <1>1, <2>2, <2>5 DEF TypeOK, DashboardTypeOK
<1>3. IndInv'
  BY <1>1, <1>2, ProcessReplaced DEF SystemInv
<1>4. LifeInv'
  BY <1>1, IdleLifeInv DEF WorkerIdle
<1>5. RegistryInv' /\ UNCHANGED registry
  BY <1>1, RegistryRestartStep DEF SystemInv, RegistryRestart
<1> QED BY <1>1, <1>3, <1>4, <1>5, NoChangeIsFine DEF AgentsFare

LEMMA SystemStep ==
    ASSUME SystemInv, [SystemNext]_systemVars
    PROVE  AgentsFare /\ RegistryInv' /\ KeepsRegistry
<1>1. ASSUME UNCHANGED registry \/ ops' # ops
      PROVE  KeepsRegistry
  BY <1>1 DEF KeepsRegistry
<1>2. CASE UNCHANGED systemVars
  <2>1. /\ UNCHANGED <<clusterVars, workerVars, queueVars, faults, approval>>
        /\ UNCHANGED registryVars
    BY <1>2 DEF systemVars, vars, controllerVars
  <2>2. AgentsFare
    BY <2>1, AgentsAside
    DEF clusterVars, SystemInv, IndInv, TypeOK, ClusterTypeOK, ControllerTypeOK
  <2>3. RegistryInv' /\ UNCHANGED registry
    BY <2>1, RegistryFrame DEF SystemInv, clusterVars, registryVars
  <2> QED BY <1>1, <2>2, <2>3
<1> QED
  BY <1>1, <1>2, AgentEnvironmentStep, RegistryUsersStep, AgentSideStep,
     RegistrySideStep, SystemRestartStep
  DEF SystemNext

-----------------------------------------------------------------------------
(* The theorems.                                                           *)

(* The invariants of both controllers hold of the process that runs them. *)
THEOREM SystemInvHolds == SystemSpec => []SystemInv
<1>1. SystemInit => SystemInv
  BY SystemInitInv
<1>2. SystemInv /\ [SystemNext]_systemVars => SystemInv'
  BY SystemStep DEF SystemInv, AgentsFare
<1> QED BY <1>1, <1>2, PTL DEF SystemSpec

(* Every variable of the manager keeps its type; the cached policy is one  *)
(* that users may configure, the counters are numbers, and the API server  *)
(* filters by configured or default settings.                              *)
THEOREM SystemTypeCorrect == SystemSpec => []SystemTypeOK
<1>1. SystemInv => SystemTypeOK
  BY DEF SystemInv, IndInv, RegistryInv, SystemTypeOK
<1> QED BY <1>1, SystemInvHolds, PTL

(* The registry controller never undoes a user's change of the registry    *)
(* and never removes one that nobody deleted, although it writes back a    *)
(* whole object that it read from a cache (a2aregistry_controller.go,      *)
(* 42-69, 130).                                                            *)
THEOREM RegistryIsKept == SystemSpec => RegistryKept
<1>1. SystemInv /\ [SystemNext]_systemVars => [KeepsRegistry]_systemVars
  BY SystemStep
<1> QED BY <1>1, SystemInvHolds, PTL DEF SystemSpec, RegistryKept

(* Pruning, policy changes through the registry object and restarts of     *)
(* both controllers at once leave the agents' statuses coherent and        *)
(* earned (a2aagent_controller.go, 84-243; a2aregistry_controller.go,      *)
(* 96-114).                                                                *)
THEOREM SystemStatusIsCoherent ==
    SystemSpec => [](StatusCoherent /\ ObservedPhaseEarned)
<1>1. SystemInv => StatusCoherent /\ ObservedPhaseEarned
  BY DEF SystemInv, IndInv, GoodVersions, GoodVersion, StatusCoherent,
         ObservedPhaseEarned
<1> QED BY <1>1, SystemInvHolds, PTL

(* Nor do they take an approval back, let an agent become Ready without    *)
(* one, or undo progress (a2aagent_controller.go, 118-143, 167-221;        *)
(* a2aregistry_controller.go, 96-114).                                     *)
THEOREM SystemKeepsPromises ==
    SystemSpec => ApprovalPersists /\ ApprovalGate /\ ProgressMonotone
<1>1. SystemInv /\ [SystemNext]_systemVars
          => [\A k \in Keys : KeepsApproval(k)]_vars
  BY SystemStep, StatusStepsKeepApproval DEF SystemInv, AgentsFare
<1>2. SystemInv /\ [SystemNext]_systemVars =>
        [\A k \in Keys : BecomesReady(k) /\ NeedsApproval(registryConfig)
             => agents[k] # NoAgent /\ isApproved(agents[k].status)]_vars
  BY SystemStep, StatusStepsNeedApproval DEF SystemInv, AgentsFare
<1>3. SystemInv /\ [SystemNext]_systemVars
          => [\A k \in Keys : KeepsProgress(k)]_vars
  BY SystemStep, StatusStepsKeepProgress DEF SystemInv, AgentsFare
<1> QED
  BY <1>1, <1>2, <1>3, SystemInvHolds, PTL
  DEF SystemSpec, ApprovalPersists, ApprovalGate, ProgressMonotone

(* With the registry controller beside it, the agent controller still      *)
(* implements the abstract life of an agent: a pruned agent leaves before  *)
(* it vanishes, like any other (a2aregistry_controller.go, 96-114;         *)
(* a2aagent_controller.go, 43-254; dashboard.go, 26-66).                   *)
THEOREM SystemAgentsLive == SystemSpec => ImplementsLifecycle
<1>1. SystemInit => Lifecycle!LifecycleInit
  BY SystemInitInv
<1>2. SystemInv /\ [SystemNext]_systemVars
          => [Lifecycle!LifecycleNext]_[k \in Keys |-> LifeOf(agents[k])]
  BY SystemStep DEF AgentsFare, LifeStep, Lives
<1> QED
  BY <1>1, <1>2, SystemInvHolds, PTL
  DEF SystemSpec, ImplementsLifecycle, Lifecycle!LifecycleSpec

=============================================================================
