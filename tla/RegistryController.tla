-------------------------- MODULE RegistryController --------------------------
(***************************************************************************)
(* The A2ARegistry controller (controllers/a2aregistry_controller.go): its *)
(* worker counts the agents, prunes those that have been silent too long,  *)
(* writes the registry's status and hands the discovery settings to the    *)
(* API server (internal/registry/server.go).  There is one A2ARegistry.    *)
(*                                                                         *)
(*   idle -> remove                                 deletion, lines 50-60  *)
(*   idle -> [add] -> list -> prune* -> push                    the rest   *)
(***************************************************************************)
EXTENDS ClusterAPI, FiniteSets

CONSTANTS
    Scopes,          \* discovery settings users may configure
    DefaultScope,    \* what NewServer starts with: Scope "Cluster"
    PruneAge,        \* seven days, in ticks of the clock
    Handlers         \* requests of the HTTP API that are served at one time

ASSUME PruneAssumption == PruneAge \in Nat

ASSUME HandlersAssumption == Handlers \cap {"cache", "worker"} = {}

(* There are finitely many agents to count. *)
ASSUME KeysAssumption == IsFiniteSet(Keys)

(* How many agents the last pass counted, and how many of them healthy. *)
Counts == [agentCount : Nat, healthyAgents : Nat]

Registry == [deleting  : BOOLEAN,
             finalizer : BOOLEAN,
             policy    : Configs,
             scope     : Scopes,
             status    : Counts]

ASSUME RegistryAssumption == NoRegistry \notin Registry

VARIABLES
    registry,          \* the stored A2ARegistry, or NoRegistry
    registryCache,     \* the informer's copy of it
    registryCurrent,   \* who holds a copy with the stored resourceVersion
    registryPC,        \* where Reconcile is
    reg,               \* its in-memory object
    stale,             \* listed agents that are still to be deleted
    registryQueued,    \* the registry is in the work queue
    registryDelayed,   \* a RequeueAfter or back-off timer is running
    discoveryConfig    \* what the API server filters by

registryVars == <<registry, registryCache, registryCurrent, registryPC, reg,
                  stale, registryQueued, registryDelayed, discoveryConfig>>

RegistryPCs == {"idle", "remove", "add", "list", "prune", "push"}

RegistryTypeOK ==
    /\ registry \in Registry \cup {NoRegistry}
    /\ registryCache \in Registry \cup {NoRegistry}
    /\ registryCurrent \in SUBSET ({"cache", "worker"} \cup Handlers)
    /\ registryPC \in RegistryPCs
    /\ reg \in Registry \cup {NoRegistry}
    /\ stale \in SUBSET Keys
    /\ registryQueued \in BOOLEAN
    /\ registryDelayed \in BOOLEAN
    /\ discoveryConfig \in Scopes \cup {DefaultScope}

NewRegistry(policy, scope) ==
    [deleting  |-> FALSE,
     finalizer |-> FALSE,
     policy    |-> policy,
     scope     |-> scope,
     status    |-> [agentCount |-> 0, healthyAgents |-> 0]]

(* What the agent controller reads in Items[0].Spec. *)
PolicyOf(r) == IF r = NoRegistry THEN NoRegistry ELSE r.policy

RegistryInit ==
    /\ registry \in {NewRegistry(p, s) : p \in Policies, s \in Scopes}
                        \cup {NoRegistry}
    /\ registryCache = registry
    /\ registryCurrent = {"cache"}
    /\ registryPC = "idle"
    /\ reg = NoRegistry
    /\ stale = {}
    /\ registryQueued = (registry # NoRegistry)
    /\ registryDelayed = FALSE
    /\ discoveryConfig = DefaultScope
    /\ config = PolicyOf(registry)

-----------------------------------------------------------------------------
(* Users.                                                                  *)

UserCreateRegistry ==
    /\ UserMoves
    /\ registry = NoRegistry
    /\ \E p \in Policies, s \in Scopes : registry' = NewRegistry(p, s)
    /\ registryCurrent' = {}
    /\ UNCHANGED <<storeVars, config, serving, now, registryCache, registryPC,
                   reg, stale, registryQueued, registryDelayed, discoveryConfig>>

UserEditRegistry ==
    /\ UserMoves
    /\ registry # NoRegistry
    /\ \E p \in Policies, s \in Scopes :
           /\ <<p, s>> # <<registry.policy, registry.scope>>
           /\ registry' = [registry EXCEPT !.policy = p, !.scope = s]
    /\ registryCurrent' = {}
    /\ UNCHANGED <<storeVars, config, serving, now, registryCache, registryPC,
                   reg, stale, registryQueued, registryDelayed, discoveryConfig>>

UserDeleteRegistry ==
    /\ UserMoves
    /\ registry # NoRegistry
    /\ ~registry.deleting
    /\ registry' = IF registry.finalizer THEN [registry EXCEPT !.deleting = TRUE]
                                         ELSE NoRegistry
    /\ registryCurrent' = {}
    /\ UNCHANGED <<storeVars, config, serving, now, registryCache, registryPC,
                   reg, stale, registryQueued, registryDelayed, discoveryConfig>>

-----------------------------------------------------------------------------
(* Events and timers.  No predicate filters the registry's events: its own  *)
(* status writes bring it back too.                                         *)

RegistrySync ==
    /\ "cache" \notin registryCurrent
    /\ registryCache' = registry
    /\ registryCurrent' = registryCurrent \cup {"cache"}
    /\ config' = PolicyOf(registry)
    /\ registryQueued' = TRUE
    /\ UNCHANGED <<storeVars, serving, now, ops, registry, registryPC, reg,
                   stale, registryDelayed, discoveryConfig>>

RegistryTimer ==
    /\ registryDelayed
    /\ registryDelayed' = FALSE
    /\ registryQueued' = TRUE
    /\ UNCHANGED <<clusterVars, registry, registryCache, registryCurrent,
                   registryPC, reg, stale, discoveryConfig>>

-----------------------------------------------------------------------------
(* Reconcile.                                                              *)

RegistryIdle ==
    /\ registryPC' = "idle"
    /\ reg' = NoRegistry
    /\ stale' = {}

RegistryReturn(again) ==
    /\ RegistryIdle
    /\ registryDelayed' = (registryDelayed \/ again)
    /\ UNCHANGED <<registryCache, registryQueued>>

RegistryAfterGet(r) ==
    IF r.deleting THEN IF r.finalizer THEN "remove" ELSE "idle"
                  ELSE IF r.finalizer THEN "list" ELSE "add"

RegistryGet ==
    /\ registryPC = "idle"
    /\ registryQueued
    /\ registryQueued' = FALSE
    /\ IF registryCache = NoRegistry \/ RegistryAfterGet(registryCache) = "idle"
       THEN UNCHANGED <<registryPC, reg, registryCurrent>>
       ELSE /\ registryPC' = RegistryAfterGet(registryCache)
            /\ reg' = registryCache
            /\ registryCurrent' = IF "cache" \in registryCurrent
                                  THEN registryCurrent \cup {"worker"}
                                  ELSE registryCurrent
    /\ UNCHANGED <<clusterVars, registry, registryCache, stale, registryDelayed,
                   discoveryConfig>>

RegistryRemoveFinalizerUnchecked ==
    /\ registryPC = "remove"
    /\ registry' = NoRegistry
    /\ registryCurrent' = {}
    /\ RegistryReturn(FALSE)
    /\ UNCHANGED <<clusterVars, discoveryConfig>>

RegistryRemoveFinalizer ==
    /\ registryPC = "remove"
    /\ "worker" \in registryCurrent
    /\ registry' = NoRegistry
    /\ registryCurrent' = {}
    /\ RegistryReturn(FALSE)
    /\ UNCHANGED <<clusterVars, discoveryConfig>>

(* Update writes the whole object as it was read, but for the status, which *)
(* is a subresource, and returns what is stored.                            *)
RegistryAddFinalizer ==
    /\ registryPC = "add"
    /\ "worker" \in registryCurrent
    /\ registry' = [reg EXCEPT !.finalizer = TRUE, !.status = registry.status]
    /\ reg' = registry'
    /\ registryCurrent' = {"worker"}
    /\ registryPC' = "list"
    /\ UNCHANGED <<clusterVars, registryCache, stale, registryQueued,
                   registryDelayed, discoveryConfig>>

(* The two numbers of the status, from the cached list. *)
CountAgents ==
    LET listed == {k \in Keys : cache[k] # NoAgent}
        healthy == {k \in listed : /\ cache[k].spec.enabled
                                   /\ cache[k].status.health = "Healthy"}
    IN [agentCount    |-> Cardinality(listed),
        healthyAgents |-> Cardinality(healthy)]

IsStaleLate(a) ==
    /\ a.status.phase = "Unreachable"
    /\ a.status.heartbeat # Never
    /\ a.status.heartbeat < now - PruneAge - 1

(* Unreachable, once healthy, and the last heartbeat is before the cutoff. *)
IsStale(a) ==
    /\ a.status.phase = "Unreachable"
    /\ a.status.heartbeat # Never
    /\ a.status.heartbeat < now - PruneAge

(* List the agents; count them; decide which to delete. *)
RegistryList ==
    /\ registryPC = "list"
    /\ reg' = [reg EXCEPT !.status = CountAgents]
    /\ stale' = {k \in Keys : cache[k] # NoAgent /\ IsStale(cache[k])}
    /\ registryPC' = "prune"
    /\ UNCHANGED <<clusterVars, registry, registryCache, registryCurrent,
                   registryQueued, registryDelayed, discoveryConfig>>

(* Delete by name, with no precondition on the version that was listed; an  *)
(* error is logged and the loop goes on.                                    *)
Prune(k) ==
    /\ registryPC = "prune"
    /\ k \in stale
    /\ stale' = stale \ {k}
    /\ \/ agents[k] # NoAgent /\ RequestDelete(k)
       \/ /\ agents[k] # NoAgent => agents[k].deleting
          /\ UNCHANGED <<agents, current, notify>>
    /\ UNCHANGED <<cache, worldVars, registry, registryCache, registryCurrent,
                   registryPC, reg, registryQueued, registryDelayed,
                   discoveryConfig>>

(* Reconcile is about to write the registry object. *)
Writing == registryPC \in {"remove", "add"} \/ (registryPC = "prune" /\ stale = {})

(* After the loop, Status().Update, whose event brings the registry back. *)
RegistryWriteStatus ==
    /\ registryPC = "prune"
    /\ stale = {}
    /\ "worker" \in registryCurrent
    /\ registry' = [registry EXCEPT !.status = reg.status]
    /\ \/ registryCurrent' = {}
       \/ registry' = registry /\ registryCurrent' = registryCurrent \ {"worker"}
    /\ registryPC' = "push"
    /\ UNCHANGED <<clusterVars, registryCache, reg, stale, registryQueued,
                   registryDelayed, discoveryConfig>>

PushConfigNoRequeue ==
    /\ registryPC = "push"
    /\ discoveryConfig' = reg.scope
    /\ RegistryReturn(FALSE)
    /\ UNCHANGED <<clusterVars, registry, registryCurrent>>

PushConfigOnce ==
    /\ registryPC = "push"
    /\ discoveryConfig' = IF discoveryConfig = DefaultScope THEN reg.scope
                          ELSE discoveryConfig
    /\ RegistryReturn(TRUE)
    /\ UNCHANGED <<clusterVars, registry, registryCurrent>>

(* APIServer.UpdateConfig, and RequeueAfter: 30s. *)
PushConfig ==
    /\ registryPC = "push"
    /\ discoveryConfig' = reg.scope
    /\ RegistryReturn(TRUE)
    /\ UNCHANGED <<clusterVars, registry, registryCurrent>>

(* A write with a stale resourceVersion. *)
RegistryConflict ==
    /\ Writing
    /\ "worker" \notin registryCurrent
    /\ RegistryReturn(TRUE)
    /\ UNCHANGED <<clusterVars, registry, registryCurrent, discoveryConfig>>

RegistryWriteFailsForGood ==
    /\ Writing
    /\ "worker" \in registryCurrent
    /\ registryCurrent' = registryCurrent \ {"worker"}
    /\ RegistryReturn(FALSE)
    /\ UNCHANGED <<clusterVars, registry, discoveryConfig>>

(* The request never reached the API server, or admission refused it.  The  *)
(* error is returned.                                                       *)
RegistryWriteFails ==
    /\ Writing
    /\ "worker" \in registryCurrent
    /\ registryCurrent' = registryCurrent \ {"worker"}
    /\ RegistryReturn(TRUE)
    /\ UNCHANGED <<clusterVars, registry, discoveryConfig>>

(* The request was carried out, and the answer was lost. *)
RegistryWriteAnswerLost ==
    /\ "worker" \in registryCurrent
    /\ \/ registryPC = "remove" /\ registry' = NoRegistry
       \/ /\ registryPC = "add"
          /\ registry' = [reg EXCEPT !.finalizer = TRUE,
                                     !.status = registry.status]
       \/ /\ registryPC = "prune"
          /\ stale = {}
          /\ registry' = [registry EXCEPT !.status = reg.status]
    /\ \/ registryCurrent' = {}
       \/ registry' = registry /\ registryCurrent' = registryCurrent \ {"worker"}
    /\ RegistryReturn(TRUE)
    /\ UNCHANGED <<clusterVars, discoveryConfig>>

(* The delete of a listed agent failed: logged, left to a later pass. *)
PruneFails(k) ==
    /\ registryPC = "prune"
    /\ k \in stale
    /\ stale' = stale \ {k}
    /\ UNCHANGED <<clusterVars, registry, registryCache, registryCurrent,
                   registryPC, reg, registryQueued, registryDelayed,
                   discoveryConfig>>

ReconcileRegistry ==
    \/ RegistryGet
    \/ RegistryRemoveFinalizer
    \/ RegistryAddFinalizer
    \/ RegistryList
    \/ \E k \in Keys : Prune(k)
    \/ RegistryWriteStatus
    \/ PushConfig
    \/ RegistryConflict

RegistryRestartNoDefault ==
    /\ RegistryIdle
    /\ registryCache' = registry
    /\ registryCurrent' = {"cache"}
    /\ registryQueued' = (registry # NoRegistry)
    /\ registryDelayed' = FALSE
    /\ discoveryConfig' = "unset"
    /\ UNCHANGED registry

(* The process is replaced: NewServer starts with the default scope. *)
RegistryRestart ==
    /\ RegistryIdle
    /\ registryCache' = registry
    /\ registryCurrent' = {"cache"}
    /\ registryQueued' = (registry # NoRegistry)
    /\ registryDelayed' = FALSE
    /\ discoveryConfig' = DefaultScope
    /\ UNCHANGED registry

-----------------------------------------------------------------------------
(* What a pass relies on.                                                  *)

(* The copy has everything of the stored object but the status. *)
SameRegistry(copy, stored) ==
    /\ stored # NoRegistry
    /\ copy.deleting = stored.deleting
    /\ copy.finalizer = stored.finalizer
    /\ copy.policy = stored.policy
    /\ copy.scope = stored.scope

(* A copy that counts as current agrees with the stored object. *)
RegistryCopies ==
    /\ "cache" \in registryCurrent => registryCache = registry
    /\ "worker" \in registryCurrent =>
           /\ registryPC \in {"remove", "add", "list", "prune"}
           /\ SameRegistry(reg, registry)

(* What each step of Reconcile knows of its object. *)
RegistryPass ==
    /\ registryPC # "idle" => reg # NoRegistry
    /\ registryPC = "remove" => reg.deleting
    /\ registryPC \in {"list", "prune"} => reg.finalizer

(* The policy that the agent controller finds is that of the cached object. *)
PolicyFromCache == config = PolicyOf(registryCache)

RegistryInv ==
    /\ RegistryTypeOK
    /\ RegistryCopies
    /\ RegistryPass
    /\ PolicyFromCache

=============================================================================
