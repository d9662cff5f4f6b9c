----------------------- MODULE RegistryControllerProofs -----------------------
(***************************************************************************)
(* The steps of the A2ARegistry controller, of its informer and of users   *)
(* keep RegistryInv: a copy of the registry that counts as current has     *)
(* everything of the stored object but the status, so a write that the API *)
(* server accepts changes nothing else.  RegistrySystem and APISystem both *)
(* build on these lemmas.                                                  *)
(***************************************************************************)
EXTENDS RegistryController, FiniteSetTheorems, TLAPS

LEMMA RegistryIsNotNoRegistry ==
    ASSUME NEW r \in Registry
    PROVE  r # NoRegistry
BY RegistryAssumption

LEMMA NewRegistryType ==
    ASSUME NEW p \in Policies, NEW s \in Scopes
    PROVE  NewRegistry(p, s) \in Registry
BY PoliciesAssumption DEF NewRegistry, Registry, Counts

(* The numbers of a list are numbers. *)
LEMMA CountAgentsType == CountAgents \in Counts
<1> DEFINE listed == {k \in Keys : cache[k] # NoAgent}
           healthy == {k \in listed : /\ cache[k].spec.enabled
                                      /\ cache[k].status.health = "Healthy"}
<1>1. IsFiniteSet(listed) /\ IsFiniteSet(healthy)
  <2>1. listed \subseteq Keys /\ healthy \subseteq Keys
    OBVIOUS
  <2> QED BY <2>1, KeysAssumption, FS_Subset
<1>2. Cardinality(listed) \in Nat /\ Cardinality(healthy) \in Nat
  BY <1>1, FS_CardinalityType
<1> QED BY <1>2 DEF CountAgents, Counts

(* A step that touches neither the registry nor the policy the agents see. *)
LEMMA RegistryFrame ==
    ASSUME RegistryInv, UNCHANGED <<registryVars, config>>
    PROVE  RegistryInv'
BY DEF RegistryInv, RegistryTypeOK, RegistryCopies, RegistryPass, PolicyFromCache,
       registryVars, SameRegistry, PolicyOf

LEMMA RegistryInitInv ==
    ASSUME RegistryInit
    PROVE  RegistryInv
<1>1. registry \in Registry \cup {NoRegistry}
  BY NewRegistryType DEF RegistryInit
<1> QED
  BY <1>1 DEF RegistryInit, RegistryInv, RegistryTypeOK, RegistryCopies,
              RegistryPass, PolicyFromCache, RegistryPCs

-----------------------------------------------------------------------------
(* Users, events and timers.                                               *)

(* A write that leaves nobody with a current copy. *)
LEMMA RegistryOverwritten ==
    ASSUME RegistryInv, registry' \in Registry \cup {NoRegistry},
           registryCurrent' = {},
           UNCHANGED <<registryCache, registryPC, reg, stale, registryQueued,
                       registryDelayed, discoveryConfig, config>>
    PROVE  RegistryInv'
BY DEF RegistryInv, RegistryTypeOK, RegistryCopies, RegistryPass, PolicyFromCache,
       PolicyOf

LEMMA RegistryUserStep ==
    ASSUME RegistryInv,
           UserCreateRegistry \/ UserEditRegistry \/ UserDeleteRegistry
    PROVE  RegistryInv'
<1>1. /\ registryCurrent' = {}
      /\ UNCHANGED <<registryCache, registryPC, reg, stale, registryQueued,
                     registryDelayed, discoveryConfig, config>>
  BY DEF UserCreateRegistry, UserEditRegistry, UserDeleteRegistry
<1>2. registry \in Registry \cup {NoRegistry}
  BY DEF RegistryInv, RegistryTypeOK
<1>3. registry' \in Registry \cup {NoRegistry}
  <2>1. CASE UserCreateRegistry
    BY <2>1, NewRegistryType DEF UserCreateRegistry
  <2>2. CASE UserEditRegistry
    BY <2>2, <1>2, PoliciesAssumption DEF UserEditRegistry, Registry
  <2>3. CASE UserDeleteRegistry
    BY <2>3, <1>2 DEF UserDeleteRegistry, Registry
  <2> QED BY <2>1, <2>2, <2>3
<1> QED BY <1>1, <1>3, RegistryOverwritten

LEMMA RegistrySyncStep ==
    ASSUME RegistryInv, RegistrySync
    PROVE  RegistryInv'
BY DEF RegistrySync, RegistryInv, RegistryTypeOK, RegistryCopies, RegistryPass,
       PolicyFromCache, PolicyOf, SameRegistry

LEMMA RegistryTimerStep ==
    ASSUME RegistryInv, RegistryTimer
    PROVE  RegistryInv'
BY DEF RegistryTimer, RegistryInv, RegistryTypeOK, RegistryCopies, RegistryPass,
       PolicyFromCache, PolicyOf, SameRegistry, clusterVars

LEMMA RegistryRestartStep ==
    ASSUME RegistryInv, RegistryRestart, config' = PolicyOf(registry)
    PROVE  RegistryInv'
BY DEF RegistryRestart, RegistryIdle, RegistryInv, RegistryTypeOK, RegistryCopies,
       RegistryPass, PolicyFromCache, PolicyOf, RegistryPCs

-----------------------------------------------------------------------------
(* Reconcile.                                                              *)

LEMMA RegistryGetStep ==
    ASSUME RegistryInv, RegistryGet
    PROVE  RegistryInv'
<1>1. /\ UNCHANGED <<config, registry, registryCache, stale, registryDelayed,
                     discoveryConfig>>
      /\ registryPC = "idle"
      /\ registryQueued' = FALSE
  BY DEF RegistryGet, clusterVars
<1>2. CASE UNCHANGED <<registryPC, reg, registryCurrent>>
  BY <1>1, <1>2 DEF RegistryInv, RegistryTypeOK, RegistryCopies, RegistryPass,
                    PolicyFromCache, PolicyOf, SameRegistry
<1>3. CASE /\ registryCache # NoRegistry
           /\ registryPC' = RegistryAfterGet(registryCache)
           /\ RegistryAfterGet(registryCache) # "idle"
           /\ reg' = registryCache
           /\ registryCurrent' = IF "cache" \in registryCurrent
                                 THEN registryCurrent \cup {"worker"}
                                 ELSE registryCurrent
  <2>1. registryCache \in Registry
    BY <1>3 DEF RegistryInv, RegistryTypeOK
  <2>2. /\ registryPC' \in {"remove", "list", "add"}
        /\ registryPC' = "remove" => registryCache.deleting
        /\ registryPC' = "list" => registryCache.finalizer
    BY <1>3 DEF RegistryAfterGet
  <2>3. "worker" \notin registryCurrent
    BY <1>1 DEF RegistryInv, RegistryCopies
  <2>4. RegistryCopies'
    BY <1>1, <1>3, <2>2, <2>3 DEF RegistryInv, RegistryCopies, SameRegistry
  <2>5. RegistryTypeOK'
    BY <1>1, <1>3, <2>1, <2>2 DEF RegistryInv, RegistryTypeOK, RegistryPCs
  <2>6. RegistryPass'
    BY <1>3, <2>2 DEF RegistryPass
  <2> QED BY <1>1, <2>4, <2>5, <2>6 DEF RegistryInv, PolicyFromCache, PolicyOf
<1> QED BY <1>2, <1>3 DEF RegistryGet

(* A pass ends without a current copy. *)
LEMMA RegistryReturnStep ==
    ASSUME RegistryInv, NEW again \in BOOLEAN, RegistryReturn(again),
           registry' \in Registry \cup {NoRegistry},
           \/ registryCurrent' = {}
           \/ /\ registry' = registry
              /\ registryCurrent' = registryCurrent \ {"worker"},
           discoveryConfig' \in Scopes \cup {DefaultScope},
           UNCHANGED config
    PROVE  RegistryInv'
BY DEF RegistryReturn, RegistryIdle, RegistryInv, RegistryTypeOK, RegistryCopies,
       RegistryPass, PolicyFromCache, PolicyOf, RegistryPCs

LEMMA RegistryRemoveStep ==
    ASSUME RegistryInv, RegistryRemoveFinalizer
    PROVE  RegistryInv' /\ registry.deleting /\ registry' = NoRegistry
<1>1. /\ registryCurrent' = {}
      /\ RegistryReturn(FALSE)
      /\ registry' = NoRegistry
      /\ registryPC = "remove"
      /\ "worker" \in registryCurrent
      /\ UNCHANGED <<config, discoveryConfig>>
  BY DEF RegistryRemoveFinalizer, clusterVars
<1>2. registry.deleting
  BY <1>1 DEF RegistryInv, RegistryCopies, RegistryPass, SameRegistry
<1>3. discoveryConfig' \in Scopes \cup {DefaultScope}
  BY <1>1 DEF RegistryInv, RegistryTypeOK
<1> QED BY <1>1, <1>2, <1>3, RegistryReturnStep

(* What an accepted Update or Status().Update of the controller changes. *)
OnlyOurs ==
    /\ registry \in Registry
    /\ registry' \in Registry
    /\ registry'.policy = registry.policy
    /\ registry'.scope = registry.scope
    /\ registry'.deleting = registry.deleting
    /\ registry.finalizer => registry'.finalizer

(* The whole object is written back, and nothing but the finalizer changes. *)
LEMMA RegistryAddStep ==
    ASSUME RegistryInv, RegistryAddFinalizer
    PROVE  RegistryInv' /\ OnlyOurs
<1>1. /\ registryPC = "add"
      /\ "worker" \in registryCurrent
      /\ registry' = [reg EXCEPT !.finalizer = TRUE, !.status = registry.status]
      /\ reg' = registry'
      /\ registryCurrent' = {"worker"}
      /\ registryPC' = "list"
      /\ UNCHANGED <<config, registryCache, stale, registryQueued,
                     registryDelayed, discoveryConfig>>
  BY DEF RegistryAddFinalizer, clusterVars
<1>2. /\ reg \in Registry
      /\ registry \in Registry
      /\ SameRegistry(reg, registry)
  BY <1>1 DEF RegistryInv, RegistryTypeOK, RegistryCopies, RegistryPass,
              SameRegistry
<1>3. /\ registry' \in Registry
      /\ registry'.finalizer = TRUE
      /\ registry'.policy = reg.policy
      /\ registry'.scope = reg.scope
      /\ registry'.deleting = reg.deleting
  BY <1>1, <1>2 DEF Registry
<1>4. OnlyOurs
  BY <1>2, <1>3 DEF OnlyOurs, SameRegistry
<1>5. registry' # NoRegistry
  BY <1>3, RegistryIsNotNoRegistry
<1>6. RegistryTypeOK'
  BY <1>1, <1>3 DEF RegistryInv, RegistryTypeOK, RegistryPCs
<1>7. RegistryCopies' /\ RegistryPass' /\ PolicyFromCache'
  BY <1>1, <1>3, <1>5 DEF RegistryInv, RegistryCopies, RegistryPass, SameRegistry,
                          PolicyFromCache, PolicyOf
<1> QED BY <1>4, <1>6, <1>7 DEF RegistryInv

LEMMA RegistryListStep ==
    ASSUME RegistryInv, RegistryList
    PROVE  RegistryInv'
<1>1. /\ registryPC = "list"
      /\ registryPC' = "prune"
      /\ reg' = [reg EXCEPT !.status = CountAgents]
      /\ stale' \in SUBSET Keys
      /\ UNCHANGED <<config, registry, registryCache, registryCurrent,
                     registryQueued, registryDelayed, discoveryConfig>>
  BY DEF RegistryList, clusterVars
<1>2. reg \in Registry
  BY <1>1 DEF RegistryInv, RegistryTypeOK, RegistryPass
<1>3. /\ reg' \in Registry
      /\ reg'.policy = reg.policy
      /\ reg'.scope = reg.scope
      /\ reg'.deleting = reg.deleting
      /\ reg'.finalizer = reg.finalizer
  BY <1>1, <1>2, CountAgentsType DEF Registry
<1>4. RegistryTypeOK'
  BY <1>1, <1>3 DEF RegistryInv, RegistryTypeOK, RegistryPCs
<1>5. reg' # NoRegistry
  BY <1>3, RegistryIsNotNoRegistry
<1>6. RegistryCopies' /\ RegistryPass' /\ PolicyFromCache'
  BY <1>1, <1>3, <1>5 DEF RegistryInv, RegistryCopies, RegistryPass, SameRegistry,
                          PolicyFromCache, PolicyOf
<1> QED BY <1>4, <1>6 DEF RegistryInv

(* The loop over the agents touches nothing of the registry. *)
LEMMA RegistryPruneStep ==
    ASSUME RegistryInv, NEW k \in Keys, Prune(k) \/ PruneFails(k)
    PROVE  RegistryInv'
<1>1. /\ stale' = stale \ {k}
      /\ UNCHANGED <<config, registry, registryCache, registryCurrent, registryPC,
                     reg, registryQueued, registryDelayed, discoveryConfig>>
  BY DEF Prune, PruneFails, worldVars, clusterVars
<1> QED
  BY <1>1 DEF RegistryInv, RegistryTypeOK, RegistryCopies, RegistryPass,
              SameRegistry, PolicyFromCache, PolicyOf

LEMMA RegistryWriteStatusStep ==
    ASSUME RegistryInv, RegistryWriteStatus
    PROVE  RegistryInv' /\ OnlyOurs
<1>1. /\ registryPC = "prune"
      /\ registryPC' = "push"
      /\ "worker" \in registryCurrent
      /\ registry' = [registry EXCEPT !.status = reg.status]
      /\ \/ registryCurrent' = {}
         \/ /\ registry' = registry
            /\ registryCurrent' = registryCurrent \ {"worker"}
      /\ UNCHANGED <<config, registryCache, reg, stale, registryQueued,
                     registryDelayed, discoveryConfig>>
  BY DEF RegistryWriteStatus, clusterVars
<1>2. reg \in Registry /\ reg # NoRegistry /\ registry \in Registry
  BY <1>1 DEF RegistryInv, RegistryTypeOK, RegistryCopies, RegistryPass,
              SameRegistry
<1>3. OnlyOurs
  BY <1>1, <1>2 DEF OnlyOurs, Registry
<1>4. RegistryTypeOK'
  BY <1>1, <1>2, <1>3 DEF RegistryInv, RegistryTypeOK, RegistryPCs, OnlyOurs
<1>5. RegistryCopies' /\ RegistryPass' /\ PolicyFromCache'
  BY <1>1, <1>2 DEF RegistryInv, RegistryCopies, RegistryPass, SameRegistry,
                    PolicyFromCache, PolicyOf
<1> QED BY <1>3, <1>4, <1>5 DEF RegistryInv

LEMMA PushConfigStep ==
    ASSUME RegistryInv, PushConfig
    PROVE  RegistryInv'
<1>1. /\ registryPC = "push"
      /\ discoveryConfig' = reg.scope
      /\ RegistryReturn(TRUE)
      /\ UNCHANGED <<config, registry, registryCurrent>>
  BY DEF PushConfig, clusterVars
<1>2. /\ reg \in Registry
      /\ registry \in Registry \cup {NoRegistry}
      /\ registryCurrent' = registryCurrent \ {"worker"}
  BY <1>1 DEF RegistryInv, RegistryTypeOK, RegistryCopies, RegistryPass
<1>3. reg.scope \in Scopes
  BY <1>2 DEF Registry
<1> QED BY <1>1, <1>2, <1>3, RegistryReturnStep

(* Conflicts and failed writes leave the stored object alone. *)
LEMMA RegistryGivesUpStep ==
    ASSUME RegistryInv, RegistryConflict \/ RegistryWriteFails
    PROVE  RegistryInv' /\ UNCHANGED registry
<1>1. /\ RegistryReturn(TRUE)
      /\ registryCurrent' = registryCurrent \ {"worker"}
      /\ UNCHANGED <<config, registry, discoveryConfig>>
  BY DEF RegistryConflict, RegistryWriteFails, clusterVars
<1>2. /\ registry \in Registry \cup {NoRegistry}
      /\ discoveryConfig \in Scopes \cup {DefaultScope}
  BY DEF RegistryInv, RegistryTypeOK
<1> QED BY <1>1, <1>2, RegistryReturnStep

(* A write whose answer is lost changes what it would have changed. *)
LEMMA RegistryAnswerLostStep ==
    ASSUME RegistryInv, RegistryWriteAnswerLost
    PROVE  /\ RegistryInv'
           /\ \/ registry.deleting /\ registry' = NoRegistry
              \/ OnlyOurs
<1>1. /\ "worker" \in registryCurrent
      /\ registryPC \in {"remove", "add", "prune"}
      /\ \/ registryCurrent' = {}
         \/ /\ registry' = registry
            /\ registryCurrent' = registryCurrent \ {"worker"}
      /\ RegistryReturn(TRUE)
      /\ UNCHANGED <<config, discoveryConfig>>
  BY DEF RegistryWriteAnswerLost, clusterVars
<1>2. /\ reg \in Registry
      /\ registry \in Registry
      /\ SameRegistry(reg, registry)
      /\ discoveryConfig' \in Scopes \cup {DefaultScope}
  BY <1>1 DEF RegistryInv, RegistryTypeOK, RegistryCopies, RegistryPass,
              SameRegistry
<1>3. CASE registryPC = "remove" /\ registry' = NoRegistry
  <2>1. registry.deleting
    BY <1>2, <1>3 DEF RegistryInv, RegistryPass, SameRegistry
  <2> QED BY <1>1, <1>2, <1>3, <2>1, RegistryReturnStep
<1>4. CASE registry' = [reg EXCEPT !.finalizer = TRUE, !.status = registry.status]
  <2>1. /\ registry' \in Registry
        /\ registry'.finalizer = TRUE
        /\ registry'.policy = reg.policy
        /\ registry'.scope = reg.scope
        /\ registry'.deleting = reg.deleting
    BY <1>2, <1>4 DEF Registry
  <2>2. OnlyOurs
    BY <1>2, <2>1 DEF OnlyOurs, SameRegistry
  <2> QED BY <1>1, <1>2, <2>1, <2>2, RegistryReturnStep
<1>5. CASE registry' = [registry EXCEPT !.status = reg.status]
  <2>1. OnlyOurs
    BY <1>2, <1>5 DEF OnlyOurs, Registry
  <2> QED BY <1>1, <1>2, <2>1, RegistryReturnStep DEF OnlyOurs
<1> QED BY <1>3, <1>4, <1>5 DEF RegistryWriteAnswerLost

(* All of Reconcile: what it does to the stored registry. *)
LEMMA ReconcileRegistryStep ==
    ASSUME RegistryInv, ReconcileRegistry
    PROVE  /\ RegistryInv'
           /\ \/ UNCHANGED registry
              \/ registry.deleting /\ registry' = NoRegistry
              \/ OnlyOurs
<1>1. CASE RegistryGet
  BY <1>1, RegistryGetStep DEF RegistryGet
<1>2. CASE RegistryRemoveFinalizer
  BY <1>2, RegistryRemoveStep
<1>3. CASE RegistryAddFinalizer
  BY <1>3, RegistryAddStep
<1>4. CASE RegistryList
  BY <1>4, RegistryListStep DEF RegistryList
<1>5. CASE \E k \in Keys : Prune(k)
  BY <1>5, RegistryPruneStep DEF Prune
<1>6. CASE RegistryWriteStatus
  BY <1>6, RegistryWriteStatusStep
<1>7. CASE PushConfig
  BY <1>7, PushConfigStep DEF PushConfig
<1>8. CASE RegistryConflict
  BY <1>8, RegistryGivesUpStep
<1> QED
  BY <1>1, <1>2, <1>3, <1>4, <1>5, <1>6, <1>7, <1>8 DEF ReconcileRegistry

(* Whoever besides the cache and the worker still holds a current copy after *)
(* a step of Reconcile held it before, and the stored object is the same.    *)
LEMMA OthersHoldOn ==
    ASSUME RegistryInv, ReconcileRegistry, NEW h,
           h \notin {"cache", "worker"}, h \in registryCurrent'
    PROVE  h \in registryCurrent /\ UNCHANGED registry
BY DEF ReconcileRegistry, RegistryGet, RegistryRemoveFinalizer,
       RegistryAddFinalizer, RegistryList, Prune, RegistryWriteStatus, PushConfig,
       RegistryConflict

=============================================================================
