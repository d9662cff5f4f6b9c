----------------------------- MODULE ClusterAPI ------------------------------
(***************************************************************************)
(* The Kubernetes API server as the registry sees it: the stored A2AAgent  *)
(* objects, the informer cache the manager's client reads from, and the    *)
(* users who write agents, the A2ARegistry and the agents' endpoints.      *)
(*                                                                         *)
(* The API server is not part of the repository; it is modelled from the   *)
(* calls the controllers and the HTTP handlers make:                       *)
(*  - Get and List read the cache, which may lag behind the store;         *)
(*  - Update and Status().Update carry the resourceVersion of the copy     *)
(*    they were given and fail with a conflict unless it is still the      *)
(*    stored one.  Only equality of versions matters, so a version is the  *)
(*    set of parties that hold a copy of the stored one;                   *)
(*  - a spec write and a deletion increment metadata.generation, a status  *)
(*    write and a finalizer change do not;                                 *)
(*  - an object with a finalizer is marked for deletion and removed when   *)
(*    the finalizer is.                                                    *)
(***************************************************************************)
EXTENDS AgentStatus

CONSTANTS
    Keys,         \* namespaced names an agent may have
    NoAgent,      \* "there is no such object"
    Policies,     \* the registration policies users may configure
    NoRegistry,   \* "there is no A2ARegistry"
    NoCard,       \* the endpoint does not serve a card
    Webhooks,     \* the manager may run with its webhooks (ENABLE_WEBHOOKS)
    MaxOps,       \* bound on the moves of users and endpoints
    MaxTime       \* bound on the clock

ASSUME BoundsAssumption == MaxOps \in Nat /\ MaxTime \in Nat

(* What the registration policy of the A2ARegistry says. *)
Configs == [requireApproval    : BOOLEAN,
            requireHealthCheck : BOOLEAN,
            requireCardMatch   : BOOLEAN]

ASSUME PoliciesAssumption == Policies \subseteq Configs

Agent == [gen       : Nat,
          deleting  : BOOLEAN,
          finalizer : BOOLEAN,
          spec      : Specs,
          status    : Status]

ASSUME SentinelAssumption ==
    NoAgent \notin Agent /\ NoRegistry \notin Configs /\ NoCard \notin Cards

(* Those that may hold a copy of an object and write it back, and the cache. *)
Holders == {"cache", "worker", "approver"}

VARIABLES
    agents,    \* the stored object of each key, or NoAgent
    cache,     \* the informer's copy of it
    current,   \* the holders whose copy has the stored resourceVersion
    notify,    \* keys with an undelivered watch event that the predicate
               \* passes: created, removed, or generation changed
    config,    \* spec.registration of the A2ARegistry (Items[0]), or NoRegistry
    serving,   \* the card each endpoint serves, or NoCard
    now,       \* the clock
    ops        \* moves of users and endpoints so far

storeVars == <<agents, cache, current, notify>>

worldVars == <<config, serving, now, ops>>

clusterVars == <<agents, cache, current, notify, config, serving, now, ops>>

ClusterTypeOK ==
    /\ agents \in [Keys -> Agent \cup {NoAgent}]
    /\ cache \in [Keys -> Agent \cup {NoAgent}]
    /\ current \in [Keys -> SUBSET Holders]
    /\ notify \in SUBSET Keys
    /\ config \in Configs \cup {NoRegistry}
    /\ serving \in [URLs -> Cards \cup {NoCard}]
    /\ now \in Nat
    /\ ops \in 0..MaxOps

NewAgent(spec) == [gen       |-> 1,
                   deleting  |-> FALSE,
                   finalizer |-> FALSE,
                   spec      |-> spec,
                   status    |-> EmptyStatus]

(* The manager starts with a synced cache, over agents users created before. *)
ClusterInit ==
    /\ agents \in [Keys -> {NewAgent(s) : s \in Specs} \cup {NoAgent}]
    /\ cache = agents
    /\ current = [k \in Keys |-> {"cache"}]
    /\ notify = {}
    /\ config \in Policies \cup {NoRegistry}
    /\ serving \in [URLs -> Cards \cup {NoCard}]
    /\ now = 0
    /\ ops = 0

-----------------------------------------------------------------------------
(* Requests to the API server.                                             *)

(* by holds a copy whose resourceVersion is the stored one. *)
IsCurrent(k, by) == by \in current[k]

(***************************************************************************)
(* An accepted Update or Status().Update by that holder.  keep is {by}     *)
(* when the holder goes on with the returned object, {} when it is done.   *)
(* A request that changes nothing leaves the resourceVersion alone; one    *)
(* whose only change is a timestamp the model leaves out may do either.    *)
(***************************************************************************)
Write(k, object, by, keep) ==
    /\ agents' = [agents EXCEPT ![k] = object]
    /\ \/ current' = [current EXCEPT ![k] = keep]
       \/ /\ object = agents[k]
          /\ current' = [current EXCEPT ![k] = (@ \ {by}) \cup keep]

(* The last write of an object under deletion: it is gone. *)
Remove(k) ==
    /\ agents' = [agents EXCEPT ![k] = NoAgent]
    /\ current' = [current EXCEPT ![k] = {}]
    /\ notify' = notify \cup {k}

(***************************************************************************)
(* What the agents' defaulting webhook makes of a spec it is shown.  It    *)
(* also fills in fields the model leaves out, so that a spec that looks    *)
(* the same may be another one.  A refusal is a request that fails; when   *)
(* the webhooks refuse or change a spec is the subject of Admission.       *)
(***************************************************************************)
WebhookDefault(spec) ==
    [spec EXCEPT !.enabled = TRUE, !.threshold = IF @ = 0 THEN 3 ELSE @]

ASSUME WebhooksAssumption ==
    /\ Webhooks \in BOOLEAN
    /\ Webhooks => \A s \in Specs : WebhookDefault(s) \in Specs

(* Both increment metadata.generation. *)
MarkDeleted(a) == [a EXCEPT !.deleting = TRUE, !.gen = @ + 1]

Edited(a, spec) == [a EXCEPT !.spec = spec, !.gen = @ + 1]

(* What an Update that adds the finalizer to a may store.  Specs that were *)
(* written while the webhooks were off may still be defaulted.             *)
Finalized(a) ==
    LET written == {a} \cup IF Webhooks THEN {Edited(a, WebhookDefault(a.spec))}
                                        ELSE {}
    IN {[b EXCEPT !.finalizer = TRUE] : b \in written}

(* The event of an Update passes the predicate if the generation changed. *)
Announce(k, object) ==
    notify' = IF object.gen # agents[k].gen THEN notify \cup {k} ELSE notify

(* Delete: mark the object while a finalizer holds it, else remove it. *)
RequestDelete(k) ==
    \/ /\ agents[k].finalizer
       /\ ~agents[k].deleting
       /\ agents' = [agents EXCEPT ![k] = MarkDeleted(@)]
       /\ current' = [current EXCEPT ![k] = {}]
       /\ notify' = notify \cup {k}
    \/ /\ ~agents[k].finalizer
       /\ Remove(k)

(* The informer catches up with the stored object of k. *)
Deliver(k) ==
    /\ ~IsCurrent(k, "cache")
    /\ cache' = [cache EXCEPT ![k] = agents[k]]
    /\ current' = [current EXCEPT ![k] = @ \cup {"cache"}]
    /\ notify' = notify \ {k}
    /\ UNCHANGED agents

(* A new process lists everything before it starts its workers. *)
Relist ==
    /\ cache' = agents
    /\ current' = [k \in Keys |-> {"cache"}]
    /\ notify' = {}
    /\ UNCHANGED agents

-----------------------------------------------------------------------------
(* Users, and the endpoints they run.                                      *)

UserMoves ==
    /\ ops < MaxOps
    /\ ops' = ops + 1

UserCreate(k) ==
    /\ UserMoves
    /\ agents[k] = NoAgent
    /\ \E s \in Specs : agents' = [agents EXCEPT ![k] = NewAgent(s)]
    /\ current' = [current EXCEPT ![k] = {}]
    /\ notify' = notify \cup {k}
    /\ UNCHANGED <<cache, config, serving, now>>

UserEdit(k) ==
    /\ UserMoves
    /\ agents[k] # NoAgent
    /\ \E s \in Specs \ {agents[k].spec} :
           agents' = [agents EXCEPT ![k] = Edited(@, s)]
    /\ current' = [current EXCEPT ![k] = {}]
    /\ notify' = notify \cup {k}
    /\ UNCHANGED <<cache, config, serving, now>>

(* kubectl delete, or DELETE /api/v1/agents/{name}: by name, whatever the  *)
(* version.                                                                *)
UserDelete(k) ==
    /\ UserMoves
    /\ agents[k] # NoAgent
    /\ RequestDelete(k)
    /\ UNCHANGED <<cache, config, serving, now>>

UserConfigure ==
    /\ UserMoves
    /\ config' \in (Policies \cup {NoRegistry}) \ {config}
    /\ UNCHANGED <<storeVars, serving, now>>

EndpointChange(u) ==
    /\ UserMoves
    /\ \E c \in (Cards \cup {NoCard}) \ {serving[u]} :
           serving' = [serving EXCEPT ![u] = c]
    /\ UNCHANGED <<storeVars, config, now>>

Tick ==
    /\ now < MaxTime
    /\ now' = now + 1
    /\ UNCHANGED <<storeVars, config, serving, ops>>

=============================================================================
