--------------------------- MODULE AgentController ---------------------------
(***************************************************************************)
(* The A2AAgent controller: its work queue and the one worker that runs    *)
(* Reconcile (controllers/a2aagent_controller.go, cmd/manager/main.go).    *)
(* Between two steps of the worker anything else may happen: each call to  *)
(* the API server, each cached read and the HTTP probe is a step.          *)
(*                                                                         *)
(*   idle -> remove                      deletion, lines 58-70             *)
(*   idle -> [add] -> conflict -> policy -> [probe] -> write   the rest    *)
(***************************************************************************)
EXTENDS ClusterAPI

CONSTANTS
    NoKey,       \* the worker has no request
    MaxFaults    \* bound on failed API calls and process restarts

ASSUME FaultsAssumption == MaxFaults \in Nat /\ NoKey \notin Keys

VARIABLES
    pc,               \* where Reconcile is
    req,              \* the key it was called for
    agent,            \* its in-memory object
    registryConfig,   \* the policy it read
    startedAt,        \* the clock before its health check
    requeue,          \* whether a successful pass asks to be called again
    queue,            \* keys in the work queue
    delayed,          \* keys with a running RequeueAfter or back-off timer
    faults            \* failed API calls and restarts so far

workerVars == <<pc, req, agent, registryConfig, startedAt, requeue>>

queueVars == <<queue, delayed>>

controllerVars == <<workerVars, queueVars, faults>>

PCs == {"idle", "remove", "add", "conflict", "policy", "probe", "write"}

ControllerTypeOK ==
    /\ pc \in PCs
    /\ req \in Keys \cup {NoKey}
    /\ agent \in Agent \cup {NoAgent}
    /\ registryConfig \in Configs \cup {NoRegistry}
    /\ startedAt \in Nat
    /\ requeue \in BOOLEAN
    /\ queue \in SUBSET Keys
    /\ delayed \in SUBSET Keys
    /\ faults \in 0..MaxFaults

(* The initial list delivers a create event for every object. *)
ControllerInit ==
    /\ pc = "idle"
    /\ req = NoKey
    /\ agent = NoAgent
    /\ registryConfig = NoRegistry
    /\ startedAt = 0
    /\ requeue = FALSE
    /\ queue = {k \in Keys : agents[k] # NoAgent}
    /\ delayed = {}
    /\ faults = 0

-----------------------------------------------------------------------------
(* Events and timers.                                                      *)

(* GenerationChangedPredicate: a status or finalizer write does not enqueue. *)
Sync(k) ==
    /\ Deliver(k)
    /\ queue' = IF k \in notify THEN queue \cup {k} ELSE queue
    /\ UNCHANGED <<worldVars, workerVars, delayed, faults>>

TimerFires(k) ==
    /\ k \in delayed
    /\ delayed' = delayed \ {k}
    /\ queue' = queue \cup {k}
    /\ UNCHANGED <<clusterVars, workerVars, faults>>

-----------------------------------------------------------------------------
(* Reconcile.                                                              *)

WorkerIdle ==
    /\ pc' = "idle"
    /\ req' = NoKey
    /\ agent' = NoAgent
    /\ registryConfig' = NoRegistry
    /\ startedAt' = 0
    /\ requeue' = FALSE

(* return ctrl.Result{RequeueAfter: ...}, nil, or ctrl.Result{}, nil *)
Return(again) ==
    /\ WorkerIdle
    /\ delayed' = IF again THEN delayed \cup {req} ELSE delayed
    /\ UNCHANGED queue

AfterGetIgnoresDeletion(a) == IF a.finalizer THEN "conflict" ELSE "add"

(* Where Reconcile goes with the object that Get returned. *)
AfterGet(a) ==
    IF a.deleting THEN IF a.finalizer THEN "remove" ELSE "idle"
                  ELSE IF a.finalizer THEN "conflict" ELSE "add"

(* The worker takes k from the queue and reads it from the cache.  There is *)
(* nothing to do for an object that is gone, or whose finalizer is gone.    *)
ReconcileGet(k) ==
    /\ pc = "idle"
    /\ k \in queue
    /\ queue' = queue \ {k}
    /\ IF cache[k] = NoAgent \/ AfterGet(cache[k]) = "idle"
       THEN UNCHANGED <<pc, req, agent, current>>
       ELSE /\ pc' = AfterGet(cache[k])
            /\ req' = k
            /\ agent' = cache[k]
            /\ current' = IF IsCurrent(k, "cache")
                          THEN [current EXCEPT ![k] = @ \cup {"worker"}]
                          ELSE current
    /\ UNCHANGED <<agents, cache, notify, worldVars, registryConfig,
                   startedAt, requeue, delayed, faults>>

(* RemoveFinalizer and Update: the object was only waiting for this. *)
RemoveFinalizer ==
    /\ pc = "remove"
    /\ IsCurrent(req, "worker")
    /\ Remove(req)
    /\ Return(FALSE)
    /\ UNCHANGED <<cache, worldVars, faults>>

(* AddFinalizer and Update, which does not write the status; the pass goes *)
(* on with the object that the API server returns, defaulted or not.       *)
AddFinalizer ==
    /\ pc = "add"
    /\ IsCurrent(req, "worker")
    /\ agent' \in Finalized(agents[req])
    /\ Write(req, agent', "worker", {"worker"})
    /\ Announce(req, agent')
    /\ pc' = "conflict"
    /\ UNCHANGED <<cache, worldVars, req, registryConfig, startedAt,
                   requeue, queueVars, faults>>

checkURLConflictWithSelf(k, a) ==
    \E o \in Keys \cup {k} : cache[o] # NoAgent /\ cache[o].spec.url = a.spec.url

(* Any other agent in the cached list, whatever its state. *)
checkURLConflict(k, a) ==
    \E o \in Keys \ {k} : cache[o] # NoAgent /\ cache[o].spec.url = a.spec.url

(* RegisteredAt, the URL conflict and the disabled agent. *)
CheckConflict ==
    LET st == Register(agent.status) IN
    /\ pc = "conflict"
    /\ \/ /\ checkURLConflict(req, agent)
          /\ agent' = [agent EXCEPT !.status = URLConflictStatus(st)]
          /\ pc' = "write"
          /\ requeue' = TRUE
          /\ UNCHANGED <<req, current, delayed>>
       \/ /\ ~checkURLConflict(req, agent)
          /\ ~agent.spec.enabled
          /\ st.phase # "Pending"
          /\ agent' = [agent EXCEPT !.status = DisabledStatus(st)]
          /\ pc' = "write"
          /\ UNCHANGED <<req, requeue, current, delayed>>
       \/ /\ ~checkURLConflict(req, agent)
          /\ ~agent.spec.enabled
          /\ st.phase = "Pending"
          /\ pc' = "idle"
          /\ req' = NoKey
          /\ agent' = NoAgent
          /\ current' = [current EXCEPT ![req] = @ \ {"worker"}]
          /\ UNCHANGED <<requeue, delayed>>
       \/ /\ ~checkURLConflict(req, agent)
          /\ agent.spec.enabled
          /\ agent' = [agent EXCEPT !.status = st]
          /\ pc' = "policy"
          /\ UNCHANGED <<req, requeue, current, delayed>>
    /\ UNCHANGED <<agents, cache, notify, worldVars, registryConfig,
                   startedAt, queue, faults>>

NeedsApproval(c) == c # NoRegistry /\ c.requireApproval

NeedsHealthCheck(c) == c # NoRegistry => c.requireHealthCheck

AdmittedOnceListed(c, st) ==
    NeedsApproval(c) => st.conditions["Approved"] # "Absent"

(* The approval check lets the agent through. *)
Admitted(c, st) == NeedsApproval(c) => isApproved(st)

(* The status after the approval check lets the agent through. *)
AdmittedStatus(c, st) == IF NeedsApproval(c) THEN ApprovedStatus(st) ELSE st

(* Read the policy; the approval check, and the health check that is off. *)
ApplyPolicy ==
    LET st == agent.status
        go == AdmittedStatus(config, st)
    IN
    /\ pc = "policy"
    /\ registryConfig' = config
    /\ requeue' = TRUE
    /\ \/ /\ ~Admitted(config, st)
          /\ agent' = [agent EXCEPT !.status = PendingApprovalStatus(st)]
          /\ pc' = "write"
          /\ UNCHANGED startedAt
       \/ /\ Admitted(config, st)
          /\ NeedsHealthCheck(config)
          /\ agent' = [agent EXCEPT !.status = go]
          /\ startedAt' = now
          /\ pc' = "probe"
       \/ /\ Admitted(config, st)
          /\ ~NeedsHealthCheck(config)
          /\ agent' = [agent EXCEPT !.status =
                           ObservedStatus(HealthyStatus(go, now), agent.gen)]
          /\ pc' = "write"
          /\ UNCHANGED startedAt
    /\ UNCHANGED <<clusterVars, req, queueVars, faults>>

(* What the health checker gets from the endpoint: a card, or NoCard. *)
CheckWithAuth(url) == serving[url]

(* The status after a health check that returned that card. *)
CheckedStatus(a, card) ==
    IF card = NoCard THEN FailedStatus(a.status, a.spec)
    ELSE LET st == HealthyStatus(a.status, startedAt) IN
         IF /\ registryConfig # NoRegistry
            /\ registryConfig.requireCardMatch
            /\ ~checkCardMatch(a.spec, card)
         THEN CardMismatchStatus(st)
         ELSE st

(* The health check, and the end of the in-memory pass. *)
Probe ==
    /\ pc = "probe"
    /\ LET st == CheckedStatus(agent, CheckWithAuth(agent.spec.url)) IN
       agent' = [agent EXCEPT !.status = ObservedStatus(st, agent.gen)]
    /\ pc' = "write"
    /\ UNCHANGED <<clusterVars, req, registryConfig, startedAt, requeue,
                   queueVars, faults>>

WriteStatusUnchecked ==
    /\ pc = "write"
    /\ agents[req] # NoAgent
    /\ Write(req, [agents[req] EXCEPT !.status = agent.status], "worker", {})
    /\ Return(requeue)
    /\ UNCHANGED <<cache, notify, worldVars, faults>>


(* Status().Update: only the status of the stored object changes. *)
WriteStatus ==
    /\ pc = "write"
    /\ IsCurrent(req, "worker")
    /\ Write(req, [agents[req] EXCEPT !.status = agent.status], "worker", {})
    /\ Return(requeue)
    /\ UNCHANGED <<cache, notify, worldVars, faults>>

WriteConflictSwallowed ==
    /\ pc \in {"remove", "add", "write"}
    /\ ~IsCurrent(req, "worker")
    /\ Return(FALSE)
    /\ UNCHANGED <<clusterVars, faults>>

(* A write with a stale resourceVersion: conflict or not found.  The error *)
(* is returned, and the key comes back after its back-off.                  *)
WriteConflict ==
    /\ pc \in {"remove", "add", "write"}
    /\ ~IsCurrent(req, "worker")
    /\ Return(TRUE)
    /\ UNCHANGED <<clusterVars, faults>>

FaultHappens ==
    /\ faults < MaxFaults
    /\ faults' = faults + 1

(* The request never reached the API server, or admission refused it. *)
WriteFails ==
    /\ FaultHappens
    /\ pc \in {"remove", "add", "write"}
    /\ IsCurrent(req, "worker")
    /\ current' = [current EXCEPT ![req] = @ \ {"worker"}]
    /\ Return(TRUE)
    /\ UNCHANGED <<agents, cache, notify, worldVars>>

(* The request was carried out, and the answer was lost. *)
WriteAnswerLost ==
    /\ FaultHappens
    /\ pc \in {"remove", "add", "write"}
    /\ IsCurrent(req, "worker")
    /\ \/ pc = "remove" /\ Remove(req)
       \/ /\ pc = "add"
          /\ \E a \in Finalized(agents[req]) :
                 Write(req, a, "worker", {}) /\ Announce(req, a)
       \/ /\ pc = "write"
          /\ Write(req, [agents[req] EXCEPT !.status = agent.status],
                   "worker", {})
          /\ UNCHANGED notify
    /\ Return(TRUE)
    /\ UNCHANGED <<cache, worldVars>>

Reconcile ==
    \/ RemoveFinalizer
    \/ AddFinalizer
    \/ CheckConflict
    \/ ApplyPolicy
    \/ Probe
    \/ WriteStatus
    \/ WriteConflict

(* The process stops and starts again: everything in memory is lost. *)
ControllerRestart ==
    /\ FaultHappens
    /\ Relist
    /\ WorkerIdle
    /\ queue' = {k \in Keys : agents[k] # NoAgent}
    /\ delayed' = {}
    /\ UNCHANGED worldVars

=============================================================================
