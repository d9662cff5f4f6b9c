----------------------------- MODULE AgentSystem -----------------------------
(***************************************************************************)
(* The life of agents: the A2AAgent controller and the approval handler,   *)
(* over the API server that both write to, with users, endpoints, failed   *)
(* API calls and restarts of the manager process.                          *)
(***************************************************************************)
EXTENDS AgentController, Dashboard

vars == <<clusterVars, controllerVars, approval>>

TypeOK ==
    /\ ClusterTypeOK
    /\ ControllerTypeOK
    /\ DashboardTypeOK

Init ==
    /\ ClusterInit
    /\ ControllerInit
    /\ DashboardInit

(* Users and endpoints. *)
Environment ==
    /\ \/ \E k \in Keys : UserCreate(k) \/ UserEdit(k) \/ UserDelete(k)
       \/ UserConfigure
       \/ \E u \in URLs : EndpointChange(u)
       \/ Tick
    /\ UNCHANGED <<controllerVars, approval>>

(* The controller: events, timers and its worker, and what fails in them. *)
Controller ==
    /\ \/ \E k \in Keys : Sync(k) \/ TimerFires(k) \/ ReconcileGet(k)
       \/ Reconcile
       \/ WriteFails
       \/ WriteAnswerLost
    /\ UNCHANGED approval

Approver ==
    /\ \/ \E k \in Keys : ApproveGet(k)
       \/ ApproveWrite
       \/ ApproveConflict
    /\ UNCHANGED controllerVars

(* The manager process is replaced, the approval handler with it. *)
Restart == ControllerRestart /\ approval' = NoApproval

Next == Environment \/ Controller \/ Approver \/ Restart

Spec == Init /\ [][Next]_vars

(***************************************************************************)
(* The watch delivers, timers expire and the worker runs.  The work queue  *)
(* is first in first out, so a queued key is not passed over forever:      *)
(* strong fairness for each key, since the other keys make the worker busy *)
(* in between.  Users, faults and approvals owe nothing.                   *)
(***************************************************************************)
Fairness ==
    /\ \A k \in Keys : /\ WF_vars(Sync(k) /\ UNCHANGED approval)
                       /\ WF_vars(TimerFires(k) /\ UNCHANGED approval)
                       /\ SF_vars(ReconcileGet(k) /\ UNCHANGED approval)
    /\ WF_vars(Reconcile /\ UNCHANGED approval)

FairSpec == Spec /\ Fairness

-----------------------------------------------------------------------------
(* Safety.                                                                 *)

(* What holds of every version of an agent object, wherever it is kept. *)
Sound(a) ==
    LET st == a.status IN
    /\ st.phase = "unset"        <=> st.health = "unset"
    /\ st.phase = "Pending"      <=> st.health = "Unknown"
    /\ st.phase = "Ready"        <=> st.health = "Healthy"
    /\ st.phase = "Ready" => st.failures = 0 /\ st.heartbeat # Never
    /\ st.observedGen <= a.gen
    /\ st.phase # "unset" => a.finalizer /\ st.registered

(* The phase and the health of a stored agent never contradict each other,  *)
(* a Ready agent has no failures and has a heartbeat, and an agent that has *)
(* a phase is registered and protected by the finalizer - although four     *)
(* branches of Reconcile and the approval handler write parts of the status *)
(* from copies of different ages (a2aagent_controller.go, 84-243).          *)
StatusCoherent ==
    \A k \in Keys : agents[k] # NoAgent => Sound(agents[k])

(* The phase of a version whose spec the controller has fully processed. *)
Earned(a) ==
    a.status.observedGen = a.gen =>
        /\ a.status.phase = "Ready" => a.spec.enabled
        /\ a.status.phase = "Unreachable" =>
               /\ a.spec.enabled
               /\ a.status.failures >= failureThreshold(a.spec)

(* A status that claims to describe the current generation does: Ready only *)
(* for an enabled agent, Unreachable only after as many failures as THIS    *)
(* spec's threshold asks for, however spec edits interleave with a health   *)
(* check in flight (a2aagent_controller.go, 164-243).                       *)
ObservedPhaseEarned ==
    \A k \in Keys : agents[k] # NoAgent => Earned(agents[k])

(* A write that is accepted starts from the stored version: the copy of a  *)
(* holder that counts as current has the spec, the generation, the         *)
(* finalizer and the approval of the stored object.                        *)
SameVersion(copy, stored) ==
    /\ stored # NoAgent
    /\ copy.gen = stored.gen
    /\ copy.spec = stored.spec
    /\ copy.deleting = stored.deleting
    /\ copy.finalizer = stored.finalizer
    /\ isApproved(stored.status) => isApproved(copy.status)

CurrentCopies ==
    /\ \A k \in Keys : IsCurrent(k, "cache") => cache[k] = agents[k]
    /\ (pc # "idle" /\ IsCurrent(req, "worker")) => SameVersion(agent, agents[req])
    /\ (approval # NoApproval /\ IsCurrent(approval.key, "approver")) =>
           approval.copy = agents[approval.key]

-----------------------------------------------------------------------------
(***************************************************************************)
(* The inductive invariant behind the properties above and below.  What a  *)
(* writer writes was computed from a copy, several steps earlier, so the   *)
(* facts about stored objects must hold of every copy, and the writer's    *)
(* copy must be tied to the stored object exactly while a write by it      *)
(* would be accepted.                                                      *)
(***************************************************************************)

(* Every kept version is sound, and no heartbeat lies in the future. *)
GoodVersion(a, time) ==
    /\ Sound(a)
    /\ Earned(a)
    /\ a.status.heartbeat <= time

GoodVersions ==
    /\ \A k \in Keys : agents[k] # NoAgent => GoodVersion(agents[k], now)
    /\ \A k \in Keys : cache[k] # NoAgent => GoodVersion(cache[k], now)
    /\ approval # NoApproval => GoodVersion(approval.copy, now)
    /\ pc # "idle" => GoodVersion(agent, now)

(* What each step of Reconcile knows of its object. *)
WorkerState ==
    /\ pc = "idle" => req = NoKey
    /\ pc # "idle" => req \in Keys /\ agent # NoAgent
    /\ pc \in {"conflict", "policy", "probe", "write"} => agent.finalizer
    /\ pc \in {"policy", "probe", "write"} => agent.status.registered
    /\ pc \in {"policy", "probe"} => agent.spec.enabled
    /\ pc = "probe" => /\ agent.status.heartbeat <= startedAt
                      /\ startedAt <= now
                      /\ Admitted(registryConfig, agent.status)
    /\ pc = "write" /\ agent.status.phase = "Ready" =>
           Admitted(registryConfig, agent.status)

(* Only the worker and the handler in the middle of a request hold a copy. *)
HoldersBusy ==
    /\ \A k \in Keys : IsCurrent(k, "worker") => pc # "idle" /\ req = k
    /\ \A k \in Keys : IsCurrent(k, "approver") =>
                           approval # NoApproval /\ approval.key = k

(* How far the in-memory status may be ahead of the version it came from. *)
OneStepAhead(new, old) ==
    /\ new.heartbeat >= old.heartbeat
    /\ new.failures \in {0, old.failures, old.failures + 1}

WorkerAhead ==
    pc # "idle" /\ IsCurrent(req, "worker") =>
        /\ isApproved(agent.status) => isApproved(agents[req].status)
        /\ OneStepAhead(agent.status, agents[req].status)
        /\ pc # "write" =>
              /\ agent.status.heartbeat = agents[req].status.heartbeat
              /\ agent.status.failures = agents[req].status.failures

IndInv ==
    /\ TypeOK
    /\ GoodVersions
    /\ WorkerState
    /\ HoldersBusy
    /\ CurrentCopies
    /\ WorkerAhead

-----------------------------------------------------------------------------
(* Action properties.                                                      *)

(* An operator's approval is never lost while the object lives: neither a  *)
(* reconciliation that began before it and writes after it, nor a retry,   *)
(* nor a restart puts the agent back to waiting (a2aagent_controller.go,   *)
(* 123-143; dashboard.go, 26-66).                                          *)
KeepsApproval(k) ==
    agents[k] # NoAgent /\ agents'[k] # NoAgent /\ isApproved(agents[k].status)
        => isApproved(agents'[k].status)

ApprovalPersists == [][\A k \in Keys : KeepsApproval(k)]_vars

(* No agent becomes Ready unapproved under a policy that asks for approval, *)
(* the policy being the one this pass read (a2aagent_controller.go,        *)
(* 118-143).                                                               *)
BecomesReady(k) ==
    /\ agents'[k] # NoAgent
    /\ agents'[k].status.phase = "Ready"
    /\ agents[k] # NoAgent => agents[k].status.phase # "Ready"

ApprovalGate ==
    [][\A k \in Keys : BecomesReady(k) /\ NeedsApproval(registryConfig)
           => agents[k] # NoAgent /\ isApproved(agents[k].status)]_vars

(* The heartbeat of a living object never moves back, and the failure count *)
(* moves only up by one or down to zero: no reconciliation overwrites what  *)
(* a later one recorded (a2aagent_controller.go, 167-221).                  *)
KeepsProgress(k) ==
    agents[k] # NoAgent /\ agents'[k] # NoAgent =>
        OneStepAhead(agents'[k].status, agents[k].status)

ProgressMonotone == [][\A k \in Keys : KeepsProgress(k)]_vars

-----------------------------------------------------------------------------
(* Liveness.                                                               *)

(* A deleted agent goes away: whatever failed, whichever events the        *)
(* generation predicate dropped, the finalizer is removed                  *)
(* (a2aagent_controller.go, 57-70).  A refusal by the webhooks counts as a *)
(* failed call; agents that they would refuse for good are in Admission.   *)
DeletionCompletes ==
    \A k \in Keys :
        (agents[k] # NoAgent /\ agents[k].deleting) ~> (agents[k] = NoAgent)

Conflicting(k) ==
    \E o \in Keys \ {k} : /\ agents[o] # NoAgent
                          /\ agents[o].spec.url = agents[k].spec.url

(* The phase that the spec, the other agents, the policy, the approval and  *)
(* the endpoint call for.                                                   *)
CalledFor(k) ==
    LET a == agents[k]
        card == serving[a.spec.url]
        mismatch == /\ config # NoRegistry
                    /\ config.requireCardMatch
                    /\ ~checkCardMatch(a.spec, card)
    IN IF a = NoAgent \/ a.deleting THEN "absent"
       ELSE IF ~a.spec.enabled THEN IF Conflicting(k) THEN "either" ELSE "Pending"
       ELSE IF Conflicting(k) THEN "Error"
       ELSE IF NeedsApproval(config) /\ ~isApproved(a.status) THEN "Pending"
       ELSE IF ~NeedsHealthCheck(config) THEN "Ready"
       ELSE IF card = NoCard THEN "Unreachable"
       ELSE IF mismatch THEN "Error"
       ELSE "Ready"

(* Once the cluster settles, every agent settles in the phase it calls for, *)
(* although status writes, approvals, policy changes, endpoint changes and  *)
(* the removal of a conflicting agent trigger no event: the timers must     *)
(* carry it (a2aagent_controller.go, 100, 146, 253, 381-386).  A disabled   *)
(* agent sleeps without a timer, so a conflict that arises later is         *)
(* reported at the other agent only: either phase will do.                  *)
PhasesConverge ==
    \A k \in Keys : \A p \in Phases \ {"unset"} :
        <>[](CalledFor(k) = p)
            => <>[](agents[k] # NoAgent /\ agents[k].status.phase = p)

=============================================================================
