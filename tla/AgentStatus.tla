----------------------------- MODULE AgentStatus -----------------------------
(***************************************************************************)
(* What an A2AAgent records about itself, and how one pass of the agent    *)
(* controller rewrites it.  Everything here is a pure operator over the    *)
(* in-memory object that Reconcile works on                                *)
(* (controllers/a2aagent_controller.go, controllers/conditions.go); when   *)
(* the result reaches the API server is the business of AgentController.   *)
(*                                                                         *)
(* Messages, reasons, the card hash and the transition times of conditions *)
(* are left out: no decision of the program reads them.                    *)
(***************************************************************************)
EXTENDS Integers

CONSTANTS
    URLs,         \* agent endpoints
    Specs,        \* the agent specs users may write
    Cards,        \* the agent cards an endpoint may serve
    MaxFailures   \* where the model stops counting failed health checks

(***************************************************************************)
(* An unset HealthCheck block, or an unset threshold in it, is threshold 0 *)
(* (the Go zero value), and an empty string is written "unset": such a     *)
(* field of a spec or a status has not been given a value.                 *)
(***************************************************************************)
failureThreshold(spec) == IF spec.threshold > 0 THEN spec.threshold ELSE 3

ASSUME SpecsAssumption ==
    \A s \in Specs : /\ s.url \in URLs
                     /\ s.enabled \in BOOLEAN
                     /\ s.threshold \in Nat
                     /\ failureThreshold(s) <= MaxFailures

ASSUME MaxFailuresAssumption == MaxFailures \in Nat \ {0}

-----------------------------------------------------------------------------
(* The status subresource.                                                 *)

Phases == {"unset", "Pending", "Ready", "Error", "Unreachable"}

Healths == {"unset", "Unknown", "Healthy", "Unhealthy"}

ConditionTypes == {"Approved", "HealthChecked", "Ready"}

ConditionValues == {"Absent", "True", "False"}

(* LastHeartbeat = nil *)
Never == -1

Status == [phase       : Phases,
           health      : Healths,
           failures    : 0..MaxFailures,
           heartbeat   : Nat \cup {Never},
           registered  : BOOLEAN,
           observedGen : Nat,
           conditions  : [ConditionTypes -> ConditionValues]]

(* The status of an object nobody has reconciled yet: all zero values. *)
EmptyStatus == [phase       |-> "unset",
                health      |-> "unset",
                failures    |-> 0,
                heartbeat   |-> Never,
                registered  |-> FALSE,
                observedGen |-> 0,
                conditions  |-> [t \in ConditionTypes |-> "Absent"]]

-----------------------------------------------------------------------------
(* Conditions.                                                             *)

MergeConditionDowngrade(conditions, type, value) ==
    [conditions EXCEPT !["Approved"] = "False", ![type] = value]

(* Replace the condition of that type, or append it: one entry per type. *)
MergeCondition(conditions, type, value) ==
    [conditions EXCEPT ![type] = value]

isApproved(st) == st.conditions["Approved"] = "True"

ConditionOf(b) == IF b THEN "True" ELSE "False"

updateConditions(st, healthy) ==
    [st EXCEPT !.conditions =
        MergeCondition(MergeCondition(@, "HealthChecked", ConditionOf(healthy)),
                       "Ready", ConditionOf(st.phase = "Ready"))]

-----------------------------------------------------------------------------
(* The branches of Reconcile, in the order of the code.                    *)

(* First reconciliation: RegisteredAt. *)
Register(st) == [st EXCEPT !.registered = TRUE]

URLConflictKeepsHealth(st) == [st EXCEPT !.phase = "Error"]

(* Another agent uses the URL.  Conditions and ObservedGeneration keep what *)
(* the last full pass wrote.                                                *)
URLConflictStatus(st) ==
    [st EXCEPT !.phase = "Error", !.health = "Unhealthy"]

DisabledStatusOwnPhase(st) == [st EXCEPT !.phase = "Disabled", !.health = "Unknown"]

DisabledStatusKeepsHealth(st) == [st EXCEPT !.phase = "Pending"]

DisabledStatus(st) == [st EXCEPT !.phase = "Pending", !.health = "Unknown"]

PendingApprovalStatus(st) ==
    [st EXCEPT !.phase = "Pending",
               !.health = "Unknown",
               !.conditions = MergeCondition(@, "Approved", "False")]

ApprovedStatus(st) ==
    [st EXCEPT !.conditions = MergeCondition(@, "Approved", "True")]

(* Both the health check that passes and the one the registry switches off *)
(* leave the agent Ready with a heartbeat taken before the check began.    *)
HealthyStatus(st, time) ==
    [st EXCEPT !.phase = "Ready",
               !.health = "Healthy",
               !.heartbeat = time,
               !.failures = 0]

(* A spec field that is declared must appear on the card; skills by id. *)
checkCardMatch(spec, card) ==
    /\ \A f \in {"name", "description", "version"} :
           spec[f] # "unset" => spec[f] = card[f]
    /\ spec.skills \subseteq card.skills

CardMismatchStatus(st) ==
    [st EXCEPT !.phase = "Error", !.health = "Unhealthy"]

(* ConsecutiveFailures++, saturating at MaxFailures: beyond every threshold *)
(* nothing tells larger counts apart.                                       *)
CountFailure(n) == IF n < MaxFailures THEN n + 1 ELSE n

FailedStatusEarly(st, spec) ==
    LET n == CountFailure(st.failures) IN
    [st EXCEPT !.health = "Unhealthy",
               !.failures = n,
               !.phase = IF n + 1 >= failureThreshold(spec)
                         THEN "Unreachable" ELSE "Error"]

FailedStatus(st, spec) ==
    LET n == CountFailure(st.failures) IN
    [st EXCEPT !.health = "Unhealthy",
               !.failures = n,
               !.phase = IF n >= failureThreshold(spec)
                         THEN "Unreachable" ELSE "Error"]

(* The end of a full pass: ObservedGeneration and the two conditions. *)
ObservedStatus(st, gen) ==
    updateConditions([st EXCEPT !.observedGen = gen], st.health = "Healthy")

=============================================================================
