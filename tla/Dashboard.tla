------------------------------ MODULE Dashboard ------------------------------
(***************************************************************************)
(* POST /api/v1/agents/{name}/approve (internal/registry/dashboard.go):    *)
(* the handler reads the agent through the cached client, merges an        *)
(* Approved condition and writes the status back.  It runs in the same     *)
(* process as the controllers and races with them.                         *)
(***************************************************************************)
EXTENDS ClusterAPI

CONSTANT NoApproval   \* no approve request is being served

ASSUME ApprovalAssumption == NoApproval \notin [key : Keys, copy : Agent]

VARIABLE approval     \* the request being served: its key and its copy

DashboardTypeOK == approval \in [key : Keys, copy : Agent] \cup {NoApproval}

DashboardInit == approval = NoApproval

(* The handler's Get; 404 when the agent is not in the cache. *)
ApproveGet(k) ==
    /\ UserMoves
    /\ approval = NoApproval
    /\ cache[k] # NoAgent
    /\ approval' = [key |-> k, copy |-> cache[k]]
    /\ current' = IF IsCurrent(k, "cache")
                  THEN [current EXCEPT ![k] = @ \cup {"approver"}]
                  ELSE current
    /\ UNCHANGED <<agents, cache, notify, config, serving, now>>

(* mergeRegistryConditions and Status().Update *)
ApproveWrite ==
    /\ approval # NoApproval
    /\ IsCurrent(approval.key, "approver")
    /\ Write(approval.key,
             [agents[approval.key] EXCEPT
                 !.status = ApprovedStatus(approval.copy.status)],
             "approver", {})
    /\ approval' = NoApproval
    /\ UNCHANGED <<cache, notify, worldVars>>

(* The copy was stale: 500, and the operator may try again. *)
ApproveConflict ==
    /\ approval # NoApproval
    /\ ~IsCurrent(approval.key, "approver")
    /\ approval' = NoApproval
    /\ UNCHANGED clusterVars

=============================================================================
