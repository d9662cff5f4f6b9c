--------------------------- MODULE AgentRefinement ---------------------------
(***************************************************************************)
(* AgentSystem implements AgentLifecycle: whatever the two writers, their  *)
(* lagging copies, failed calls and restarts do, the stored objects live   *)
(* the life that the abstract specification describes.                     *)
(***************************************************************************)
EXTENDS AgentSystem

(* What a stored object shows of its life. *)
LifeOf(a) ==
    IF a = NoAgent THEN NoAgent
    ELSE [phase    |-> a.status.phase,
          failures |-> a.status.failures,
          approved |-> isApproved(a.status),
          leaving  |-> a.deleting]

Lifecycle == INSTANCE AgentLifecycle
                 WITH life <- [k \in Keys |-> LifeOf(agents[k])],
                      Absent <- NoAgent

(* The sentinel is not a life either. *)
ASSUME LifeAssumption == NoAgent \notin Lifecycle!Life

(***************************************************************************)
(* What a pass has decided about its agent, and must still be true when it *)
(* writes: IndInv lacks it, and the steps of the life need it.             *)
(***************************************************************************)

(* A pass that removes the finalizer works on an agent under deletion, any *)
(* other pass on one that was not; what is written has a phase.            *)
PassKind ==
    /\ pc = "remove" => agent.deleting
    /\ pc \in {"add", "conflict", "policy", "probe", "write"} => ~agent.deleting
    /\ pc = "write" => agent.status.phase # "unset"

(* The failures that are about to be stored follow from the stored ones.   *)
PassTally ==
    pc = "write" /\ IsCurrent(req, "worker") =>
        Lifecycle!Tally(agent.status.phase, agents[req].status.failures,
                        agent.status.failures)

LifeInv == PassKind /\ PassTally

(* Every behaviour of the controller and the approval handler is a life:   *)
(* an agent is not judged once its deletion has been requested, even by a  *)
(* pass that began before; a judged agent never vanishes unannounced; no   *)
(* step of one agent disturbs another; approvals are final                 *)
(* (a2aagent_controller.go, 43-254; dashboard.go, 26-66).                  *)
ImplementsLifecycle == Lifecycle!LifecycleSpec

=============================================================================
