------------------------------ MODULE PruneAudit ------------------------------
(***************************************************************************)
(* RegistrySystem watched by an auditor who notes since when each stored   *)
(* agent has been Unreachable, in a cluster that keeps its timetable: a    *)
(* tick is a part of the seven days and every health check is due many     *)
(* times within one, so the clock and the users move only after the timers *)
(* have expired and the controllers have caught up.                        *)
(***************************************************************************)
EXTENDS RegistrySystem

VARIABLES
    since,      \* when the stored agent became Unreachable, or Never
    punctual    \* keys whose timer has expired since the last tick

auditVars == <<systemVars, since, punctual>>

AuditInit ==
    /\ SystemInit
    /\ registry # NoRegistry
    /\ \A k \in Keys : agents[k] # NoAgent
    /\ since = [k \in Keys |-> Never]
    /\ punctual = {}

CaughtUp ==
    /\ delayed \subseteq punctual
    /\ queue = {}
    /\ pc = "idle"
    /\ registryPC = "idle"
    /\ ~registryQueued
    /\ \A k \in Keys : IsCurrent(k, "cache")

UnreachableIn(as, k) == as[k] # NoAgent /\ as[k].status.phase = "Unreachable"

AuditNext ==
    /\ SystemNext
    /\ now' # now \/ ops' # ops => CaughtUp
    /\ punctual' = IF now' # now THEN {} ELSE punctual \cup (delayed \ delayed')
    /\ since' = [k \in Keys |-> IF ~UnreachableIn(agents', k) THEN Never
                                ELSE IF since[k] = Never THEN now
                                ELSE since[k]]

AuditSpec == AuditInit /\ [][AuditNext]_auditVars

(* README.md, 49: the registry controller removes an agent only after it   *)
(* has been Unreachable for the whole period.  The code compares the last  *)
(* heartbeat with the cutoff instead (a2aregistry_controller.go, 98-102).  *)
PrunedAfterPeriod ==
    [][\A k \in Keys :
          registryPC = "prune" /\ agents[k] # NoAgent /\ agents' # agents
              /\ k \in stale \ stale'
          => since[k] # Never /\ now - since[k] >= PruneAge]_auditVars

=============================================================================
