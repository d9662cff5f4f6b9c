--------------------------- MODULE MCRegistrySystem ---------------------------
(***************************************************************************)
(* A small instance of RegistrySystem for TLC: one agent whose endpoint    *)
(* comes and goes, one policy.                                             *)
(***************************************************************************)
EXTENDS RegistrySystem

AgentSpec(enabled) ==
    [url |-> "u1", enabled |-> enabled, threshold |-> 1, name |-> "unset",
     description |-> "unset", version |-> "unset", skills |-> {}]

OneURL == {"u1"}

OneSpec == {AgentSpec(TRUE)}

OneCard == {[name |-> "other", description |-> "unset", version |-> "unset",
             skills |-> {}]}

(* A health check, and neither an approval nor a matching card, is needed. *)
CheckOnly == {[requireApproval |-> FALSE, requireHealthCheck |-> TRUE,
               requireCardMatch |-> FALSE]}

(***************************************************************************)
(* A cluster that starts with its registry and its serving agents in place *)
(* and in which users leave the registry alone.                            *)
(***************************************************************************)
StandingInit ==
    /\ SystemInit
    /\ registry # NoRegistry
    /\ \A k \in Keys : agents[k] # NoAgent
    /\ \A u \in URLs : serving[u] # NoCard

StandingNext == AgentEnvironment \/ AgentSide \/ RegistrySide \/ SystemRestart

StandingSystem ==
    StandingInit /\ [][StandingNext]_systemVars /\ SystemFairness

=============================================================================
