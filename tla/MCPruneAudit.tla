----------------------------- MODULE MCPruneAudit -----------------------------
(***************************************************************************)
(* One agent that users disable, enable and stop, for TLC.                 *)
(***************************************************************************)
EXTENDS PruneAudit

AgentSpec(enabled) ==
    [url |-> "u1", enabled |-> enabled, threshold |-> 1, name |-> "unset",
     description |-> "unset", version |-> "unset", skills |-> {}]

OneURL == {"u1"}

OnOffSpecs == {AgentSpec(TRUE), AgentSpec(FALSE)}

OneCard == {[name |-> "other", description |-> "unset", version |-> "unset",
             skills |-> {}]}

CheckOnly == {[requireApproval |-> FALSE, requireHealthCheck |-> TRUE,
               requireCardMatch |-> FALSE]}

=============================================================================
