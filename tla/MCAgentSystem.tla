---------------------------- MODULE MCAgentSystem ----------------------------
(***************************************************************************)
(* Small instances of AgentSystem for TLC.                                 *)
(***************************************************************************)
EXTENDS AgentRefinement

AgentSpec(url, enabled, threshold, name) ==
    [url |-> url, enabled |-> enabled, threshold |-> threshold, name |-> name,
     description |-> "unset", version |-> "unset", skills |-> {}]

(* One agent: an edit disables it, or lowers the threshold and declares a  *)
(* name that no served card carries.                                       *)
OneURL == {"u1"}

OneSpecs == {AgentSpec("u1", TRUE, 2, "unset"),
             AgentSpec("u1", FALSE, 2, "unset"),
             AgentSpec("u1", TRUE, 1, "bot")}

(* One agent that is enabled and disabled: it matches no card. *)
ToggledSpecs == {AgentSpec("u1", TRUE, 2, "bot"),
                 AgentSpec("u1", FALSE, 2, "bot")}

(* Two agents: an edit or a creation makes and resolves a URL conflict. *)
TwoURLs == {"u1", "u2"}

TwoSpecs == {AgentSpec("u1", TRUE, 1, "unset"),
             AgentSpec("u2", TRUE, 1, "unset")}

MCCards == {[name |-> "other", description |-> "unset", version |-> "unset",
             skills |-> {}]}

Policy(ask, check, match) ==
    [requireApproval |-> ask, requireHealthCheck |-> check,
     requireCardMatch |-> match]

(* Everything asked for; only approval asked for. Besides them, no registry. *)
MCPolicies == {Policy(TRUE, TRUE, TRUE), Policy(TRUE, FALSE, FALSE)}

=============================================================================
