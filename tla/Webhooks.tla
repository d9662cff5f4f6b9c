------------------------------- MODULE Webhooks -------------------------------
(***************************************************************************)
(* What admission does to an A2AAgent or A2ARegistry spec: the defaulting  *)
(* webhooks, the CRD schemas and the validating webhooks                   *)
(* (api/v1/a2aagent_webhook.go, api/v1/a2aregistry_webhook.go).  There are *)
(* two sets of CRDs and they do not agree: "bases", config/crd/bases,      *)
(* which make install applies, and "chart", deploy/helm/a2a-registry/crds, *)
(* which Helm installs and which has none of the bounds below.             *)
(*                                                                         *)
(* A number that is absent is 0 and a string that is absent or empty is    *)
(* "unset".  An absent health check block is one of three zeros: every     *)
(* line that reads it treats the two alike.  A URL is its scheme, a        *)
(* protocol version its number of dot-separated parts.                     *)
(***************************************************************************)
EXTENDS Integers, Sequences

Skills == Seq([id : STRING, name : STRING])

AgentSpecs == [name      : STRING,
               url       : STRING,
               skills    : Skills,
               version   : Nat,
               enabled   : BOOLEAN,
               interval  : Int,
               timeout   : Int,
               threshold : Int]

ScopeNames == {"unset", "Cluster", "Namespace", "cluster", "namespace", "other"}

RegistrySpecs == [scope      : ScopeNames,
                  namespaces : SUBSET STRING,
                  port       : Int,
                  interval   : Int,
                  timeout    : Int]

Installations == {"bases", "chart"}

(* "minimum: 10" on an optional number, in the bases. *)
IntervalAllowed(n) == n # 0 => n >= 10

OrElse(n, default) == IF n = 0 THEN default ELSE n

-----------------------------------------------------------------------------
(* A2AAgent.                                                               *)

(* Default: an agent with a URL is enabled, whatever was asked for. *)
AgentDefault(s) ==
    [name      |-> s.name,
     url       |-> s.url,
     skills    |-> s.skills,
     version   |-> OrElse(s.version, 2),
     enabled   |-> s.enabled \/ s.url # "unset",
     interval  |-> OrElse(s.interval, 60),
     timeout   |-> OrElse(s.timeout, 10),
     threshold |-> OrElse(s.threshold, 3)]

(* The A2AAgent CRD. *)
AgentSchema(s, crds) ==
    crds = "bases" =>
        /\ IntervalAllowed(s.interval)
        /\ s.threshold # 0 => s.threshold >= 1
        /\ \A i \in DOMAIN s.skills : s.skills[i].id # "unset"

(* The timeout is compared only when both numbers are given. *)
TimeoutFits(s) == s.timeout > 0 /\ s.interval > 0 => s.timeout <= s.interval

SkillsValid(skills) ==
    \A i \in DOMAIN skills :
        /\ skills[i].id # "unset"
        /\ skills[i].name # "unset"
        /\ \A j \in DOMAIN skills : i # j => skills[i].id # skills[j].id

validateA2AAgentNoMinimum(s) ==
    /\ s.name # "unset"
    /\ s.url \in {"http", "https"}
    /\ SkillsValid(s.skills)
    /\ TimeoutFits(s)
    /\ s.version # 0 => s.version >= 2

validateA2AAgent(s) ==
    /\ s.name # "unset"
    /\ s.url \in {"http", "https"}
    /\ SkillsValid(s.skills)
    /\ ~(s.interval > 0 /\ s.interval < 10)
    /\ TimeoutFits(s)
    /\ s.version # 0 => s.version >= 2

-----------------------------------------------------------------------------
(* A2ARegistry.                                                            *)

RegistryDefault(r) ==
    [scope      |-> IF r.scope = "unset" THEN "Cluster" ELSE r.scope,
     namespaces |-> r.namespaces,
     port       |-> OrElse(r.port, 8082),
     interval   |-> OrElse(r.interval, 60),
     timeout    |-> OrElse(r.timeout, 10)]

(* strings.ToLower on the scopes that differ by it. *)
ToLower(scope) == CASE scope = "Cluster"   -> "cluster"
                    [] scope = "Namespace" -> "namespace"
                    [] OTHER               -> scope

MaxPort == 65535

(* The A2ARegistry CRD.  The Go type declares a minimum of 1. *)
RegistrySchema(r, crds) ==
    crds = "bases" =>
        /\ r.scope \in {"unset", "Cluster", "Namespace"}
        /\ r.port \in 0..MaxPort
        /\ IntervalAllowed(r.interval)

validateA2ARegistry(r) ==
    /\ r.scope # "unset" =>
           /\ ToLower(r.scope) \in {"cluster", "namespace"}
           /\ ToLower(r.scope) = "namespace" => r.namespaces # {}
    /\ r.port # 0 => r.port \in 1..MaxPort
    /\ TimeoutFits(r)

=============================================================================
