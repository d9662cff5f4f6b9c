----------------------------- MODULE MCAPISystem -----------------------------
(***************************************************************************)
(* Two namespaces with an agent each, two requests at a time, for TLC.     *)
(***************************************************************************)
EXTENDS APISystem, TLC

Outbound == <<"outbound-agent", <<"a">>>>

Elsewhere == <<"ns1", <<"a">>>>

TwoKeys == {Outbound, Elsewhere}

OneURL == {"u1"}

Body == [name |-> "bot", description |-> "unset", version |-> "v1", url |-> "u1",
         skills |-> {"s"}, tags |-> {"t"}, streaming |-> TRUE,
         pushNotifications |-> FALSE]

(* What a registration makes, and what an operator makes of it. *)
Registration == WebhookDefault(RegisteredSpec(Body))

TwoSpecs == {Registration, [Registration EXCEPT !.labels = {"app"}, !.tags = {}]}

OnePolicy == {[requireApproval |-> FALSE, requireHealthCheck |-> TRUE,
               requireCardMatch |-> FALSE]}

Everything == [scope |-> "Cluster", labelSelector |-> "unset", namespaces |-> {}]

(* With a selector; with a list of namespaces. *)
Labelled == [scope |-> "Cluster", labelSelector |-> "app", namespaces |-> {}]

OneNamespace == [scope |-> "Namespace", labelSelector |-> "unset",
                 namespaces |-> {"ns1"}]

TwoScopes == {Labelled, OneNamespace}

JustNamespace == {OneNamespace}

Ask(method, resource, sub) ==
    [method |-> method, resource |-> resource, sub |-> sub, leader |-> TRUE,
     namespace |-> "unset", name |-> <<>>, body |-> Body, policy |-> <<>>,
     tags |-> {}, skill |-> "unset", q |-> "unset", capability |-> "unset"]

InNs1(r) == [r EXCEPT !.namespace = "ns1"]

Named(r, name) == [r EXCEPT !.name = name]

Put(f, value) == [Ask("PUT", "config", <<>>) EXCEPT !.policy = f :> value]

Text(text, q) == text = q

Listings ==
    {Ask("GET", "agents", <<>>),
     [Ask("GET", "agents", <<>>) EXCEPT !.namespace = "ns1", !.tags = {"t"},
                                        !.skill = "s"]}

Searches ==
    {[Ask("GET", "search", <<>>) EXCEPT !.q = "bot", !.tags = {"t"}, !.skill = "s",
                                        !.capability = "streaming"],
     [Ask("GET", "search", <<>>) EXCEPT !.capability = "pushnotifications"]}

(* One name in two spellings, in two namespaces; no name. *)
Registrations ==
    {Named(Ask("POST", "agents", <<>>), <<"A", "!">>),
     Named(InNs1(Ask("POST", "agents", <<>>)), <<"a">>),
     Named(Ask("POST", "agents", <<>>), <<>>)}

Reads ==
    {Ask("GET", "agents", <<<<"a">>>>),
     InNs1(Ask("GET", "agents", <<<<"a">>, "card">>)),
     Ask("DELETE", "agents", <<<<"a">>, "empty">>),
     Ask("GET", "config", <<>>)}

Changes == {Put("requireApproval", TRUE), Put("requireHealthCheck", FALSE)}

AllRequests ==
    Listings \cup Searches \cup Registrations \cup Reads \cup Changes
        \cup {Ask("DELETE", "agents", <<<<"a">>>>)}

(* All agents alike to begin with. *)
AlikeInit == Init /\ \A k \in Keys, o \in Keys : agents[k] = agents[o]

AlikeSpec == AlikeInit /\ [][Next]_vars

Interchangeable == Permutations(Handlers)

=============================================================================
