------------------------------ MODULE APISystem ------------------------------
(***************************************************************************)
(* The HTTP API beside the registry controller that hands it the discovery *)
(* settings, and beside users with kubectl.  The agents' own life is in    *)
(* AgentSystem: here they only appear, change and go.                      *)
(***************************************************************************)
EXTENDS APIServer

VARIABLES
    inForce,    \* history: the settings in force since each request came in
    snapshot    \* history: the cache that each handler listed, and the keys
                \* in it that have been up to date ever since

vars == <<clusterVars, registryVars, apiVars, inForce, snapshot>>

NoSnapshot == [cache |-> [k \in Keys |-> NoAgent], fresh |-> {}]

(* What users, the informer, the controller and the API server believe. *)
SettingsInForce ==
    {discoveryConfig} \cup {r.scope : r \in {registry, registryCache, reg} \ {NoRegistry}}

Init ==
    /\ ClusterInit
    /\ RegistryInit
    /\ calls = [h \in Handlers |-> NoCall]
    /\ answer = NoAnswer
    /\ inForce = [h \in Handlers |-> {}]
    /\ snapshot = [h \in Handlers |-> NoSnapshot]

Users ==
    /\ \/ /\ \E k \in Keys : UserCreate(k) \/ UserEdit(k) \/ UserDelete(k)
          /\ UNCHANGED registryVars
       \/ UserCreateRegistry
       \/ UserEditRegistry
       \/ UserDeleteRegistry
    /\ UNCHANGED calls
    /\ answer' = NoAnswer

Informer ==
    /\ \/ \E k \in Keys : Deliver(k) /\ UNCHANGED <<worldVars, registryVars>>
       \/ RegistrySync
    /\ UNCHANGED calls
    /\ answer' = NoAnswer

RegistryWorker ==
    /\ RegistryTimer \/ ReconcileRegistry
    /\ UNCHANGED calls
    /\ answer' = NoAnswer

(* Counted as a move, to bound the number of restarts. *)
Restart ==
    /\ UserMoves
    /\ Relist
    /\ RegistryRestart
    /\ config' = PolicyOf(registry)
    /\ calls' = [h \in Handlers |-> NoCall]
    /\ answer' = NoAnswer
    /\ UNCHANGED <<serving, now>>

Recorded ==
    /\ inForce' = [h \in Handlers |->
                      IF calls'[h] = NoCall THEN {}
                      ELSE inForce[h] \cup SettingsInForce']
    /\ snapshot' = [h \in Handlers |->
                      IF calls'[h] = NoCall THEN NoSnapshot
                      ELSE IF calls[h] = NoCall
                      THEN [cache |-> cache,
                            fresh |-> {k \in Keys : cache[k] = agents[k]}]
                      ELSE [cache |-> snapshot[h].cache,
                            fresh |-> {k \in snapshot[h].fresh :
                                           agents'[k] = agents[k]}]]

Next ==
    /\ \/ Users
       \/ Informer
       \/ RegistryWorker
       \/ \E h \in Handlers : Handle(h)
       \/ Restart
    /\ Recorded

Spec == Init /\ [][Next]_vars

-----------------------------------------------------------------------------
(* Properties.                                                             *)

(* What the discovery settings say of an agent. *)
Discoverable(setting, k, a) ==
    /\ a.spec.enabled
    /\ setting.labelSelector # "unset" => setting.labelSelector \in a.spec.labels
    /\ setting.scope = "Namespace" /\ setting.namespaces # {}
           => k[1] \in setting.namespaces

(* This step ends a request that the handler has been serving. *)
Ends(h, stage) == calls[h].stage = stage /\ calls'[h] = NoCall

Answers(h, stage, code) == Ends(h, stage) /\ answer'.code = code

AskedFor(r, k, a) ==
    /\ r.namespace # "unset" => k[1] = r.namespace
    /\ r.tags # {} => \E t \in r.tags : t \in a.spec.tags
    /\ r.skill # "unset" => r.skill \in a.spec.skills

(* A listing served by the leader while nobody changed the settings, whose *)
(* selector parses, shows exactly the agents of one cached list that the   *)
(* settings let it show and the client asked for, although the settings    *)
(* are read once for the list and again for every entry (handler.go,       *)
(* 191-263).                                                               *)
SettledAnswer(h, s) ==
    LET r == calls[h].request
        list == snapshot[h].cache
    IN
    /\ Answers(h, "filter", 200)
    /\ r.leader
    /\ inForce[h] = {s}
    /\ s.labelSelector # "invalid"
    => {e.key : e \in answer'.shown} =
           {k \in Keys : /\ list[k] # NoAgent
                         /\ Discoverable(s, k, list[k])
                         /\ AskedFor(r, k, list[k])}

SettledListing ==
    [][\A h \in Handlers : \A s \in inForce[h] : SettledAnswer(h, s)]_vars

(* README.md, 43: scope, label selector and namespaces are enforced at the *)
(* API level.  Whatever a discovery request shows is discoverable under    *)
(* one of the settings that were in force while it was served              *)
(* (handler.go, 180-263, 461-526).                                         *)
AnswersInScope ==
    [][/\ \A h \in Handlers :
              Answers(h, "filter", 200) =>
                  \A e \in answer'.shown : \E s \in inForce[h] :
                      Discoverable(s, e.key, snapshot[h].cache[e.key])
       /\ answer'.code = 200 /\ ops' # ops /\ answer'.request.resource = "search" =>
              \A e \in answer'.shown : \E s \in SettingsInForce :
                  Discoverable(s, e.key, cache[e.key])]_vars

(* No PUT of some settings, answered or not, takes back what somebody else  *)
(* wrote to the registry since it was read, be it the operator with         *)
(* kubectl, another dashboard or the controller's finalizer and status; and *)
(* nobody but a user or a PUT changes the settings (handler.go, 69-110;     *)
(* a2aregistry_controller.go, 62-69, 130).                                  *)
KeepsSettings ==
    registry # NoRegistry /\ registry' # NoRegistry /\ ops' = ops =>
        /\ registry'.scope = registry.scope
        /\ registry'.deleting = registry.deleting
        /\ registry.finalizer => registry'.finalizer
        /\ \A f \in DOMAIN registry.policy :
               \/ registry'.policy[f] = registry.policy[f]
               \/ \E h \in Handlers :
                     /\ Ends(h, "write")
                     /\ f \in DOMAIN calls[h].request.policy
                     /\ registry'.policy[f] = calls[h].request.policy[f]

SettingsKept == [][KeepsSettings]_vars

(* A registration that is carried out although its URL is taken is the     *)
(* fault of the moment between the look and the leap, or of a lagging       *)
(* cache: no agent that the handler's list had up to date and that has not  *)
(* changed since has the URL; and no registration replaces an agent         *)
(* (handler.go, 337-410).                                                   *)
RegistersFresh(h) ==
    Ends(h, "create") /\ agents' # agents
    => /\ \A o \in snapshot[h].fresh :
              agents[o] # NoAgent
                  => agents[o].spec.url # calls[h].request.body.url
       /\ \A k \in Keys : agents[k] # NoAgent => agents'[k] = agents[k]

RegistersAfresh == [][\A h \in Handlers : RegistersFresh(h)]_vars

(* The card that the registry shows of an agent is one that would pass the  *)
(* registry's own card check against the agent's spec (handler.go, 294-320, *)
(* 575-606; a2aagent_controller.go, 282-305).                               *)
ShowsMatchingCard ==
    answer'.code = 200 /\ ops' # ops =>
        LET r == answer'.request
            k == <<IF r.namespace = "unset" THEN "outbound-agent"
                   ELSE r.namespace, r.sub[1]>>
        IN
        r.resource = "agents" /\ Len(r.sub) = 2 /\ r.sub[2] = "card"
        => \A card \in answer'.shown : checkCardMatch(cache[k].spec, card)

CardsMatch == [][ShowsMatchingCard]_vars

-----------------------------------------------------------------------------
(***************************************************************************)
(* The inductive invariant behind the properties that hold: what a handler *)
(* knows between two of its steps.                                         *)
(***************************************************************************)

CallsState ==
    /\ calls = [h \in Handlers |-> calls[h]]
    /\ \A h \in Handlers :
           calls[h] = NoCall \/ calls[h].stage \in {"filter", "create", "write"}

StoreState ==
    /\ agents = [k \in Keys |-> agents[k]]
    /\ ops \in 0..MaxOps

(* An update that would be accepted rewrites the stored registry.          *)
DraftFits(h) ==
    LET c == calls[h] IN
    /\ c.stage = "write"
    /\ c.request \in Requests
    /\ registry # NoRegistry
    /\ c.draft = [registry EXCEPT !.policy = Merged(@, c.request.policy)]

(* Nothing that has been up to date since the handler looked has its URL. *)
FreshURL(h) ==
    \A o \in snapshot[h].fresh :
        agents[o] # NoAgent => agents[o].spec.url # calls[h].request.body.url

(* The history has seen all settings since the request came in. *)
Watched(h) ==
    IF calls[h] = NoCall THEN inForce[h] = {}
                         ELSE SettingsInForce \subseteq inForce[h]

(* What the settings select of a list, and what is due to be shown of it    *)
(* once all but the agents that are left have been filtered.                *)
Chosen(r, s, list) ==
    {k \in Keys : /\ list[k] # NoAgent
                  /\ r.namespace # "unset" => k[1] = r.namespace
                  /\ Selected(s, list[k])}

Due(r, s, list, left) ==
    {k \in Chosen(r, s, list) \ DOMAIN left :
        list[k].spec.enabled /\ InNamespaces(s, k) /\ Wanted(r, list[k])}

(* What is left to be filtered is as it was listed; under settled settings  *)
(* the entries so far are those that are due.                               *)
ListFits(h) ==
    LET c == calls[h]
        list == snapshot[h].cache
    IN
    /\ \A k \in DOMAIN c.left : c.left[k] = list[k]
    /\ \A s \in inForce[h] : c.request.leader /\ inForce[h] = {s} =>
          /\ DOMAIN c.left \subseteq Chosen(c.request, s, list)
          /\ {e.key : e \in c.shown} = Due(c.request, s, list, c.left)

HandlerInv(h) ==
    /\ h \in registryCurrent => DraftFits(h)
    /\ calls[h].stage = "create" => FreshURL(h)
    /\ calls[h].stage = "filter" => ListFits(h)
    /\ Watched(h)

APIInv ==
    /\ RegistryInv
    /\ CallsState
    /\ StoreState
    /\ \A h \in Handlers : HandlerInv(h)

=============================================================================
