------------------------------ MODULE APIServer ------------------------------
(***************************************************************************)
(* The registry's HTTP API (internal/registry/server.go and handler.go).   *)
(* Requests are served side by side with each other and with the registry  *)
(* controller, over the same cached client; only the discovery settings    *)
(* are shared in memory, and the handlers read them without the lock that  *)
(* UpdateConfig holds.  Approval is in Dashboard, static pages are left    *)
(* out, and tags, skills and names stand for themselves without regard to  *)
(* case.                                                                   *)
(*                                                                         *)
(* The name of an agent is a sequence of characters, its key the namespace *)
(* and the resource name made of it.  A setting is a record of the fields  *)
(* of spec.discovery, and the labels of an agent are kept with its spec.   *)
(***************************************************************************)
EXTENDS RegistryController, Sequences

CONSTANTS
    Requests,        \* what clients ask for
    Contains(_, _)   \* whether a text contains another

VARIABLES
    calls,           \* what each handler is in the middle of
    answer           \* what the last step answered, or NoAnswer

apiVars == <<calls, answer>>

(* The handler is free. *)
NoCall == [stage |-> "free"]

NoAnswer == [code |-> 0, shown |-> {}]

-----------------------------------------------------------------------------
(* Routing.  sub is what follows the resource in the path, split at "/".   *)

Route(r) ==
    CASE r.resource = "search" -> "Search"
      [] r.resource = "config" ->
             IF r.method = "PUT" THEN "UpdateConfig" ELSE "Config"
      [] r.resource = "agents" ->
             IF r.sub = <<>>
             THEN IF r.method = "POST" THEN "RegisterAgent" ELSE "ListAgents"
             ELSE IF r.method = "DELETE" /\ Len(r.sub) = 1 THEN "DeregisterAgent"
             ELSE IF Len(r.sub) = 1 THEN "GetAgent"
             ELSE IF r.method = "POST" /\ r.sub[Len(r.sub)] = "approve"
             THEN "ApproveAgent"
             ELSE IF r.sub[Len(r.sub)] = "card" THEN "GetAgentCard"
             ELSE "GetAgent"

LowerCase(c) ==
    CASE c = "A" -> "a" [] c = "B" -> "b" [] c = " " -> "-" [] OTHER -> c

Allowed == {"a", "b", "1", "-", "."}

(* ToLower, " " to "-", and every other character dropped. *)
generateK8sName(name) ==
    LET kept == SelectSeq([i \in DOMAIN name |-> LowerCase(name[i])],
                          LAMBDA c : c \in Allowed)
    IN IF kept = <<>> THEN <<"a", "g", "e", "n", "t">> ELSE kept

(* Approvals are served in Dashboard. *)
ASSUME RequestsAssumption == \A r \in Requests : Route(r) # "ApproveAgent"

OrOutbound(namespace) ==
    IF namespace = "unset" THEN "outbound-agent" ELSE namespace

(* The key in the path of a request, or in the body of a registration. *)
KeyOf(r) == <<OrOutbound(r.namespace), r.sub[1]>>

NewKey(r) == <<OrOutbound(r.namespace), generateK8sName(r.name)>>

-----------------------------------------------------------------------------
(* Filters and views.                                                      *)

(* No controller runs beside a replica that is not the leader: it keeps    *)
(* what NewServer starts with.                                             *)
SettingsOf(r) == IF r.leader THEN discoveryConfig ELSE DefaultScope

(* UpdateConfig may be writing the settings while this replica reads them. *)
Torn(r) == r.leader /\ registryPC = "push" /\ discoveryConfig # reg.scope

(* A selector that does not parse selects everything. *)
Selected(setting, a) ==
    setting.labelSelector \in {"unset", "invalid"} \cup a.spec.labels

InNamespaces(setting, k) ==
    setting.scope = "Namespace" /\ setting.namespaces # {}
        => k[1] \in setting.namespaces

hasAnyTag(tags, filter) == tags \cap filter # {}

hasTag(tags, tag) == tag \in tags

hasSkill(skills, id) == id \in skills

hasCapability(a, c) ==
    /\ c = "streaming" => a.spec.streaming
    /\ c = "pushnotifications" => a.spec.pushNotifications

(* ?tags= and ?skill= of a listing. *)
Wanted(r, a) ==
    /\ r.tags # {} => hasAnyTag(a.spec.tags, r.tags)
    /\ r.skill # "unset" => hasSkill(a.spec.skills, r.skill)

(* ?q=, ?tag=, ?skill= and ?capability= of a search. *)
Found(r, a) ==
    /\ r.q # "unset" => \/ Contains(a.spec.name, r.q)
                        \/ Contains(a.spec.description, r.q)
    /\ \A t \in r.tags : hasTag(a.spec.tags, t)
    /\ r.skill # "unset" => hasSkill(a.spec.skills, r.skill)
    /\ hasCapability(a, r.capability)

agentToEntry(k, a) ==
    [key    |-> k,
     name   |-> a.spec.name,
     url    |-> a.spec.url,
     health |-> IF a.status.health = "unset" THEN "Unknown" ELSE a.status.health,
     phase  |-> IF a.status.phase = "unset" THEN "Pending" ELSE a.status.phase]

agentToCardUnversioned(a) ==
    [name        |-> a.spec.name,
     description |-> a.spec.description,
     version     |-> "unset",
     skills      |-> a.spec.skills]

agentToCard(a) ==
    [name        |-> a.spec.name,
     description |-> a.spec.description,
     version     |-> a.spec.version,
     skills      |-> a.spec.skills]

-----------------------------------------------------------------------------
(* Requests.  A request comes in with the first step of its handler: what  *)
(* happened before that step nobody can tell.                              *)

Arrives(h, r, handler) ==
    /\ UserMoves
    /\ calls[h] = NoCall
    /\ Route(r) = handler

(* The handler goes on with r at that stage.  left: the listed agents that *)
(* are still to be filtered; shown: the entries so far; draft: the         *)
(* registry about to be written.                                           *)
GoOn(h, r, stage, left, shown, draft) ==
    /\ calls' = [calls EXCEPT ![h] =
           [request |-> r, stage |-> stage, left |-> left, shown |-> shown,
            draft |-> draft]]
    /\ answer' = NoAnswer

In(h, stage) == calls[h].stage = stage

Answer(h, r, code, shown) ==
    /\ calls' = [calls EXCEPT ![h] = NoCall]
    /\ answer' = [request |-> r, code |-> code, shown |-> shown]

-----------------------------------------------------------------------------
(* GET /api/v1/agents: the list, then the namespace check entry by entry.  *)

Listed(r) ==
    {k \in Keys : /\ cache[k] # NoAgent
                  /\ r.namespace # "unset" => k[1] = r.namespace}

(* The keys that the label selector selects from the cached list; any of   *)
(* them when its words are read half old, half new.                        *)
Selections(r, listed) ==
    IF Torn(r) THEN SUBSET listed
               ELSE {{k \in listed : Selected(SettingsOf(r), cache[k])}}

ListAgents(h, r) ==
    /\ Arrives(h, r, "ListAgents")
    /\ \E keys \in Selections(r, Listed(r)) :
           GoOn(h, r, "filter", [k \in keys |-> cache[k]], {}, NoRegistry)
    /\ UNCHANGED <<storeVars, config, serving, now, registryVars>>

Filtered(h, k, kept) ==
    LET c == calls[h] IN
    GoOn(h, c.request, "filter", [o \in DOMAIN c.left \ {k} |-> c.left[o]],
         IF kept THEN c.shown \cup {agentToEntry(k, c.left[k])} ELSE c.shown,
         NoRegistry)

ListEntryAnyNamespace(h) ==
    /\ In(h, "filter")
    /\ \E k \in DOMAIN calls[h].left :
           LET a == calls[h].left[k] IN
           Filtered(h, k, a.spec.enabled /\ Wanted(calls[h].request, a))
    /\ UNCHANGED <<clusterVars, registryVars>>

(* One entry: Enabled, the scope as it is read now, ?tags= and ?skill=. *)
ListEntry(h) ==
    LET r == calls[h].request IN
    /\ In(h, "filter")
    /\ \E k \in DOMAIN calls[h].left, found \in BOOLEAN :
           LET a == calls[h].left[k] IN
           /\ Torn(r) \/ found = InNamespaces(SettingsOf(r), k)
           /\ Filtered(h, k, a.spec.enabled /\ found /\ Wanted(r, a))
    /\ UNCHANGED <<clusterVars, registryVars>>

ListAnswer(h) ==
    /\ In(h, "filter")
    /\ DOMAIN calls[h].left = {}
    /\ Answer(h, calls[h].request, 200, calls[h].shown)
    /\ UNCHANGED <<clusterVars, registryVars>>

(* A slice of namespaces read half old, half new may be dereferenced:      *)
(* net/http recovers and closes the connection.                            *)
ListPanics(h) ==
    /\ In(h, "filter")
    /\ DOMAIN calls[h].left # {}
    /\ Torn(calls[h].request)
    /\ Answer(h, calls[h].request, 0, {})
    /\ UNCHANGED <<clusterVars, registryVars>>

(* GET /api/v1/search: the label selector, and no namespaces. *)
Search(h, r) ==
    /\ Arrives(h, r, "Search")
    /\ \E keys \in Selections(r, {k \in Keys : cache[k] # NoAgent}) :
           Answer(h, r, 200,
                  {agentToEntry(k, cache[k]) :
                       k \in {o \in keys : /\ cache[o].spec.enabled
                                           /\ Found(r, cache[o])}})
    /\ UNCHANGED <<storeVars, config, serving, now, registryVars>>

InCache(k) == k \in Keys /\ cache[k] # NoAgent

(* GET /api/v1/agents/{name} and .../card: a view of the cached object. *)
GetAgent(h, r) ==
    LET k == KeyOf(r) IN
    /\ Arrives(h, r, "GetAgent")
    /\ \/ InCache(k) /\ Answer(h, r, 200, {agentToEntry(k, cache[k])})
       \/ ~InCache(k) /\ Answer(h, r, 404, {})
    /\ UNCHANGED <<storeVars, config, serving, now, registryVars>>

GetAgentCard(h, r) ==
    LET k == KeyOf(r) IN
    /\ Arrives(h, r, "GetAgentCard")
    /\ \/ InCache(k) /\ Answer(h, r, 200, {agentToCard(cache[k])})
       \/ ~InCache(k) /\ Answer(h, r, 404, {})
    /\ UNCHANGED <<storeVars, config, serving, now, registryVars>>

-----------------------------------------------------------------------------
(* POST and DELETE.                                                        *)

(* What is registered is enabled; the request has no labels to give, and   *)
(* no health check block.                                                  *)
RegisteredSpec(b) ==
    [name              |-> b.name,
     description       |-> b.description,
     version           |-> b.version,
     url               |-> b.url,
     skills            |-> b.skills,
     tags              |-> b.tags,
     streaming         |-> b.streaming,
     pushNotifications |-> b.pushNotifications,
     enabled           |-> TRUE,
     threshold         |-> 0,
     labels            |-> {}]

TakenInNamespace(r) ==
    \E k \in Keys : /\ cache[k] # NoAgent
                    /\ k[1] = NewKey(r)[1]
                    /\ cache[k].spec.url = r.body.url

(* The URL is looked up among the cached agents of all namespaces.  (A     *)
(* cached List fails only when the client has gone.)                       *)
Taken(r) == \E k \in Keys : cache[k] # NoAgent /\ cache[k].spec.url = r.body.url

Missing(r) == r.name = <<>> \/ r.body.url = "unset"

RegisterAgent(h, r) ==
    /\ Arrives(h, r, "RegisterAgent")
    /\ \/ Missing(r) /\ Answer(h, r, 400, {})
       \/ ~Missing(r) /\ Taken(r) /\ Answer(h, r, 409, {})
       \/ ~Missing(r) /\ ~Taken(r) /\ GoOn(h, r, "create", <<>>, {}, NoRegistry)
    /\ UNCHANGED <<storeVars, config, serving, now, registryVars>>

(* What Create may store, as it was sent or as the webhook completed it. *)
Registered(body) ==
    {RegisteredSpec(body)}
        \cup IF Webhooks THEN {WebhookDefault(RegisteredSpec(body))} ELSE {}

(* A write may fail: the name is taken or is no resource name, admission    *)
(* refuses it, the request is lost.  If its answer is lost, it was carried  *)
(* out all the same.                                                        *)
RegisterCreate(h) ==
    LET r == calls[h].request
        k == NewKey(r)
    IN
    /\ In(h, "create")
    /\ \/ /\ k \in Keys
          /\ agents[k] = NoAgent
          /\ \E s \in Registered(r.body) :
                 /\ agents' = [agents EXCEPT ![k] = NewAgent(s)]
                 /\ \/ Answer(h, r, 201, {agentToEntry(k, NewAgent(s))})
                    \/ Answer(h, r, 500, {})
          /\ current' = [current EXCEPT ![k] = {}]
          /\ notify' = notify \cup {k}
       \/ /\ Answer(h, r, 500, {})
          /\ UNCHANGED <<agents, current, notify>>
    /\ UNCHANGED <<cache, worldVars, registryVars>>

(* Delete, by name. *)
DeregisterAgent(h, r) ==
    LET k == KeyOf(r) IN
    /\ Arrives(h, r, "DeregisterAgent")
    /\ \/ /\ k \in Keys
          /\ agents[k] # NoAgent
          /\ \/ RequestDelete(k)
             \/ agents[k].deleting /\ UNCHANGED <<agents, current, notify>>
          /\ Answer(h, r, 204, {}) \/ Answer(h, r, 500, {})
       \/ /\ Answer(h, r, 500, {})
          /\ UNCHANGED <<agents, current, notify>>
    /\ UNCHANGED <<cache, config, serving, now, registryVars>>

-----------------------------------------------------------------------------
(* /api/v1/config                                                          *)

NoPolicy == [requireApproval |-> FALSE, requireHealthCheck |-> FALSE,
             requireCardMatch |-> FALSE]

Config(h, r) ==
    /\ Arrives(h, r, "Config")
    /\ Answer(h, r, 200, {IF registryCache = NoRegistry THEN NoPolicy
                          ELSE registryCache.policy})
    /\ UNCHANGED <<storeVars, config, serving, now, registryVars>>

(* What a body may set are flags. *)
ASSUME FlagsAssumption ==
    \A r \in Requests : \A f \in DOMAIN r.policy : r.policy[f] \in BOOLEAN

(* Only the fields that the body names change. *)
Merged(policy, asked) ==
    [f \in DOMAIN policy |-> IF f \in DOMAIN asked THEN asked[f] ELSE policy[f]]

UpdateConfig(h, r) ==
    /\ Arrives(h, r, "UpdateConfig")
    /\ \/ /\ registryCache = NoRegistry
          /\ Answer(h, r, 404, {})
          /\ UNCHANGED registryCurrent
       \/ /\ registryCache # NoRegistry
          /\ GoOn(h, r, "write", <<>>, {},
                  [registryCache EXCEPT !.policy = Merged(@, r.policy)])
          /\ registryCurrent' = IF "cache" \in registryCurrent
                                THEN registryCurrent \cup {h}
                                ELSE registryCurrent
    /\ UNCHANGED <<storeVars, config, serving, now, registry, registryCache,
                   registryPC, reg, stale, registryQueued, registryDelayed,
                   discoveryConfig>>

ConfigWriteUnchecked(h) ==
    /\ In(h, "write")
    /\ registry # NoRegistry
    /\ registry' = [calls[h].draft EXCEPT !.status = registry.status]
    /\ registryCurrent' = {}
    /\ Answer(h, calls[h].request, 200, {})
    /\ UNCHANGED <<clusterVars, registryCache, registryPC, reg, stale,
                   registryQueued, registryDelayed, discoveryConfig>>

(* Update sends the whole object; the status subresource ignores it.  The  *)
(* webhook's defaults make no difference to what is kept of a registry:     *)
(* nothing tells an unset scope from "Cluster".                             *)
ConfigWrite(h) ==
    LET r == calls[h].request IN
    /\ In(h, "write")
    /\ \/ /\ h \in registryCurrent
          /\ registry' = [calls[h].draft EXCEPT !.status = registry.status]
          /\ registryCurrent' = IF registry' = registry
                                THEN registryCurrent \ {h} ELSE {}
          /\ Answer(h, r, 200, {}) \/ Answer(h, r, 500, {})
       \/ /\ Answer(h, r, 500, {})
          /\ registryCurrent' = registryCurrent \ {h}
          /\ UNCHANGED registry
    /\ UNCHANGED <<clusterVars, registryCache, registryPC, reg, stale,
                   registryQueued, registryDelayed, discoveryConfig>>

Handle(h) ==
    \/ \E r \in Requests :
           \/ ListAgents(h, r)
           \/ Search(h, r)
           \/ GetAgent(h, r)
           \/ GetAgentCard(h, r)
           \/ RegisterAgent(h, r)
           \/ DeregisterAgent(h, r)
           \/ Config(h, r)
           \/ UpdateConfig(h, r)
    \/ ListEntry(h)
    \/ ListAnswer(h)
    \/ ListPanics(h)
    \/ RegisterCreate(h)
    \/ ConfigWrite(h)

=============================================================================
