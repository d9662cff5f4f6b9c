--------------------------- MODULE APISystemProofs ---------------------------
(***************************************************************************)
(* Proofs about the HTTP API, for every set of agents, requests, handlers, *)
(* settings and policies and every bound.                                  *)
(***************************************************************************)
EXTENDS APISystem, RegistryControllerProofs

-----------------------------------------------------------------------------
(* What a handler knows survives the steps of others.                      *)

LEMMA AlwaysWatched ==
    ASSUME Recorded, NEW h \in Handlers
    PROVE  Watched(h)'
BY DEF Recorded, Watched

LEMMA SettingsExist ==
    ASSUME NEW h \in Handlers, HandlerInv(h), calls[h] # NoCall
    PROVE  discoveryConfig \in inForce[h]
BY DEF HandlerInv, Watched, SettingsInForce

(* The settings are settled now only if they were before. *)
LEMMA SettledBefore ==
    ASSUME Recorded, NEW h \in Handlers, HandlerInv(h),
           calls[h] # NoCall, calls'[h] # NoCall,
           NEW s, inForce'[h] = {s}
    PROVE  inForce[h] = {s}
<1>1. inForce'[h] = inForce[h] \cup SettingsInForce'
  BY DEF Recorded
<1>2. discoveryConfig \in inForce[h]
  BY SettingsExist
<1> QED BY <1>1, <1>2

LEMMA OthersKeepHandlerInv ==
    ASSUME Recorded, NEW h \in Handlers, HandlerInv(h),
           calls'[h] = calls[h],
           h \in registryCurrent' => h \in registryCurrent /\ UNCHANGED registry
    PROVE  HandlerInv(h)'
<1>1. Watched(h)'
  BY AlwaysWatched
<1>2. h \in registryCurrent' => DraftFits(h)'
  BY DEF HandlerInv, DraftFits
<1>3. ASSUME calls[h].stage \in {"create", "filter"}
      PROVE  /\ calls[h] # NoCall
             /\ snapshot'[h].cache = snapshot[h].cache
             /\ snapshot'[h].fresh =
                    {k \in snapshot[h].fresh : agents'[k] = agents[k]}
  <2>1. calls[h] # NoCall
    BY <1>3 DEF NoCall
  <2> QED BY <2>1 DEF Recorded
<1>4. ASSUME calls[h].stage = "create"
      PROVE  FreshURL(h)'
  BY <1>3, <1>4 DEF FreshURL, HandlerInv
<1>5. ASSUME calls[h].stage = "filter"
      PROVE  ListFits(h)'
  <2>1. ListFits(h) /\ snapshot'[h].cache = snapshot[h].cache
    BY <1>3, <1>5 DEF HandlerInv
  <2>2. ASSUME NEW s, inForce'[h] = {s}
        PROVE  inForce[h] = {s}
    BY <1>3, <1>5, <2>2, SettledBefore
  <2> QED BY <2>1, <2>2 DEF ListFits
<1> QED BY <1>1, <1>2, <1>4, <1>5 DEF HandlerInv

LEMMA FreedHandlerInv ==
    ASSUME Recorded, NEW h \in Handlers, calls'[h] = NoCall,
           h \notin registryCurrent'
    PROVE  HandlerInv(h)'
BY AlwaysWatched DEF HandlerInv, NoCall

(* A free handler holds no copy of the registry. *)
LEMMA FreeHoldsNothing ==
    ASSUME NEW h \in Handlers, HandlerInv(h), calls[h] = NoCall
    PROVE  h \notin registryCurrent
BY DEF HandlerInv, DraftFits, NoCall

LEMMA BusyHandler ==
    ASSUME NEW h \in Handlers, HandlerInv(h), calls[h].stage \in {"filter", "create"}
    PROVE  calls[h] # NoCall /\ h \notin registryCurrent
BY DEF HandlerInv, DraftFits, NoCall

LEMMA HandlerIsNeither ==
    ASSUME NEW h \in Handlers
    PROVE  h \notin {"cache", "worker"}
BY HandlersAssumption

-----------------------------------------------------------------------------
(* A step of one handler.                                                  *)

LEMMA AnswerCalls ==
    ASSUME CallsState, NEW h \in Handlers, calls' = [calls EXCEPT ![h] = NoCall]
    PROVE  /\ CallsState'
           /\ calls'[h] = NoCall
           /\ \A j \in Handlers \ {h} : calls'[j] = calls[j]
<1>1. calls' = [j \in Handlers |-> IF j = h THEN NoCall ELSE calls[j]]
  BY DEF CallsState
<1> QED BY <1>1 DEF CallsState

LEMMA GoOnCalls ==
    ASSUME CallsState, NEW h \in Handlers, NEW r, NEW left, NEW shown, NEW draft,
           NEW stage \in {"filter", "create", "write"},
           GoOn(h, r, stage, left, shown, draft)
    PROVE  /\ CallsState'
           /\ calls'[h] # NoCall
           /\ calls'[h].stage = stage
           /\ calls'[h].request = r
           /\ calls'[h].left = left
           /\ calls'[h].shown = shown
           /\ calls'[h].draft = draft
           /\ \A j \in Handlers \ {h} : calls'[j] = calls[j]
<1> DEFINE call == [request |-> r, stage |-> stage, left |-> left,
                    shown |-> shown, draft |-> draft]
<1>1. calls' = [calls EXCEPT ![h] = call] /\ calls = [j \in Handlers |-> calls[j]]
  BY DEF GoOn, CallsState
<1>2. /\ call.stage = stage
      /\ call.request = r
      /\ call.left = left
      /\ call.shown = shown
      /\ call.draft = draft
  OBVIOUS
<1>3. call # NoCall
  BY <1>2 DEF NoCall
<1> HIDE DEF call
<1>4. calls' = [j \in Handlers |-> IF j = h THEN call ELSE calls[j]]
  BY <1>1
<1> QED BY <1>2, <1>3, <1>4 DEF CallsState

(* What the other handlers know stays true. *)
LEMMA OneHandlerMoves ==
    ASSUME APIInv, Recorded, NEW h \in Handlers,
           \A j \in Handlers \ {h} : calls'[j] = calls[j],
           \/ registryCurrent' = {}
           \/ registryCurrent' \subseteq registryCurrent \cup {h} /\ UNCHANGED registry,
           HandlerInv(h)'
    PROVE  \A j \in Handlers : HandlerInv(j)'
<1> SUFFICES ASSUME NEW j \in Handlers, j # h PROVE HandlerInv(j)'
  OBVIOUS
<1> QED BY OthersKeepHandlerInv DEF APIInv

(* A handler that answers. *)
LEMMA AnswerStep ==
    ASSUME APIInv, Recorded, NEW h \in Handlers, calls' = [calls EXCEPT ![h] = NoCall],
           h \notin registryCurrent',
           \/ registryCurrent' = {}
           \/ registryCurrent' \subseteq registryCurrent /\ UNCHANGED registry
    PROVE  CallsState' /\ \A j \in Handlers : HandlerInv(j)'
<1>1. /\ CallsState'
      /\ calls'[h] = NoCall
      /\ \A j \in Handlers \ {h} : calls'[j] = calls[j]
  BY AnswerCalls DEF APIInv
<1> QED BY <1>1, FreedHandlerInv, OneHandlerMoves

(* A request that is answered in one step and leaves the registry alone. *)
LEMMA OneStepRequest ==
    ASSUME APIInv, Recorded, NEW h \in Handlers, calls[h] = NoCall,
           calls' = [calls EXCEPT ![h] = NoCall],
           UNCHANGED <<registry, registryCurrent>>
    PROVE  CallsState' /\ \A j \in Handlers : HandlerInv(j)'
BY AnswerStep, FreeHoldsNothing DEF APIInv

LEMMA StoreKept ==
    ASSUME StoreState, ops' \in 0..MaxOps, UNCHANGED agents
    PROVE  StoreState'
BY DEF StoreState

LEMMA StoreWritten ==
    ASSUME StoreState, ops' \in 0..MaxOps, NEW k \in Keys, NEW object,
           agents' = [agents EXCEPT ![k] = object]
    PROVE  StoreState'
BY DEF StoreState

LEMMA MoveCounts ==
    ASSUME StoreState, UserMoves
    PROVE  ops' \in 0..MaxOps /\ ops' # ops
BY BoundsAssumption DEF StoreState, UserMoves

-----------------------------------------------------------------------------
(* Listings.                                                               *)

(* While everybody agrees on the settings, they are not being rewritten. *)
LEMMA NotTorn ==
    ASSUME RegistryInv, NEW s, SettingsInForce \subseteq {s}, NEW r
    PROVE  discoveryConfig = s /\ ~Torn(r)
<1>1. discoveryConfig = s
  BY DEF SettingsInForce
<1>2. registryPC = "push" => reg.scope = s
  BY DEF RegistryInv, RegistryPass, SettingsInForce
<1> QED BY <1>1, <1>2 DEF Torn

LEMMA ListAgentsStep ==
    ASSUME APIInv, Recorded, NEW h \in Handlers, NEW r \in Requests, ListAgents(h, r)
    PROVE  CallsState' /\ \A j \in Handlers : HandlerInv(j)'
<1>1. /\ calls[h] = NoCall
      /\ UNCHANGED <<cache, registryVars>>
  BY DEF ListAgents, Arrives, storeVars
<1>2. PICK keys \in Selections(r, Listed(r)) :
          GoOn(h, r, "filter", [k \in keys |-> cache[k]], {}, NoRegistry)
  BY DEF ListAgents
<1> DEFINE left == [k \in keys |-> cache[k]]
<1>3. /\ CallsState'
      /\ calls'[h] # NoCall
      /\ calls'[h].stage = "filter"
      /\ calls'[h].request = r
      /\ calls'[h].left = left
      /\ calls'[h].shown = {}
      /\ \A j \in Handlers \ {h} : calls'[j] = calls[j]
  BY <1>2, GoOnCalls DEF APIInv
<1>4. /\ snapshot'[h].cache = cache
      /\ inForce'[h] = SettingsInForce'
  BY <1>1, <1>3 DEF Recorded, APIInv, HandlerInv, Watched
<1>5. SettingsInForce' = SettingsInForce
  BY <1>1 DEF SettingsInForce, registryVars
<1>6. ASSUME NEW s, r.leader, SettingsInForce = {s}
      PROVE  /\ DOMAIN left \subseteq Chosen(r, s, cache)
             /\ Due(r, s, cache, left) = {}
  <2>1. discoveryConfig = s /\ ~Torn(r)
    BY <1>6, NotTorn DEF APIInv
  <2>2. keys = {k \in Listed(r) : Selected(s, cache[k])}
    BY <1>2, <1>6, <2>1 DEF Selections, SettingsOf
  <2>3. keys = Chosen(r, s, cache)
    BY <2>2 DEF Listed, Chosen
  <2> QED BY <2>3 DEF Due
<1>7. ListFits(h)'
  <2>1. \A k \in DOMAIN left : left[k] = cache[k]
    OBVIOUS
  <2> HIDE DEF left
  <2>2. {e.key : e \in {}} = {}
    OBVIOUS
  <2> QED BY <1>3, <1>4, <1>5, <1>6, <2>1, <2>2 DEF ListFits
<1>8. h \notin registryCurrent'
  BY <1>1, FreeHoldsNothing DEF APIInv, registryVars
<1>9. HandlerInv(h)'
  BY <1>3, <1>7, <1>8, AlwaysWatched DEF HandlerInv
<1> QED BY <1>1, <1>3, <1>9, OneHandlerMoves DEF registryVars

LEMMA ListEntryStep ==
    ASSUME APIInv, Recorded, NEW h \in Handlers, ListEntry(h)
    PROVE  CallsState' /\ \A j \in Handlers : HandlerInv(j)'
<1> DEFINE r == calls[h].request
           list == snapshot[h].cache
           left == calls[h].left
           shown == calls[h].shown
<1>1. /\ calls[h].stage = "filter"
      /\ UNCHANGED registryVars
  BY DEF ListEntry, In
<1>2. PICK k \in DOMAIN left, found \in BOOLEAN :
          /\ Torn(r) \/ found = InNamespaces(SettingsOf(r), k)
          /\ Filtered(h, k, left[k].spec.enabled /\ found /\ Wanted(r, left[k]))
  BY DEF ListEntry
<1> DEFINE kept == left[k].spec.enabled /\ found /\ Wanted(r, left[k])
           left2 == [o \in DOMAIN left \ {k} |-> left[o]]
           shown2 == IF kept THEN shown \cup {agentToEntry(k, left[k])} ELSE shown
<1>3. /\ CallsState'
      /\ calls'[h] # NoCall
      /\ calls'[h].stage = "filter"
      /\ calls'[h].request = r
      /\ calls'[h].left = left2
      /\ calls'[h].shown = shown2
      /\ \A j \in Handlers \ {h} : calls'[j] = calls[j]
  <2>1. GoOn(h, r, "filter", left2, shown2, NoRegistry)
    BY <1>2 DEF Filtered
  <2> HIDE DEF left2, shown2
  <2> QED BY <2>1, GoOnCalls DEF APIInv
<1>4. /\ calls[h] # NoCall
      /\ ListFits(h)
      /\ Watched(h)
      /\ HandlerInv(h)
      /\ h \notin registryCurrent
  <2>1. HandlerInv(h)
    BY DEF APIInv
  <2> QED BY <1>1, <2>1, BusyHandler DEF HandlerInv
<1>5. snapshot'[h].cache = list
  BY <1>3, <1>4 DEF Recorded
<1>6. /\ \A o \in DOMAIN left2 : left2[o] = list[o]
      /\ DOMAIN left2 = DOMAIN left \ {k}
      /\ left[k] = list[k]
  BY <1>2, <1>4 DEF ListFits
<1>7. {e.key : e \in shown2} = {e.key : e \in shown} \cup (IF kept THEN {k} ELSE {})
  <2>1. agentToEntry(k, left[k]).key = k
    BY DEF agentToEntry
  <2> QED BY <2>1
<1>8. ASSUME NEW s, r.leader, inForce'[h] = {s}
      PROVE  /\ DOMAIN left2 \subseteq Chosen(r, s, list)
             /\ {e.key : e \in shown2} = Due(r, s, list, left2)
  <2>1. inForce[h] = {s}
    BY <1>3, <1>4, <1>8, SettledBefore
  <2>2. /\ DOMAIN left \subseteq Chosen(r, s, list)
        /\ {e.key : e \in shown} = Due(r, s, list, left)
    BY <1>4, <1>8, <2>1 DEF ListFits
  <2>3. discoveryConfig = s /\ ~Torn(r)
    BY <1>4, <2>1, NotTorn DEF APIInv, Watched
  <2>4. found = InNamespaces(s, k)
    BY <1>2, <1>8, <2>3 DEF SettingsOf
  <2>5. kept <=> list[k].spec.enabled /\ InNamespaces(s, k) /\ Wanted(r, list[k])
    BY <1>6, <2>4
  <2> HIDE DEF kept, r, list, left
  <2>6. Due(r, s, list, left2)
            = Due(r, s, list, left) \cup (IF kept THEN {k} ELSE {})
    BY <1>2, <1>6, <2>2, <2>5 DEF Due
  <2> QED BY <1>6, <1>7, <2>2, <2>6
<1>9. ListFits(h)'
  <2> HIDE DEF r, list, left2, shown2
  <2> QED BY <1>3, <1>5, <1>6, <1>8 DEF ListFits
<1>10. HandlerInv(h)'
  BY <1>1, <1>3, <1>4, <1>9, AlwaysWatched DEF HandlerInv, registryVars
<1> QED BY <1>1, <1>3, <1>10, OneHandlerMoves DEF registryVars

LEMMA ListAnswerStep ==
    ASSUME APIInv, Recorded, NEW h \in Handlers, ListAnswer(h) \/ ListPanics(h)
    PROVE  CallsState' /\ \A j \in Handlers : HandlerInv(j)'
<1>1. /\ calls[h].stage = "filter"
      /\ UNCHANGED <<registry, registryCurrent>>
  BY DEF ListAnswer, ListPanics, In, registryVars
<1>2. calls' = [calls EXCEPT ![h] = NoCall]
  BY DEF ListAnswer, ListPanics, Answer
<1>3. h \notin registryCurrent'
  BY <1>1, BusyHandler DEF APIInv
<1> QED BY <1>1, <1>2, <1>3, AnswerStep

-----------------------------------------------------------------------------
(* Registrations.                                                          *)

LEMMA RegisterAgentStep ==
    ASSUME APIInv, Recorded, NEW h \in Handlers, NEW r \in Requests,
           RegisterAgent(h, r)
    PROVE  CallsState' /\ \A j \in Handlers : HandlerInv(j)'
<1>1. /\ calls[h] = NoCall
      /\ UNCHANGED <<agents, cache, registry, registryCurrent>>
  BY DEF RegisterAgent, Arrives, storeVars, registryVars
<1>2. ASSUME calls' = [calls EXCEPT ![h] = NoCall]
      PROVE  CallsState' /\ \A j \in Handlers : HandlerInv(j)'
  BY <1>1, <1>2, OneStepRequest
<1>3. ASSUME ~Taken(r), GoOn(h, r, "create", <<>>, {}, NoRegistry)
      PROVE  CallsState' /\ \A j \in Handlers : HandlerInv(j)'
  <2>1. /\ CallsState'
        /\ calls'[h] # NoCall
        /\ calls'[h].stage = "create"
        /\ calls'[h].request = r
        /\ \A j \in Handlers \ {h} : calls'[j] = calls[j]
    BY <1>3, GoOnCalls DEF APIInv
  <2>2. snapshot'[h].fresh = {k \in Keys : cache[k] = agents[k]}
    BY <1>1, <2>1 DEF Recorded
  <2>3. FreshURL(h)'
    BY <1>1, <1>3, <2>1, <2>2 DEF FreshURL, Taken
  <2>4. h \notin registryCurrent'
    BY <1>1, FreeHoldsNothing DEF APIInv
  <2>5. HandlerInv(h)'
    BY <2>1, <2>3, <2>4, AlwaysWatched DEF HandlerInv
  <2> QED BY <1>1, <2>1, <2>5, OneHandlerMoves
<1> QED BY <1>2, <1>3 DEF RegisterAgent, Answer

LEMMA RegisterCreateStep ==
    ASSUME APIInv, Recorded, NEW h \in Handlers, RegisterCreate(h)
    PROVE  CallsState' /\ StoreState' /\ \A j \in Handlers : HandlerInv(j)'
<1> DEFINE k == NewKey(calls[h].request)
<1>1. /\ calls[h].stage = "create"
      /\ UNCHANGED <<registry, registryCurrent, ops>>
  BY DEF RegisterCreate, In, worldVars, registryVars
<1>2. calls' = [calls EXCEPT ![h] = NoCall]
  BY DEF RegisterCreate, Answer
<1>3. CallsState' /\ \A j \in Handlers : HandlerInv(j)'
  <2>1. h \notin registryCurrent'
    BY <1>1, BusyHandler DEF APIInv
  <2> QED BY <1>1, <1>2, <2>1, AnswerStep
<1>4. \/ UNCHANGED agents
      \/ k \in Keys /\ \E s : agents' = [agents EXCEPT ![k] = NewAgent(s)]
  BY DEF RegisterCreate
<1> HIDE DEF k
<1>5. StoreState'
  BY <1>1, <1>4, StoreKept, StoreWritten DEF APIInv, StoreState
<1> QED BY <1>3, <1>5

(* Delete requests of users, clients and the registry controller. *)
LEMMA DeleteStore ==
    ASSUME StoreState, ops' \in 0..MaxOps, NEW k \in Keys, RequestDelete(k)
    PROVE  StoreState'
BY StoreWritten DEF RequestDelete, Remove

LEMMA DeregisterAgentStep ==
    ASSUME APIInv, Recorded, NEW h \in Handlers, NEW r \in Requests,
           DeregisterAgent(h, r)
    PROVE  CallsState' /\ StoreState' /\ \A j \in Handlers : HandlerInv(j)'
<1>1. /\ calls[h] = NoCall
      /\ UserMoves
      /\ UNCHANGED <<registry, registryCurrent>>
  BY DEF DeregisterAgent, Arrives, registryVars
<1>2. calls' = [calls EXCEPT ![h] = NoCall]
  BY DEF DeregisterAgent, Answer
<1>3. CallsState' /\ \A j \in Handlers : HandlerInv(j)'
  BY <1>1, <1>2, OneStepRequest
<1>4. StoreState /\ ops' \in 0..MaxOps
  BY <1>1, MoveCounts DEF APIInv
<1>5. UNCHANGED agents \/ \E k \in Keys : RequestDelete(k)
  BY DEF DeregisterAgent
<1>6. StoreState'
  BY <1>4, <1>5, StoreKept, DeleteStore
<1> QED BY <1>3, <1>6

-----------------------------------------------------------------------------
(* Changes of the settings.                                                *)

LEMMA MergedType ==
    ASSUME NEW policy \in Configs, NEW r \in Requests
    PROVE  Merged(policy, r.policy) \in Configs
BY FlagsAssumption DEF Merged, Configs

LEMMA UpdateConfigStep ==
    ASSUME APIInv, Recorded, NEW h \in Handlers, NEW r \in Requests,
           UpdateConfig(h, r)
    PROVE  CallsState' /\ RegistryInv' /\ \A j \in Handlers : HandlerInv(j)'
<1>1. /\ calls[h] = NoCall
      /\ h \notin registryCurrent
      /\ UNCHANGED <<config, registry, registryCache, registryPC, reg, stale,
                     registryQueued, registryDelayed, discoveryConfig>>
  BY FreeHoldsNothing DEF UpdateConfig, Arrives, APIInv
<1>2. CASE Answer(h, r, 404, {}) /\ UNCHANGED registryCurrent
  BY <1>1, <1>2, OneStepRequest, RegistryFrame DEF APIInv, registryVars, Answer
<1> DEFINE draft == [registryCache EXCEPT !.policy = Merged(@, r.policy)]
<1>3. CASE /\ registryCache # NoRegistry
           /\ GoOn(h, r, "write", <<>>, {}, draft)
           /\ registryCurrent' = IF "cache" \in registryCurrent
                                 THEN registryCurrent \cup {h}
                                 ELSE registryCurrent
  <2>1. /\ CallsState'
        /\ calls'[h].stage = "write"
        /\ calls'[h].request = r
        /\ calls'[h].draft = draft
        /\ \A j \in Handlers \ {h} : calls'[j] = calls[j]
    <3> HIDE DEF draft
    <3> QED BY <1>3, GoOnCalls DEF APIInv
  <2>2. h \in registryCurrent' => registryCache = registry
    BY <1>1, <1>3 DEF APIInv, RegistryInv, RegistryCopies
  <2>3. h \in registryCurrent' => DraftFits(h)'
    BY <1>1, <1>3, <2>1, <2>2 DEF DraftFits
  <2>4. HandlerInv(h)'
    BY <2>1, <2>3, AlwaysWatched DEF HandlerInv
  <2>5. RegistryInv'
    <3>1. /\ "cache" \in registryCurrent' => "cache" \in registryCurrent
          /\ "worker" \in registryCurrent' => "worker" \in registryCurrent
          /\ registryCurrent' \subseteq registryCurrent \cup {h}
      BY <1>3, HandlerIsNeither
    <3> QED
      BY <1>1, <3>1
      DEF APIInv, RegistryInv, RegistryTypeOK, RegistryCopies, RegistryPass,
          SameRegistry, PolicyFromCache, PolicyOf
  <2>6. registryCurrent' \subseteq registryCurrent \cup {h} /\ UNCHANGED registry
    BY <1>1, <1>3
  <2> QED BY <2>1, <2>4, <2>5, <2>6, OneHandlerMoves
<1> QED BY <1>2, <1>3 DEF UpdateConfig

(* What an accepted PUT stores: the settings it names, over the stored ones. *)
LEMMA AcceptedConfig ==
    ASSUME APIInv, NEW h \in Handlers, h \in registryCurrent,
           registry' = [calls[h].draft EXCEPT !.status = registry.status]
    PROVE  /\ registry \in Registry
           /\ registry' \in Registry
           /\ registry'.scope = registry.scope
           /\ registry'.deleting = registry.deleting
           /\ registry'.finalizer = registry.finalizer
           /\ registry'.policy = Merged(registry.policy, calls[h].request.policy)
<1> DEFINE p == Merged(registry.policy, calls[h].request.policy)
<1>1. /\ calls[h].request \in Requests
      /\ registry # NoRegistry
      /\ calls[h].draft = [registry EXCEPT !.policy = p]
  BY DEF APIInv, HandlerInv, DraftFits
<1>2. registry \in Registry
  BY <1>1 DEF APIInv, RegistryInv, RegistryTypeOK
<1>3. p \in Configs
  BY <1>1, <1>2, MergedType DEF Registry
<1> HIDE DEF p
<1>4. /\ calls[h].draft \in Registry
      /\ calls[h].draft.scope = registry.scope
      /\ calls[h].draft.deleting = registry.deleting
      /\ calls[h].draft.finalizer = registry.finalizer
      /\ calls[h].draft.policy = p
  BY <1>1, <1>2, <1>3 DEF Registry
<1>5. /\ registry' \in Registry
      /\ registry'.scope = registry.scope
      /\ registry'.deleting = registry.deleting
      /\ registry'.finalizer = registry.finalizer
      /\ registry'.policy = p
  BY <1>2, <1>4 DEF Registry
<1> QED BY <1>2, <1>5 DEF p

LEMMA ConfigWriteStep ==
    ASSUME APIInv, Recorded, NEW h \in Handlers, ConfigWrite(h)
    PROVE  CallsState' /\ RegistryInv' /\ \A j \in Handlers : HandlerInv(j)'
<1>1. UNCHANGED <<config, registryCache, registryPC, reg, stale, registryQueued,
                  registryDelayed, discoveryConfig>>
  BY DEF ConfigWrite, clusterVars
<1>2. ASSUME UNCHANGED registry, registryCurrent' = registryCurrent \ {h}
      PROVE  RegistryInv'
  BY <1>1, <1>2
  DEF APIInv, RegistryInv, RegistryTypeOK, RegistryCopies, RegistryPass,
      SameRegistry, PolicyFromCache, PolicyOf
<1>3. CASE /\ h \in registryCurrent
           /\ registry' = [calls[h].draft EXCEPT !.status = registry.status]
           /\ registryCurrent' = IF registry' = registry
                                 THEN registryCurrent \ {h} ELSE {}
           /\ \/ Answer(h, calls[h].request, 200, {})
              \/ Answer(h, calls[h].request, 500, {})
  <2>1. registry' \in Registry
    BY <1>3, AcceptedConfig
  <2>2. CallsState' /\ \A j \in Handlers : HandlerInv(j)'
    BY <1>3, AnswerStep DEF Answer
  <2>3. CASE registryCurrent' = {}
    BY <1>1, <2>1, <2>2, <2>3, RegistryOverwritten DEF APIInv
  <2>4. CASE registry' = registry /\ registryCurrent' = registryCurrent \ {h}
    BY <1>2, <2>2, <2>4
  <2> QED BY <1>3, <2>3, <2>4
<1>4. CASE /\ Answer(h, calls[h].request, 500, {})
           /\ registryCurrent' = registryCurrent \ {h}
           /\ UNCHANGED registry
  <2>1. CallsState' /\ \A j \in Handlers : HandlerInv(j)'
    BY <1>4, AnswerStep DEF Answer
  <2> QED BY <1>2, <1>4, <2>1
<1> QED BY <1>3, <1>4 DEF ConfigWrite

LEMMA HandleStep ==
    ASSUME APIInv, Recorded, NEW h \in Handlers, Handle(h)
    PROVE  APIInv'
<1> DEFINE Handlers2 == CallsState' /\ \A j \in Handlers : HandlerInv(j)'
<1>1. ASSUME UserMoves, UNCHANGED <<agents, config, registryVars>>, Handlers2
      PROVE  APIInv'
  BY <1>1, MoveCounts, StoreKept, RegistryFrame DEF APIInv
<1>2. ASSUME UNCHANGED <<clusterVars, registryVars>>, Handlers2
      PROVE  APIInv'
  BY <1>2, StoreKept, RegistryFrame DEF APIInv, StoreState, clusterVars
<1>3. ASSUME NEW r \in Requests, ListAgents(h, r)
      PROVE  APIInv'
  BY <1>1, <1>3, ListAgentsStep DEF ListAgents, Arrives, storeVars
<1>4. ASSUME NEW r \in Requests,
             Search(h, r) \/ GetAgent(h, r) \/ GetAgentCard(h, r) \/ Config(h, r)
      PROVE  APIInv'
  <2>1. /\ UserMoves
        /\ calls[h] = NoCall
        /\ UNCHANGED <<agents, config, registryVars>>
    BY <1>4 DEF Search, GetAgent, GetAgentCard, Config, Arrives, storeVars
  <2>2. calls' = [calls EXCEPT ![h] = NoCall]
    BY <1>4 DEF Search, GetAgent, GetAgentCard, Config, Answer
  <2> QED BY <1>1, <2>1, <2>2, OneStepRequest DEF registryVars
<1>5. ASSUME NEW r \in Requests, RegisterAgent(h, r)
      PROVE  APIInv'
  BY <1>1, <1>5, RegisterAgentStep DEF RegisterAgent, Arrives, storeVars
<1>6. ASSUME NEW r \in Requests, DeregisterAgent(h, r)
      PROVE  APIInv'
  BY <1>6, DeregisterAgentStep, RegistryFrame DEF DeregisterAgent, APIInv
<1>7. ASSUME NEW r \in Requests, UpdateConfig(h, r)
      PROVE  APIInv'
  <2>1. StoreState'
    BY <1>7, MoveCounts, StoreKept DEF UpdateConfig, Arrives, storeVars, APIInv
  <2> QED BY <1>7, <2>1, UpdateConfigStep DEF APIInv
<1>8. CASE ListEntry(h)
  BY <1>2, <1>8, ListEntryStep DEF ListEntry
<1>9. CASE ListAnswer(h) \/ ListPanics(h)
  BY <1>2, <1>9, ListAnswerStep DEF ListAnswer, ListPanics
<1>10. CASE RegisterCreate(h)
  BY <1>10, RegisterCreateStep, RegistryFrame DEF RegisterCreate, APIInv, worldVars
<1>11. CASE ConfigWrite(h)
  <2>1. StoreState'
    BY <1>11, StoreKept DEF ConfigWrite, clusterVars, APIInv, StoreState
  <2> QED BY <1>11, <2>1, ConfigWriteStep DEF APIInv
<1> QED
  BY <1>3, <1>4, <1>5, <1>6, <1>7, <1>8, <1>9, <1>10, <1>11 DEF Handle

-----------------------------------------------------------------------------
(* Everybody else.                                                         *)

(* No handler moves, and whoever still holds a current copy of the registry *)
(* held it before.                                                          *)
LEMMA HandlersRest ==
    ASSUME APIInv, Recorded, UNCHANGED calls, RegistryInv', StoreState',
           \A h \in Handlers :
               h \in registryCurrent' => h \in registryCurrent /\ UNCHANGED registry
    PROVE  APIInv'
<1>1. CallsState'
  BY DEF APIInv, CallsState
<1>2. \A h \in Handlers : HandlerInv(h)'
  BY OthersKeepHandlerInv DEF APIInv
<1> QED BY <1>1, <1>2 DEF APIInv

LEMMA UsersStep ==
    ASSUME APIInv, Recorded, Users
    PROVE  APIInv'
<1>1. UNCHANGED calls
  BY DEF Users
<1>2. ASSUME NEW k \in Keys, UserCreate(k) \/ UserEdit(k) \/ UserDelete(k),
             UNCHANGED registryVars
      PROVE  APIInv'
  <2>1. UserMoves /\ UNCHANGED config
    BY <1>2 DEF UserCreate, UserEdit, UserDelete
  <2>2. ops' \in 0..MaxOps
    BY <2>1, MoveCounts DEF APIInv
  <2>3. StoreState'
    BY <1>2, <2>2, StoreWritten, DeleteStore
    DEF UserCreate, UserEdit, UserDelete, APIInv
  <2>4. RegistryInv'
    BY <1>2, <2>1, RegistryFrame DEF APIInv
  <2> QED BY <1>1, <1>2, <2>3, <2>4, HandlersRest DEF registryVars
<1>3. CASE UserCreateRegistry \/ UserEditRegistry \/ UserDeleteRegistry
  <2>1. UserMoves /\ UNCHANGED agents /\ registryCurrent' = {}
    BY <1>3 DEF UserCreateRegistry, UserEditRegistry, UserDeleteRegistry, storeVars
  <2>2. StoreState'
    BY <2>1, MoveCounts, StoreKept DEF APIInv
  <2>3. RegistryInv'
    BY <1>3, RegistryUserStep DEF APIInv
  <2> QED BY <1>1, <2>1, <2>2, <2>3, HandlersRest
<1> QED BY <1>2, <1>3 DEF Users

LEMMA InformerStep ==
    ASSUME APIInv, Recorded, Informer
    PROVE  APIInv'
<1>1. UNCHANGED calls
  BY DEF Informer
<1>2. ASSUME NEW k \in Keys, Deliver(k), UNCHANGED <<worldVars, registryVars>>
      PROVE  APIInv'
  <2>1. StoreState'
    BY <1>2, StoreKept DEF Deliver, worldVars, APIInv, StoreState
  <2>2. RegistryInv'
    BY <1>2, RegistryFrame DEF worldVars, APIInv
  <2> QED BY <1>1, <1>2, <2>1, <2>2, HandlersRest DEF registryVars
<1>3. CASE RegistrySync
  <2>1. StoreState'
    BY <1>3, StoreKept DEF RegistrySync, storeVars, APIInv, StoreState
  <2>2. RegistryInv'
    BY <1>3, RegistrySyncStep DEF APIInv
  <2>3. ASSUME NEW h \in Handlers, h \in registryCurrent'
        PROVE  h \in registryCurrent /\ UNCHANGED registry
    BY <1>3, <2>3, HandlerIsNeither DEF RegistrySync
  <2> QED BY <1>1, <2>1, <2>2, <2>3, HandlersRest
<1> QED BY <1>2, <1>3 DEF Informer

LEMMA RegistryWorkerStep ==
    ASSUME APIInv, Recorded, RegistryWorker
    PROVE  APIInv'
<1>1. UNCHANGED calls
  BY DEF RegistryWorker
<1>2. CASE RegistryTimer
  <2>1. StoreState'
    BY <1>2, StoreKept DEF RegistryTimer, clusterVars, APIInv, StoreState
  <2>2. RegistryInv'
    BY <1>2, RegistryTimerStep DEF APIInv
  <2> QED BY <1>1, <1>2, <2>1, <2>2, HandlersRest DEF RegistryTimer
<1>3. CASE ReconcileRegistry
  <2>1. StoreState'
    <3>1. UNCHANGED ops
      BY <1>3 DEF ReconcileRegistry, RegistryGet, RegistryRemoveFinalizer,
                  RegistryAddFinalizer, RegistryList, Prune, RegistryWriteStatus,
                  PushConfig, RegistryConflict, clusterVars, worldVars
    <3>2. UNCHANGED agents \/ \E k \in Keys : RequestDelete(k)
      BY <1>3 DEF ReconcileRegistry, RegistryGet, RegistryRemoveFinalizer,
                  RegistryAddFinalizer, RegistryList, Prune, RegistryWriteStatus,
                  PushConfig, RegistryConflict, clusterVars
    <3> QED BY <3>1, <3>2, StoreKept, DeleteStore DEF APIInv, StoreState
  <2>2. RegistryInv'
    BY <1>3, ReconcileRegistryStep DEF APIInv
  <2>3. ASSUME NEW h \in Handlers, h \in registryCurrent'
        PROVE  h \in registryCurrent /\ UNCHANGED registry
    BY <1>3, <2>3, HandlerIsNeither, OthersHoldOn DEF APIInv
  <2> QED BY <1>1, <2>1, <2>2, <2>3, HandlersRest
<1> QED BY <1>2, <1>3 DEF RegistryWorker

LEMMA RestartStep ==
    ASSUME APIInv, Recorded, Restart
    PROVE  APIInv'
<1>1. /\ UserMoves
      /\ UNCHANGED <<agents, registry>>
      /\ RegistryRestart
      /\ config' = PolicyOf(registry)
      /\ calls' = [h \in Handlers |-> NoCall]
      /\ registryCurrent' = {"cache"}
  BY DEF Restart, Relist, RegistryRestart
<1>2. StoreState'
  BY <1>1, MoveCounts, StoreKept DEF APIInv
<1>3. RegistryInv'
  BY <1>1, RegistryRestartStep DEF APIInv
<1>4. CallsState'
  BY <1>1 DEF CallsState
<1>5. \A h \in Handlers : HandlerInv(h)'
  BY <1>1, FreedHandlerInv, HandlerIsNeither
<1> QED BY <1>2, <1>3, <1>4, <1>5 DEF APIInv

LEMMA NextAPIInv ==
    ASSUME APIInv, [Next]_vars
    PROVE  APIInv'
<1>1. CASE UNCHANGED vars
  <2>1. UNCHANGED <<clusterVars, registryVars, calls, inForce, snapshot>>
    BY <1>1 DEF vars, apiVars
  <2>2. RegistryInv'
    BY <2>1, RegistryFrame DEF APIInv, clusterVars
  <2>3. StoreState' /\ CallsState'
    BY <2>1 DEF APIInv, StoreState, CallsState, clusterVars
  <2>4. ASSUME NEW h \in Handlers
        PROVE  HandlerInv(h)'
    <3>1. HandlerInv(h)
      BY DEF APIInv
    <3>2. /\ DraftFits(h) => DraftFits(h)'
          /\ FreshURL(h) => FreshURL(h)'
          /\ ListFits(h) => ListFits(h)'
          /\ Watched(h) => Watched(h)'
      BY <2>1 DEF DraftFits, FreshURL, ListFits, Watched, SettingsInForce,
                  clusterVars, registryVars
    <3> QED BY <2>1, <3>1, <3>2 DEF HandlerInv, registryVars
  <2> QED BY <2>2, <2>3, <2>4 DEF APIInv
<1> QED
  BY <1>1, UsersStep, InformerStep, RegistryWorkerStep, HandleStep, RestartStep
  DEF Next

LEMMA InitAPIInv ==
    ASSUME Init
    PROVE  APIInv
<1>1. RegistryInv
  BY RegistryInitInv DEF Init
<1>2. CallsState /\ StoreState
  BY BoundsAssumption DEF Init, ClusterInit, CallsState, StoreState
<1>3. \A h \in Handlers : HandlerInv(h)
  BY HandlerIsNeither DEF Init, RegistryInit, HandlerInv, Watched, NoCall
<1> QED BY <1>1, <1>2, <1>3 DEF APIInv

(* What a handler knows between two of its steps stays true, whatever the  *)
(* other handlers, the registry controller, users and restarts do.         *)
THEOREM APIInvHolds == Spec => []APIInv
<1>1. Init => APIInv
  BY InitAPIInv
<1>2. APIInv /\ [Next]_vars => APIInv'
  BY NextAPIInv
<1> QED BY <1>1, <1>2, PTL DEF Spec

-----------------------------------------------------------------------------
(* The properties of the answers.                                          *)

LEMMA OneHandlerAtATime ==
    ASSUME CallsState, NEW j \in Handlers, Handle(j), NEW h \in Handlers, h # j
    PROVE  calls'[h] = calls[h]
<1>1. CASE calls' = [calls EXCEPT ![j] = NoCall]
  BY <1>1 DEF CallsState
<1>2. ASSUME NEW r, NEW stage, NEW left, NEW shown, NEW draft,
             GoOn(j, r, stage, left, shown, draft)
      PROVE  calls'[h] = calls[h]
  BY <1>2 DEF GoOn, CallsState
<1>3. ASSUME NEW r \in Requests,
             \/ ListAgents(j, r) \/ Search(j, r) \/ GetAgent(j, r)
             \/ GetAgentCard(j, r) \/ RegisterAgent(j, r) \/ DeregisterAgent(j, r)
             \/ Config(j, r) \/ UpdateConfig(j, r)
      PROVE  calls'[h] = calls[h]
  BY <1>1, <1>2, <1>3 DEF ListAgents, Search, GetAgent, GetAgentCard,
                          RegisterAgent, DeregisterAgent, Config, UpdateConfig,
                          Answer
<1>4. CASE ListEntry(j) \/ ListAnswer(j) \/ ListPanics(j) \/ RegisterCreate(j)
               \/ ConfigWrite(j)
  BY <1>1, <1>2, <1>4 DEF ListEntry, Filtered, ListAnswer, ListPanics,
                          RegisterCreate, ConfigWrite, Answer
<1> QED BY <1>3, <1>4 DEF Handle

(* The end of a request that took several steps. *)
LEMMA WhoEnds ==
    ASSUME APIInv, [Next]_vars, NEW h \in Handlers,
           calls[h].stage # "free", calls'[h] = NoCall
    PROVE  \/ ListAnswer(h) \/ ListPanics(h) \/ RegisterCreate(h)
           \/ ConfigWrite(h) \/ Restart
<1>1. calls[h] # NoCall
  BY DEF NoCall
<1>2. UNCHANGED vars => UNCHANGED calls
  BY DEF vars, apiVars
<1>3. ~Users /\ ~Informer /\ ~RegistryWorker
  BY <1>1 DEF Users, Informer, RegistryWorker
<1>4. SUFFICES ASSUME ~Restart
               PROVE  \/ ListAnswer(h) \/ ListPanics(h) \/ RegisterCreate(h)
                      \/ ConfigWrite(h)
  OBVIOUS
<1>5. PICK j \in Handlers : Handle(j)
  BY <1>1, <1>2, <1>3, <1>4 DEF Next
<1>6. j = h
  BY <1>1, <1>5, OneHandlerAtATime DEF APIInv
<1>7. ASSUME NEW r \in Requests
      PROVE  ~ (\/ ListAgents(h, r) \/ Search(h, r) \/ GetAgent(h, r)
                \/ GetAgentCard(h, r) \/ RegisterAgent(h, r)
                \/ DeregisterAgent(h, r) \/ Config(h, r) \/ UpdateConfig(h, r))
  BY <1>1 DEF ListAgents, Search, GetAgent, GetAgentCard, RegisterAgent,
              DeregisterAgent, Config, UpdateConfig, Arrives
<1>8. ~ListEntry(h)
  <2>1. ASSUME NEW r, NEW left, NEW shown,
               GoOn(h, r, "filter", left, shown, NoRegistry)
        PROVE  FALSE
    BY <2>1, GoOnCalls DEF APIInv
  <2> QED BY <2>1 DEF ListEntry, Filtered
<1> QED BY <1>5, <1>6, <1>7, <1>8 DEF Handle

(* A listing under settled settings is exact: the entries filtered one by  *)
(* one, each with its own look at the settings, make up what the settings  *)
(* and the client call for (handler.go, 191-263).                          *)
THEOREM SettledListings == Spec => SettledListing
<1>1. ASSUME APIInv, [Next]_vars, NEW h \in Handlers, NEW s \in inForce[h]
      PROVE  SettledAnswer(h, s)
  <2> DEFINE r == calls[h].request
             list == snapshot[h].cache
  <2>1. SUFFICES ASSUME Answers(h, "filter", 200),
                        r.leader, inForce[h] = {s}, s.labelSelector # "invalid"
                 PROVE  {e.key : e \in answer'.shown} =
                            {k \in Keys : /\ list[k] # NoAgent
                                          /\ Discoverable(s, k, list[k])
                                          /\ AskedFor(r, k, list[k])}
    BY DEF SettledAnswer
  <2>2. /\ calls[h].stage = "filter"
        /\ calls'[h] = NoCall
        /\ answer'.code = 200
    BY <2>1 DEF Answers, Ends
  <2>3. ListAnswer(h)
    <3>1. \/ ListAnswer(h) \/ ListPanics(h) \/ RegisterCreate(h)
          \/ ConfigWrite(h) \/ Restart
      BY <1>1, <2>2, WhoEnds
    <3> QED BY <2>2, <3>1 DEF ListPanics, RegisterCreate, ConfigWrite, Restart,
                              In, Answer, NoAnswer
  <2>4. answer'.shown = calls[h].shown /\ DOMAIN calls[h].left = {}
    BY <2>3 DEF ListAnswer, Answer
  <2>5. {e.key : e \in calls[h].shown} = Due(r, s, list, calls[h].left)
    <3>1. ListFits(h)
      BY <1>1, <2>2 DEF APIInv, HandlerInv
    <3> QED BY <2>1, <3>1 DEF ListFits
  <2>6. ASSUME NEW k \in Keys
        PROVE  /\ (r.namespace # "unset" => k[1] = r.namespace)
               /\ Selected(s, list[k])
               /\ list[k].spec.enabled
               /\ InNamespaces(s, k)
               /\ Wanted(r, list[k])
               <=> Discoverable(s, k, list[k]) /\ AskedFor(r, k, list[k])
    BY <2>1 DEF Selected, InNamespaces, Wanted, hasAnyTag, hasSkill, Discoverable,
                AskedFor
  <2>7. Due(r, s, list, calls[h].left) =
            {k \in Keys : /\ list[k] # NoAgent
                          /\ Discoverable(s, k, list[k])
                          /\ AskedFor(r, k, list[k])}
    BY <2>4, <2>6 DEF Due, Chosen
  <2> QED BY <2>4, <2>5, <2>7
<1>2. APIInv /\ [Next]_vars
          => [\A h \in Handlers : \A s \in inForce[h] : SettledAnswer(h, s)]_vars
  BY <1>1
<1> QED BY <1>2, APIInvHolds, PTL DEF Spec, SettledListing

(* A registration that is accepted for a taken URL lost a race or met a    *)
(* lagging cache, and no registration replaces an agent (handler.go,       *)
(* 337-410).                                                               *)
THEOREM RegistrationsAreFresh == Spec => RegistersAfresh
<1>1. ASSUME APIInv, [Next]_vars, NEW h \in Handlers
      PROVE  RegistersFresh(h)
  <2> SUFFICES ASSUME Ends(h, "create"), agents' # agents
               PROVE  /\ \A o \in snapshot[h].fresh :
                             agents[o] # NoAgent
                                 => agents[o].spec.url # calls[h].request.body.url
                      /\ \A k \in Keys : agents[k] # NoAgent
                                             => agents'[k] = agents[k]
    BY DEF RegistersFresh
  <2>1. calls[h].stage = "create" /\ calls'[h] = NoCall
    BY DEF Ends
  <2>2. RegisterCreate(h)
    <3>1. \/ ListAnswer(h) \/ ListPanics(h) \/ RegisterCreate(h)
          \/ ConfigWrite(h) \/ Restart
      BY <1>1, <2>1, WhoEnds
    <3>2. Restart => UNCHANGED agents
      BY DEF Restart, Relist
    <3> QED BY <2>1, <3>1, <3>2 DEF ListAnswer, ListPanics, ConfigWrite, In
  <2>3. FreshURL(h)
    BY <1>1, <2>1 DEF APIInv, HandlerInv
  <2>4. \A k \in Keys : agents[k] # NoAgent => agents'[k] = agents[k]
    BY <1>1, <2>2 DEF RegisterCreate, APIInv, StoreState
  <2> QED BY <2>3, <2>4 DEF FreshURL
<1>2. APIInv /\ [Next]_vars => [\A h \in Handlers : RegistersFresh(h)]_vars
  BY <1>1
<1> QED BY <1>2, APIInvHolds, PTL DEF Spec, RegistersAfresh

(* Only an accepted PUT changes the settings that it names, and only those *)
(* (handler.go, 69-110; a2aregistry_controller.go, 62-69, 130).            *)
THEOREM SettingsAreKept == Spec => SettingsKept
<1>1. ASSUME APIInv, [Next]_vars
      PROVE  KeepsSettings
  <2>1. ASSUME UNCHANGED registry \/ ops' # ops
        PROVE  KeepsSettings
    BY <2>1 DEF KeepsSettings
  <2>2. CASE UNCHANGED vars
    BY <2>1, <2>2 DEF vars, registryVars
  <2>3. CASE Users \/ Restart
    <3>1. UserMoves
      BY <2>3 DEF Users, UserCreate, UserEdit, UserDelete, UserCreateRegistry,
                  UserEditRegistry, UserDeleteRegistry, Restart
    <3> QED BY <1>1, <2>1, <3>1, MoveCounts DEF APIInv
  <2>4. CASE Informer
    BY <2>1, <2>4 DEF Informer, RegistrySync, registryVars
  <2>5. CASE RegistryWorker
    <3>1. RegistryTimer => UNCHANGED registry
      BY DEF RegistryTimer
    <3>2. ReconcileRegistry => \/ UNCHANGED registry
                               \/ registry' = NoRegistry
                               \/ OnlyOurs
      BY <1>1, ReconcileRegistryStep DEF APIInv
    <3>3. OnlyOurs \/ registry' = NoRegistry => KeepsSettings
      BY DEF KeepsSettings, OnlyOurs
    <3> QED BY <2>1, <2>5, <3>1, <3>2, <3>3 DEF RegistryWorker
  <2>6. ASSUME NEW h \in Handlers, ConfigWrite(h), h \in registryCurrent
        PROVE  KeepsSettings
    <3> DEFINE asked == calls[h].request.policy
    <3> SUFFICES ASSUME registry' # registry
                 PROVE  KeepsSettings
      BY <2>1
    <3>1. /\ registry' = [calls[h].draft EXCEPT !.status = registry.status]
          /\ calls[h].stage = "write"
          /\ calls' = [calls EXCEPT ![h] = NoCall]
      BY <2>6 DEF ConfigWrite, In, Answer
    <3>2. Ends(h, "write")
      BY <1>1, <3>1 DEF Ends, APIInv, CallsState
    <3>3. /\ registry'.scope = registry.scope
          /\ registry'.deleting = registry.deleting
          /\ registry'.finalizer = registry.finalizer
          /\ registry'.policy = Merged(registry.policy, asked)
      BY <1>1, <2>6, <3>1, AcceptedConfig
    <3>4. ASSUME NEW f \in DOMAIN registry.policy
          PROVE  registry'.policy[f] =
                     IF f \in DOMAIN asked THEN asked[f] ELSE registry.policy[f]
      BY <3>3 DEF Merged
    <3>5. ASSUME NEW f \in DOMAIN registry.policy
          PROVE  \/ registry'.policy[f] = registry.policy[f]
                 \/ \E j \in Handlers :
                       /\ Ends(j, "write")
                       /\ f \in DOMAIN calls[j].request.policy
                       /\ registry'.policy[f] = calls[j].request.policy[f]
      <4>1. CASE f \in DOMAIN asked
        BY <3>2, <3>4, <4>1
      <4>2. CASE f \notin DOMAIN asked
        BY <3>4, <4>2
      <4> QED BY <4>1, <4>2
    <3> QED BY <3>3, <3>5 DEF KeepsSettings
  <2>7. ASSUME NEW h \in Handlers, Handle(h), ~ (ConfigWrite(h) /\ h \in registryCurrent)
        PROVE  UNCHANGED registry
    BY <2>7 DEF Handle, ListAgents, Search, GetAgent, GetAgentCard, RegisterAgent,
                DeregisterAgent, Config, UpdateConfig, ListEntry, ListAnswer,
                ListPanics, RegisterCreate, ConfigWrite, registryVars
  <2> QED BY <1>1, <2>1, <2>2, <2>3, <2>4, <2>5, <2>6, <2>7 DEF Next
<1>2. APIInv /\ [Next]_vars => [KeepsSettings]_vars
  BY <1>1
<1> QED BY <1>2, APIInvHolds, PTL DEF Spec, SettingsKept

LEMMA CardRoute ==
    ASSUME NEW r, r.resource = "agents", Len(r.sub) = 2, r.sub[2] = "card"
    PROVE  Route(r) = "GetAgentCard"
<1>1. r.sub # <<>>
  OBVIOUS
<1> QED BY <1>1 DEF Route

(* The card that the API shows of an agent passes the card check against   *)
(* the agent's spec (handler.go, 294-320, 575-606;                         *)
(* a2aagent_controller.go, 282-305).                                       *)
THEOREM CardsDoMatch == Spec => CardsMatch
<1>1. ASSUME APIInv, [Next]_vars
      PROVE  ShowsMatchingCard
  <2> SUFFICES ASSUME answer'.code = 200, ops' # ops,
                      answer'.request.resource = "agents",
                      Len(answer'.request.sub) = 2, answer'.request.sub[2] = "card"
               PROVE  \A card \in answer'.shown :
                          checkCardMatch(cache[KeyOf(answer'.request)].spec, card)
    BY DEF ShowsMatchingCard, KeyOf, OrOutbound
  <2>1. UNCHANGED vars => UNCHANGED ops
    BY DEF vars, clusterVars
  <2>2. ~Users /\ ~Informer /\ ~RegistryWorker /\ ~Restart
    BY DEF Users, Informer, RegistryWorker, Restart, NoAnswer
  <2>3. PICK h \in Handlers : Handle(h)
    BY <1>1, <2>1, <2>2 DEF Next
  <2>4. PICK r \in Requests :
            \/ ListAgents(h, r) \/ Search(h, r) \/ GetAgent(h, r)
            \/ GetAgentCard(h, r) \/ RegisterAgent(h, r) \/ DeregisterAgent(h, r)
            \/ Config(h, r) \/ UpdateConfig(h, r)
    BY <2>3 DEF Handle, ListEntry, ListAnswer, ListPanics, RegisterCreate,
                ConfigWrite, clusterVars, worldVars
  <2>5. ~ListAgents(h, r) /\ ~RegisterAgent(h, r) /\ ~DeregisterAgent(h, r)
            /\ ~UpdateConfig(h, r)
    BY DEF ListAgents, RegisterAgent, DeregisterAgent, UpdateConfig, GoOn, Answer,
           NoAnswer
  <2>6. answer'.request = r
    <3>1. ASSUME NEW code, NEW shown, Answer(h, r, code, shown)
          PROVE  answer'.request = r
      BY <3>1 DEF Answer
    <3>2. CASE Search(h, r)
      BY <3>1, <3>2 DEF Search
    <3>3. CASE GetAgent(h, r)
      BY <3>1, <3>3 DEF GetAgent
    <3>4. CASE GetAgentCard(h, r)
      BY <3>1, <3>4 DEF GetAgentCard
    <3>5. CASE Config(h, r)
      BY <3>1, <3>5 DEF Config
    <3> QED BY <2>4, <2>5, <3>2, <3>3, <3>4, <3>5
  <2>7. GetAgentCard(h, r)
    BY <2>4, <2>5, <2>6, CardRoute DEF Search, GetAgent, Config, Arrives
  <2>8. answer'.shown = {agentToCard(cache[KeyOf(r)])}
    BY <2>7 DEF GetAgentCard, Answer
  <2>9. ASSUME NEW a PROVE checkCardMatch(a.spec, agentToCard(a))
    BY DEF checkCardMatch, agentToCard
  <2> QED BY <2>6, <2>8, <2>9
<1>2. APIInv /\ [Next]_vars => [ShowsMatchingCard]_vars
  BY <1>1
<1> QED BY <1>2, APIInvHolds, PTL DEF Spec, CardsMatch

=============================================================================
