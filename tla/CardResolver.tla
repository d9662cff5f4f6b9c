----------------------------- MODULE CardResolver -----------------------------
(***************************************************************************)
(* One health check after another of one agent, request by request: the    *)
(* controller reads the agent and then the Secret of spec.authentication   *)
(* through its cache (controllers/a2aagent_controller.go, Reconcile and    *)
(* buildAuthConfig), the resolver turns them into a header and asks the    *)
(* well-known paths in turn (internal/registry/resolver.go), the checker   *)
(* says healthy or not.                                                    *)
(* Meanwhile the endpoint moves its card from one path to another and asks *)
(* for other credentials, and users rotate the Secret and edit the spec.   *)
(*                                                                         *)
(* AgentController takes what a check returns as one answer of the         *)
(* endpoint; here it is the outcome of several requests.                   *)
(***************************************************************************)
EXTENDS Naturals, Sequences

LOCAL INSTANCE SequencesExt

CONSTANTS
    Auths,      \* spec.authentication: sequences of schemes, <<>> for none
    NoCopy,     \* no agent has been read
    Secrets,    \* contents a Secret may have
    NoKey,      \* a key that the Secret does not have
    NoHeader,   \* no Authorization header; an endpoint that asks for none
    Demands,    \* Authorization headers an endpoint may ask for
    Cards,      \* the cards an endpoint may serve
    NoCard,     \* no answer, a status other than 200, or no valid JSON
    MaxMoves    \* bound on the moves of users and of the endpoint

ASSUME ResolverAssumption ==
    /\ NoCopy \notin Auths
    /\ NoCard \notin Cards
    /\ NoHeader \notin Demands
    /\ MaxMoves \in Nat

(* In order of preference. *)
wellKnownPaths == <<"agent-card.json", "agent.json">>

Paths == {"agent-card.json", "agent.json"}

VARIABLES
    schemes,       \* the stored agent's spec.authentication.schemes
    schemesCache,  \* the informer's copy of them
    secret,        \* the stored Secret's data
    secretCache,   \* the informer's copy of it
    demand,        \* the header the endpoint asks for, or NoHeader
    offers,        \* the card each path serves, or NoCard
    copy,          \* the schemes of the agent that this pass read, or NoCopy
    attempt,       \* the path being asked, 0 between two checks
    headers,       \* what this check sends
    result,        \* what the last check returned: a card or NoCard
    steady,        \* history: the answers that were to be had since the check began
    moves          \* moves of users and of the endpoint

worldVars == <<schemes, schemesCache, secret, secretCache, demand, offers>>

checkVars == <<copy, attempt, headers, result>>

vars == <<worldVars, checkVars, steady, moves>>

(* A Secret that is missing or unreadable is an empty map, as is no Secret. *)
EmptyData == [token |-> NoKey, username |-> NoKey, password |-> NoKey]

-----------------------------------------------------------------------------
(* The header.  "empty" is a key with an empty value.                      *)

ToLower(scheme) ==
    CASE scheme = "Bearer" -> "bearer"
      [] scheme = "Basic"  -> "basic"
      [] OTHER             -> scheme

HeaderOf(scheme, data) ==
    CASE scheme = "bearer" /\ data.token # NoKey -> <<"Bearer", data.token>>
      [] scheme = "basic" /\ data.username \notin {NoKey, "empty"} ->
             <<"Basic", data.username, data.password>>
      [] OTHER -> NoHeader

buildAuthHeadersFirst(list, data) ==
    FoldRight(LAMBDA s, h : IF HeaderOf(ToLower(s), data) = NoHeader THEN h
                            ELSE HeaderOf(ToLower(s), data),
              list, NoHeader)

(* All schemes write one Authorization header: the last to do so wins. *)
buildAuthHeaders(list, data) ==
    FoldLeft(LAMBDA h, s : IF HeaderOf(ToLower(s), data) = NoHeader THEN h
                           ELSE HeaderOf(ToLower(s), data),
             NoHeader, list)

-----------------------------------------------------------------------------
(* What the endpoint does with a request.                                  *)

Accepts(header) == demand = NoHeader \/ demand = header

tryFetch(path, header) == IF Accepts(header) THEN offers[path] ELSE NoCard

(* The answers to be had right now. *)
Answers(header) ==
    {<<p, tryFetch(p, header)>> : p \in {q \in Paths : tryFetch(q, header) # NoCard}}

-----------------------------------------------------------------------------
(* The check.                                                              *)

Init ==
    /\ schemes \in Auths
    /\ schemesCache = schemes
    /\ secret \in Secrets \cup {EmptyData}
    /\ secretCache = secret
    /\ demand \in Demands \cup {NoHeader}
    /\ offers \in [Paths -> Cards \cup {NoCard}]
    /\ copy = NoCopy
    /\ attempt = 0
    /\ headers = NoHeader
    /\ result = NoCard
    /\ steady = {}
    /\ moves = 0

(* A pass begins with the cached agent, and goes by that copy. *)
GetAgent ==
    /\ copy = NoCopy
    /\ attempt = 0
    /\ copy' = schemesCache
    /\ UNCHANGED <<worldVars, attempt, headers, result, steady, moves>>

(* buildAuthConfig and FetchCardWithAuth: the cached Secret, as it is now. *)
StartCheck ==
    /\ copy # NoCopy
    /\ copy' = NoCopy
    /\ attempt' = 1
    /\ headers' = buildAuthHeaders(copy, secretCache)
    /\ steady' = Answers(headers')
    /\ UNCHANGED <<worldVars, result, moves>>

EndCheck(card) ==
    /\ attempt' = 0
    /\ headers' = NoHeader
    /\ result' = card
    /\ steady' = {}
    /\ UNCHANGED copy

TryOnce ==
    /\ attempt # 0
    /\ EndCheck(tryFetch(wellKnownPaths[attempt], headers))
    /\ UNCHANGED <<worldVars, moves>>

(* One round of the loop in fetchCard; after the last path, the error. *)
TryPath ==
    LET card == tryFetch(wellKnownPaths[attempt], headers) IN
    /\ attempt # 0
    /\ \/ /\ card # NoCard \/ attempt = Len(wellKnownPaths)
          /\ EndCheck(card)
       \/ /\ card = NoCard
          /\ attempt < Len(wellKnownPaths)
          /\ attempt' = attempt + 1
          /\ UNCHANGED <<copy, headers, result, steady>>
    /\ UNCHANGED <<worldVars, moves>>

-----------------------------------------------------------------------------
(* Users and the endpoint.                                                 *)

Move ==
    /\ moves < MaxMoves
    /\ moves' = moves + 1
    /\ UNCHANGED checkVars
    /\ \/ /\ schemes' \in Auths \ {schemes}
          /\ UNCHANGED <<secret, demand, offers>>
       \/ /\ secret' \in (Secrets \cup {EmptyData}) \ {secret}
          /\ UNCHANGED <<schemes, demand, offers>>
       \/ /\ demand' \in (Demands \cup {NoHeader}) \ {demand}
          /\ UNCHANGED <<schemes, secret, offers>>
       \/ /\ offers' \in [Paths -> Cards \cup {NoCard}] \ {offers}
          /\ UNCHANGED <<schemes, secret, demand>>
    /\ UNCHANGED <<schemesCache, secretCache>>
    /\ steady' = steady \cap Answers(headers)'

(* The informers of agents and of Secrets catch up, each in its own time.  *)
DeliverAgent ==
    /\ schemesCache # schemes
    /\ schemesCache' = schemes
    /\ UNCHANGED <<schemes, secret, secretCache, demand, offers, checkVars,
                   steady, moves>>

DeliverSecret ==
    /\ secretCache # secret
    /\ secretCache' = secret
    /\ UNCHANGED <<schemes, schemesCache, secret, demand, offers, checkVars,
                   steady, moves>>

Next ==
    GetAgent \/ StartCheck \/ TryPath \/ Move \/ DeliverAgent \/ DeliverSecret

(* The next pass is a timer away and goes on to its check; a request that  *)
(* hangs ends with the HTTP client's timeout; the watches deliver.         *)
Spec ==
    /\ Init
    /\ [][Next]_vars
    /\ WF_vars(GetAgent)
    /\ WF_vars(StartCheck)
    /\ WF_vars(TryPath)
    /\ WF_vars(DeliverAgent)
    /\ WF_vars(DeliverSecret)

-----------------------------------------------------------------------------
(* Properties.                                                             *)

(* A check fails only if each path failed at some instant of it: a path    *)
(* that would have answered all along is found, whichever it is and        *)
(* whatever moves meanwhile; and the preferred path's card is the one      *)
(* taken while it is served (resolver.go, 66-80).                          *)
SteadyAnswerFound ==
    [][attempt # 0 /\ attempt' = 0 =>
          /\ result' = NoCard => steady = {}
          /\ \A c \in Cards :
                 <<"agent-card.json", c>> \in steady => result' = c]_vars

Usable(i) == HeaderOf(ToLower(schemes[i]), secret) # NoHeader

(* The endpoint asks for what the last scheme that the Secret has keys for *)
(* makes of them, or for nothing, and serves a card.                       *)
Reachable ==
    /\ \E p \in Paths : offers[p] # NoCard
    /\ \/ demand = NoHeader
       \/ \E i \in DOMAIN schemes :
              /\ demand = HeaderOf(ToLower(schemes[i]), secret)
              /\ \A j \in DOMAIN schemes : j > i => ~Usable(j)

(* Once the endpoint asks for the credentials that the Secret holds and    *)
(* serves a card on either path, checks succeed for good: an agent or a    *)
(* Secret cached before an edit, or a card caught between two paths, delays *)
(* that by a check or two at most (resolver.go, 58-142;                    *)
(* a2aagent_controller.go, 45-55, 307-331).                                *)
ChecksRecover == <>[]Reachable => <>[](result # NoCard)

=============================================================================
