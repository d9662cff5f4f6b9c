# A2A Registry: TLA+ models, checks and proofs

The repository is a Kubernetes operator. Users describe agents with `A2AAgent`
objects and one `A2ARegistry`; the operator checks the agents' endpoints, keeps
their status, counts and prunes them, and serves them over HTTP. This project
models the operator's own logic, checks it with TLC on small instances and
proves every safety property that holds with TLAPS for all instances.

## 1. Inventory

| Component | State it keeps | Operations | Source |
|---|---|---|---|
| Agent controller | none of its own besides the work queue; the status of every agent object | `Reconcile`: finalizer, URL conflict, disabled, approval, health check, card match, failure count, conditions, requeue | `controllers/a2aagent_controller.go`, `controllers/conditions.go` |
| Registry controller | the status of the registry object | `Reconcile`: finalizer, count, prune, status, hand the discovery settings to the API server | `controllers/a2aregistry_controller.go` |
| Approval handler | a copy of an agent between its read and its write | `ApproveAgent` | `internal/registry/dashboard.go` |
| HTTP API server | the discovery settings, behind a mutex that the handlers do not take | list, search, get, register, deregister, read and write configuration | `internal/registry/handler.go`, `server.go` |
| Health checker, card resolver | none | fetch a card from one of two well-known paths | `internal/healthcheck`, `internal/registry/resolver.go` |
| Admission webhooks | none | default and validate both resources | `api/v1/*_webhook.go` |
| Manager | processes, cache, leader election | start, stop | `cmd/manager/main.go` |
| Metrics, dashboard page | counters; none | | `internal/metrics`, `internal/registry/dashboard.go` |

**How they interact.** Everything goes through the Kubernetes API server: the two
controllers and the handlers write objects there, with optimistic concurrency,
and read them from one informer cache that lags behind. The registry controller
hands the discovery settings to the API server by a call. The agent controller
reads the registry's policy from the cache. The webhooks see every write of a
spec, the controllers' finalizer writes included.

**What is hard.** Each controller reads a possibly stale copy, works on it over
several API calls and an HTTP request, and writes a whole status back, while
users edit, approve and delete. The agent controller filters events by
generation, so that status, approval, policy and endpoint changes reach it by
timer only; the registry controller does not watch agents at all. Calls fail or
lose their answers; the process restarts between any two of them.
`PROJECT.json` lists these as hazards with the line where each bites.

**What makes it correct.** Agent controller and approval handler: no write
erases a newer one, an approval survives, nobody becomes Ready unapproved, the
status describes the generation it claims, phases converge, deletion completes.
Registry controller: outdated agents go, counters and discovery settings
converge, deletion completes, nobody is pruned too early. HTTP API: a listing is
what the settings allow, a change of settings or a registration undoes nobody
else's write. Health check: a card that is there is found, credentials follow
the Secret. Webhooks: what was admitted stays admissible; the documented
defaults apply.

## 2. Modules

```
AgentStatus        pure: the status and what each branch of Reconcile does to it
  ClusterAPI       the store, the informer cache, users, endpoints, the clock
    AgentController     work queue, timers, the worker's steps, faults, restart
    Dashboard           the approval handler
      AgentSystem       both, over one cluster: properties, inductive invariant
        AgentSystemProofs
        AgentRefinement      AgentSystem implements AgentLifecycle
          AgentRefinementProofs
    RegistryController  the other controller, the API server's settings
      RegistryControllerProofs
      RegistrySystem    AgentSystem and RegistryController together
        RegistrySystemProofs
        PruneAudit      a history of when agents became Unreachable
      APIServer         routing, handlers, filters of the HTTP API
        APISystem       the API beside the registry controller and kubectl
          APISystemProofs
AgentLifecycle     abstract: what an observer of the stored agents may see
CardResolver       one agent's health checks, request by request
    CardResolverProofs
Webhooks           pure: defaulting, CRD schema, validation
  Admission        writes of users and controllers through them
    AdmissionProofs
MCAgentSystem, MCRegistrySystem, MCPruneAudit, MCAPISystem, MCCardResolver,
MCAdmission        instances for TLC
```

### The cluster (`ClusterAPI`, external)

`agents` is the store, `cache` the informer's copy. A `resourceVersion` is only
ever compared for equality with the stored one, so it is represented by
`current[k]`: the holders (cache, worker, approver) whose copy has the stored
version. A write is accepted iff its holder is in the set, and empties it.
`Write` may also leave the other holders current when nothing changed, as the
API server does; a write that changes only a timestamp the model leaves out may
do either. The cache of a key jumps to the stored version at any later time;
since it may do so after every write, each intermediate version can be seen.
Keys lag independently, which allows more than one watch does. `notify` marks
undelivered events that the generation predicate lets pass: creation, removal,
spec edit, deletion mark. Cached reads do not fail once the cache has synced.

### The agent controller (`AgentController`)

One worker, as in the code (`MaxConcurrentReconciles` is 1). `pc` names the API
call or read that comes next: `remove` and `add` (finalizer), `conflict` (the
cached list; also `RegisteredAt` and the disabled branch, which need nothing
else), `policy` (the cached registry; approval; a health check that is switched
off), `probe`, `write`. Everything between two of these runs in memory and is
one step. `Return(TRUE)` stands for `RequeueAfter` and for a returned error:
both bring the key back by a timer. `WriteFails` loses the request (or
admission refuses it), `WriteAnswerLost` the answer. `ControllerRestart` drops
memory, queue and timers and starts from a new list. With `Webhooks` the update
that adds the finalizer may come back with a defaulted spec and a new generation
(`Finalized`): an agent that was written while the webhooks were off is then
edited by the controller's own write, and the event starts another pass.

Abstracted: messages, reasons, transition times, the card hash, events and
metrics, which no decision reads; the requests of a health check (see
`CardResolver`), whose outcome is the answer of the endpoint at one instant,
which may be none at any time; durations of timers (a timer may
expire at any time); the failure counter saturates at `MaxFailures`, at or above
every threshold, where larger counts cannot be told apart. The empty string is
written "unset". `config` is the cached policy of the one registry; several
registries are not modelled (the code takes the first of the list).

### The life of an agent (`AgentLifecycle`, `AgentRefinement`)

The abstract specification has one variable, what a stored object shows: phase,
failures, approval, deletion mark, or nothing at all. An agent appears without a
verdict, is judged any number of times, may be approved, leaves, vanishes.
`Judge` allows a verdict only while the agent is not leaving, ties the failure
count to it (`Tally`) and cannot touch the approval; `Vanish` asks for a leave
first once there has been a verdict. `AgentRefinement` maps the store to it by
dropping everything else. The map says nothing about fairness: TLC cannot check
a fairness condition of an instantiated module through it, so liveness stays
with `AgentSystem`'s own properties.

### The registry controller (`RegistryController`, `RegistrySystem`)

One registry object with the same version tokens, its own queue flag and timer.
A pass lists and counts (`RegistryList`), deletes the stale agents one by one
(`Prune`, `PruneFails`), writes the status and then pushes the discovery
settings. Each of its three writes may conflict, fail, or be carried out and
lose its answer (`RegistryWriteAnswerLost`); then the pass ends with an error
and the next one finds what it did. In `RegistrySystem` the policy that the agent controller sees is the
cached registry's. `PruneAge` stands for the seven days; the clock ticks in
parts of it.

### The HTTP API (`APIServer`, `APISystem`)

A request comes in with the first step of its handler; a handler that makes one
cached read and nothing else is one step. `RegisterAgent` looks for the URL and
creates in a second step, `UpdateConfig` reads and writes in two, `ListAgents`
reads the settings and the list, then filters entry by entry, reading the
settings again each time. A write may fail at any time, or be carried out and
answered with 500 because its own answer was lost; a registration may be stored
with the webhook's defaults (`Registered`). The handlers do not take the mutex that
`Server.UpdateConfig` holds. While the registry controller is about to replace
the settings by different ones (`Torn`), what a handler reads is not defined by
the language: the model lets the selector select anything, lets the namespace
test go either way, and lets the handler panic, which `net/http` turns into a
closed connection. `SettingsOf` gives a replica that is not the leader the
default scope, for ever. A name is a sequence of characters, so that
`generateK8sName` maps different names to one key; namespaces are the first
component of a key. The API server of the cluster refuses names outside `Keys`.
Labels are metadata that `kubectl` sets; they are kept in the spec record.
`PUT /api/v1/config` is modelled for the three policy switches; the two numbers
it may also set travel the same path. `inForce` and `snapshot` are histories:
every setting that anyone held while a request was served, and the cache it
listed with the keys that have been up to date since.

Left out: the registry's own card and the dashboard page (constants), address
normalisation, request bodies that are not JSON, the duration metric. Case and
white space in tags and skills are left out: equal means equal up to them.

### The health check (`CardResolver`)

`GetAgent` starts a pass with the cached agent, `StartCheck` reads the cached
Secret and fixes the header from both, `TryPath` is one HTTP request, and between
any two of them the endpoint, the Secret and the spec may change. The two caches
lag independently. `NoCard` covers every way a request fails: no connection, the
client's timeout, a status other than 200, no JSON. The schemes all write the
`Authorization` header, in order, and a scheme without its keys in the Secret
writes nothing. `steady` is a history: the answers that were to be had at every
instant since the check began.

### Admission (`Webhooks`, `Admission`)

Mutating webhook, schema, validating webhook, in the API server's order. An
absent health check block equals one of zeros, because every line that reads
the block treats them alike. `asked`, `vetted`, `under` and `registryUnder` record
what the user submitted, whether the webhooks were on and which CRDs were
installed; they are observers.

The repository has two sets of CRDs. `config/crd/bases`, applied by
`make install`, bounds intervals (at least 10), thresholds, ports, the scope and
skill ids; `deploy/helm/a2a-registry/crds`, installed by Helm, bounds none of
them. `crds` is the set that is installed, and `InstallCRDs` replaces one by the
other while objects are stored, which checks none of these.

## 3. Runs

| Run | Instance | Shows |
|---|---|---|
| `agent_safety` | 1 agent, 3 specs (enabled, disabled, other threshold and name), 3 policies, webhooks, 2 user moves, 1 fault, 1 tick | type invariant, `StatusCoherent`, `ObservedPhaseEarned`, `CurrentCopies`, `ApprovalPersists`, `ApprovalGate`, `ProgressMonotone`, and `ImplementsLifecycle`: every step is a step of `AgentLifecycle` or none |
| `agent_liveness` | 2 specs (enabled, disabled), webhooks, 2 user moves, 1 fault, no tick, fair | `DeletionCompletes`, `PhasesConverge` |
| `agent_pair` | 2 agents, 2 URLs, 1 move, fair | `PhasesConverge` with URL conflicts, `StatusCoherent` |
| `registry_prune` | 1 agent, registry in place, the endpoint stops or the agent is deleted, 1 fault, 1 tick, fair | `StaleAgentsGo`, `CountsConverge` |
| `registry_discovery` | no agents, 2 scopes, 3 moves, 2 faults, fair | `RegistryKept`, `DiscoveryConverges`, `RegistryDeletionCompletes`, type invariant |
| `admission` | 88 agent and 24 registry requests around every boundary, both sets of CRDs, unbounded length | `FinalizerWriteAdmitted`, `PeriodNotTooShort` |
| `resolver` | 5 lists of schemes, 5 Secrets, 4 demands, 2 cards on 2 paths, 2 moves, fair | `SteadyAnswerFound`, `ChecksRecover` |
| `api` | 2 handlers, 14 requests, 2 agents in 2 namespaces, 3 settings, 2 requests or other moves | `SettledListing`, `CardsMatch`, `SettingsKept`, `RegistersAfresh` |
| `api_scope` | violation | `AnswersInScope` |
| `prune_audit` | violation | `PrunedAfterPeriod` |
| `admission_enabled` | violation | `DisabledAsAsked` |
| `admission_interval` | violation | `GlobalIntervalUsed` |

**Bounds.** `MaxOps` bounds moves of users and endpoints, `MaxFaults` failed
calls and restarts, `MaxTime` the clock; all appear in guards. The controllers
themselves are not bounded. `Webhooks` is on in the runs about one agent and in
`api`, where a finalizer write or a registration may come back defaulted, and off
in the others, whose agents stand for ones that have been defaulted before. The
races of interest need two moves around one pass
(an edit and an approval, a deletion and a re-creation) and start from every
policy and endpoint state; the safety properties of `agent_safety` are also
proved for all bounds, as are all others of the passing runs. A second agent matters only
for URL conflicts, which `agent_pair` covers; time matters only for heartbeats
(one tick orders two of them) and for pruning. `registry_prune` uses
`PruneAge = 0`, so that one tick makes a heartbeat outdated, and keeps
users from the registry (`StandingSystem`); `registry_discovery` has no agents
because the settings do not depend on them. The races of the API take two moves
(two registrations, a listing and an edit of the settings, a PUT and an edit);
the registry controller's passes come on top and are not bounded. `api` starts
with all agents alike, and its handlers are interchangeable (a symmetry set).
`resolver` needs two moves to catch a card between its paths or to rotate a
Secret and the endpoint's demand.

**Deadlock** is not checked in the controller runs: a cluster without agents, or
with disabled agents only, has nothing left to do once the users stop; nor in
the API runs, where the moves run out. The health check never stops, and
`resolver` checks that.

**Fairness.** Weak fairness for the informer (the watch delivers), for timers
(they expire) and for the workers' steps (the calls return). Strong fairness per
key for taking it from the queue: the work queue is first in first out, and with
several keys the worker is idle again and again rather than always. Users,
approvals, endpoints, the clock and faults owe nothing. In `CardResolver` the
next check is due by the controller's timer and each request ends by the HTTP
client's 30-second timeout: weak fairness for both. The API runs check safety
only: a handler owes nobody an answer that the model would need.

**What the violations show.**
- `prune_audit`: README.md line 49 promises removal after seven consecutive days
  `Unreachable`. The code deletes by name from a cached list whatever has an old
  heartbeat: TLC's trace deletes an agent that a health check has just found
  Ready. The module keeps the cluster to its timetable (users and the clock move
  only when the controllers have caught up), so that slowness is not to blame.
- `api_scope`: README.md line 43 says that label selectors and namespace filters
  are enforced at the API level. `Search` knows no namespaces: TLC's trace lets
  one setting reach the registry, the cache, the controller and the API server,
  and a search then shows an agent of another namespace. With `Requests`
  restricted to listings, two moves and the two settings of `TwoScopes`, the same
  property fails in two other ways, longer ones:
  a listing on the leader that filters some entries before and some after a
  change of the settings shows a mixture that no setting allows (14 states), and
  a listing on a replica that is not the leader ignores the settings (9 states).
- `admission_enabled`: README.md line 333 lets users disable an agent; the
  defaulting webhook enables every agent that has a URL.
- `admission_interval`: README.md line 336 promises the registry's interval when
  the agent has none; the webhook has filled in 60 before the controller looks.

One more disagreement is visible in `Webhooks` without a run of its own: the
minimum of the registry's health check interval. README.md line 272 and the marker
in `a2aregistry_types.go` line 36 say 1, and `a2aregistry_webhook_test.go` lines
95-105 expect the webhook to accept 1; the CRD in `config/crd/bases` says 10; the
one in the Helm chart has no minimum; and the webhook leaves it to them
(`a2aregistry_webhook.go` line 68: "minimum interval is enforced by CRD schema").
So with `make install` the documented 1 is refused, and with Helm any value is
taken. `PeriodNotTooShort` says what is left of a lower bound: a computed period
is at least ten seconds if each interval it may come from passed a gate that
knows that minimum, which is the bases or, for an agent's own interval, the
agents' webhook. A registry interval that was written under the chart's CRDs
passed neither, and matters only to agents without an interval of their own;
defaulting gives one to each that has none. The bound is of the period that a pass
computes: retries and edits start passes of their own.

`PhasesConverge` leaves a corner open, as the code does: a disabled agent sleeps
without a timer, so a URL conflict that arises later is reported at the other
agent only.

## 4. Proofs

Every invariant and every action property of the passing runs is proved, for any
value of the constants that meets the assumptions below. The properties speak of
the stored objects or of an answer; what is written or answered was computed
from copies several steps earlier, so none of them is inductive alone. Each
proof rests on an invariant that says what is known in between. The invariants
are definitions like any other: add `INVARIANT IndInv`, `LifeInv`, `RegistryInv`
or `APIInv` to the configuration of a run to see TLC confirm one.

**`AgentSystemProofs`**: type correctness, `StatusCoherent`,
`ObservedPhaseEarned`, `CurrentCopies`, `ApprovalPersists`, `ApprovalGate` and
`ProgressMonotone`. `IndInv` has five parts beside the types:

- `GoodVersions`: what holds of stored objects holds of every copy kept anywhere;
- `WorkerState`: what each step of `Reconcile` has established about its object
  (finalizer, registration, enablement, admission under the policy it read);
- `HoldersBusy`: only a worker or handler in the middle of a request holds a copy;
- `CurrentCopies`: a copy that counts as current agrees with the stored object in
  everything but the status fields the pass has changed;
- `WorkerAhead`: and in those it is at most one check ahead, and has no approval
  that the store lacks.

One lemma per action shows that it keeps the invariant; the action properties
follow from the invariant and the shape of the one accepted write
(`StatusSteps`).

**`AgentRefinementProofs`**: `AgentSystem` implements `AgentLifecycle`
(`AgentsLive`). Each action maps to one abstract step or to none: an accepted
status write is `Judge`, an approval `Approve`, a deletion `Leave`, the removal
of the finalizer `Vanish`. `LifeInv` adds to `IndInv` that a pass which goes on
to judge holds a copy without a deletion mark and with a phase (`PassKind`), and
that the failures it will store follow from the stored ones if its copy is
current (`PassTally`). Since the copy of an accepted write is current, the
stored object has no mark either.

**`RegistryControllerProofs`, `RegistrySystemProofs`**: the process with both
controllers. `RegistryInv` says of the registry what `IndInv` says of agents: a
current copy agrees with the stored object (`RegistryCopies`), a pass that is
about to remove the finalizer has a deleted copy (`RegistryPass`), and the
policy the agent controller finds is the cached registry's (`PolicyFromCache`).
It gives `RegistryKept`. `SystemInv` is the conjunction of the three
invariants. To the agents the registry controller does what a user may do, a
delete request (lemma `DeleteRequest` of `AgentSystemProofs`), and a common
restart is the agent controller's restart with another policy. The agents'
properties and the refinement therefore carry over (`SystemStatusIsCoherent`,
`SystemKeepsPromises`, `SystemAgentsLive`), and `SystemTypeOK` comes with them.

**`APISystemProofs`**: `SettledListing`, `SettingsKept`, `RegistersAfresh` and
`CardsMatch`, for any number of handlers and any requests. `APIInv` is
`RegistryInv` and, for each handler, what it knows between two steps:

- `DraftFits`: a settings change that would be accepted is the stored registry
  with the fields of its body replaced;
- `FreshURL`: nothing that has been up to date since the handler looked has the
  URL it is about to register;
- `Watched`: the history has seen the settings of everyone since the request
  came in, so that settled settings are also the ones the handler reads;
- `ListFits`: under settled settings the entries collected so far are exactly
  those due from the agents already filtered, and what is left is as it was
  listed.

`CardsMatch` needs no invariant: card and spec come from one cached read.

**`AdmissionProofs`**: `FinalizerWriteAdmitted` and `PeriodNotTooShort` for
arbitrary requests (any integers, any skill lists), either set of CRDs and any
order of writes, redeployments and installations. The invariant is that a
stored object satisfies, as it is stored, every gate it passed, and that
defaulting is idempotent; the properties speak of a later write, about which the
request says nothing.

**`CardResolverProofs`**: `SteadyAnswerFound` for any schemes, Secrets, demands
and cards. The property speaks of the end of a check; the invariant of its
middle: the answers that have held since the check began are still to be had,
and none of them is on a path that has been tried.

**Assumptions** are named in the modules that declare the constants. Bounds are
natural numbers; thresholds do not exceed `MaxFailures`; policies are records of
three booleans, and a body of `PUT` names booleans (`FlagsAssumption`, as JSON
decoding into `*bool` guarantees); there are finitely many agents
(`KeysAssumption`: the counters are cardinalities); handlers are neither the
cache nor the worker (`HandlersAssumption`); the sentinels are not values they
stand beside (`LifeAssumption` among them).

**Only model-checked**: the liveness properties (`DeletionCompletes`,
`PhasesConverge`, `StaleAgentsGo`, `CountsConverge`, `DiscoveryConverges`,
`RegistryDeletionCompletes`, `ChecksRecover`), since fairness and ENABLED are out
of the prover's reach. What `buildAuthHeaders` makes of a list is a fold, and so
out of its reach too; no proof depends on it. The four properties that the code
violates have counterexamples instead.

## 5. Not modelled, and the plan

Not modelled: metrics, events and messages, which nothing reads back; the
dashboard page and the registry's own card, which are constants; flags, probes
and namespace creation; several registries (the code takes the first of a list);
the example agent. Leader election appears only as the question whether an API
server is the leader's.

What could follow:
1. Lemmas about the operators the checks rest on, above all `generateK8sName`
   (the names it yields), `MergeCondition` and the two card filters.
2. The steps of the liveness arguments that are not temporal: that an agent
   whose pass ends without a timer is one that sleeps for good.
3. A bound that the pruning does keep: what `PrunedAfterPeriod` promises of
   agents whose listed copy is current.
