-------------------------- MODULE AgentSystemProofs --------------------------
(***************************************************************************)
(* Proofs about AgentSystem, for every set of keys, specs, cards and       *)
(* policies and every bound.                                               *)
(***************************************************************************)
EXTENDS AgentSystem, TLAPS

-----------------------------------------------------------------------------
(* Objects.                                                                *)

(* Rewriting only the status keeps an object an object, and the rest of it. *)
LEMMA SetStatus ==
    ASSUME NEW a \in Agent, NEW st \in Status
    PROVE  LET b == [a EXCEPT !.status = st] IN
           /\ b \in Agent
           /\ b.status = st
           /\ b.gen = a.gen
           /\ b.spec = a.spec
           /\ b.deleting = a.deleting
           /\ b.finalizer = a.finalizer
BY DEF Agent

(* No object is the sentinel. *)
LEMMA AgentIsNotNoAgent ==
    ASSUME NEW a \in Agent
    PROVE  a # NoAgent
BY SentinelAssumption

-----------------------------------------------------------------------------
(* How the writes of the API server and of users treat a good version.     *)

LEMMA NewIsGood ==
    ASSUME NEW s \in Specs, NEW t \in Nat
    PROVE  NewAgent(s) \in Agent /\ GoodVersion(NewAgent(s), t)
<1>1. EmptyStatus \in Status
  BY MaxFailuresAssumption
  DEF EmptyStatus, Status, Phases, Healths, ConditionTypes, ConditionValues
<1>2. NewAgent(s) \in Agent
  BY <1>1 DEF NewAgent, Agent
<1> QED
  BY <1>2 DEF NewAgent, EmptyStatus, GoodVersion, Sound, Earned, Never

LEMMA EditedIsGood ==
    ASSUME NEW a \in Agent, NEW s \in Specs, NEW t \in Nat, GoodVersion(a, t)
    PROVE  Edited(a, s) \in Agent /\ GoodVersion(Edited(a, s), t)
<1>1. a.gen \in Nat /\ a.gen + 1 \in Nat /\ a.status.observedGen \in Nat
  BY DEF Agent, Status
<1>2. Edited(a, s) \in Agent
  BY <1>1 DEF Edited, Agent
<1>3. /\ Edited(a, s).status = a.status
      /\ Edited(a, s).gen = a.gen + 1
      /\ Edited(a, s).finalizer = a.finalizer
  BY DEF Edited, Agent
<1>4. a.status.observedGen # a.gen + 1
  BY <1>1 DEF GoodVersion, Sound
<1> QED
  BY <1>1, <1>2, <1>3, <1>4 DEF GoodVersion, Sound, Earned

LEMMA MarkDeletedIsGood ==
    ASSUME NEW a \in Agent, NEW t \in Nat, GoodVersion(a, t)
    PROVE  MarkDeleted(a) \in Agent /\ GoodVersion(MarkDeleted(a), t)
<1>1. a.gen \in Nat /\ a.gen + 1 \in Nat /\ a.status.observedGen \in Nat
  BY DEF Agent, Status
<1>2. MarkDeleted(a) \in Agent
  BY <1>1 DEF MarkDeleted, Agent
<1>3. /\ MarkDeleted(a).status = a.status
      /\ MarkDeleted(a).gen = a.gen + 1
      /\ MarkDeleted(a).finalizer = a.finalizer
  BY DEF MarkDeleted, Agent
<1>4. a.status.observedGen # a.gen + 1
  BY <1>1 DEF GoodVersion, Sound
<1> QED
  BY <1>1, <1>2, <1>3, <1>4 DEF GoodVersion, Sound, Earned

(* The finalizer may be added, with the webhook's defaults or without. *)
LEMMA FinalizedIsGood ==
    ASSUME NEW a \in Agent, NEW t \in Nat, GoodVersion(a, t),
           NEW b \in Finalized(a)
    PROVE  /\ b \in Agent
           /\ GoodVersion(b, t)
           /\ b.finalizer
           /\ b.status = a.status
           /\ b.deleting = a.deleting
<1>1. PICK c : /\ b = [c EXCEPT !.finalizer = TRUE]
               /\ \/ c = a
                  \/ Webhooks /\ c = Edited(a, WebhookDefault(a.spec))
  BY DEF Finalized
<1>2. /\ c \in Agent
      /\ GoodVersion(c, t)
      /\ c.status = a.status
      /\ c.deleting = a.deleting
  <2>1. CASE c = a
    BY <2>1
  <2>2. CASE Webhooks /\ c = Edited(a, WebhookDefault(a.spec))
    <3>1. WebhookDefault(a.spec) \in Specs
      BY <2>2, WebhooksAssumption DEF Agent
    <3>2. c \in Agent /\ GoodVersion(c, t)
      BY <2>2, <3>1, EditedIsGood
    <3>3. c.status = a.status /\ c.deleting = a.deleting
      BY <2>2 DEF Edited, Agent
    <3> QED BY <3>2, <3>3
  <2> QED BY <1>1, <2>1, <2>2
<1>3. /\ b \in Agent
      /\ b.finalizer
      /\ b.status = c.status
      /\ b.gen = c.gen
      /\ b.spec = c.spec
      /\ b.deleting = c.deleting
  BY <1>1, <1>2 DEF Agent
<1>4. GoodVersion(b, t)
  BY <1>2, <1>3 DEF GoodVersion, Sound, Earned
<1> QED BY <1>2, <1>3, <1>4

(* A status computed from a copy of the same version may be stored. *)
LEMMA StatusWriteIsGood ==
    ASSUME NEW a \in Agent, NEW b \in Agent, NEW t \in Nat, GoodVersion(b, t),
           b.gen = a.gen, b.spec = a.spec, b.finalizer = a.finalizer
    PROVE  LET c == [a EXCEPT !.status = b.status] IN
           c \in Agent /\ GoodVersion(c, t)
<1> DEFINE c == [a EXCEPT !.status = b.status]
<1>1. b.status \in Status
  BY DEF Agent
<1>2. /\ c \in Agent
      /\ c.status = b.status
      /\ c.gen = b.gen
      /\ c.spec = b.spec
      /\ c.finalizer = b.finalizer
  BY <1>1, SetStatus
<1> HIDE DEF c
<1>3. GoodVersion(c, t)
  BY <1>2 DEF GoodVersion, Sound, Earned
<1> QED BY <1>2, <1>3 DEF c

(* So may an approval. *)
LEMMA ApprovalIsGood ==
    ASSUME NEW a \in Agent, NEW t \in Nat, GoodVersion(a, t)
    PROVE  LET c == [a EXCEPT !.status = ApprovedStatus(a.status)] IN
           /\ c \in Agent
           /\ GoodVersion(c, t)
           /\ isApproved(c.status)
           /\ c.status.failures = a.status.failures
           /\ c.status.heartbeat = a.status.heartbeat
           /\ c.status.phase = a.status.phase
<1> DEFINE st == ApprovedStatus(a.status)
           c == [a EXCEPT !.status = st]
<1>1. a.status \in Status
  BY DEF Agent
<1>2. st \in Status
  BY <1>1 DEF ApprovedStatus, Status, MergeCondition, ConditionTypes,
              ConditionValues
<1>3. /\ st.phase = a.status.phase
      /\ st.health = a.status.health
      /\ st.failures = a.status.failures
      /\ st.heartbeat = a.status.heartbeat
      /\ st.registered = a.status.registered
      /\ st.observedGen = a.status.observedGen
      /\ isApproved(st)
  BY <1>1 DEF ApprovedStatus, Status, MergeCondition, isApproved,
              ConditionTypes
<1> HIDE DEF st
<1>4. /\ c \in Agent
      /\ c.status = st
      /\ c.gen = a.gen
      /\ c.spec = a.spec
      /\ c.finalizer = a.finalizer
  BY <1>2, SetStatus
<1> HIDE DEF c
<1>5. GoodVersion(c, t)
  BY <1>3, <1>4 DEF GoodVersion, Sound, Earned
<1> QED BY <1>3, <1>4, <1>5 DEF c, st

-----------------------------------------------------------------------------
(* How the steps of Reconcile treat their in-memory object.                *)

(* The object kept its identity; its status is the given one. *)
Rewritten(b, a, st) ==
    /\ b \in Agent
    /\ b.status = st
    /\ b.gen = a.gen
    /\ b.spec = a.spec
    /\ b.deleting = a.deleting
    /\ b.finalizer = a.finalizer

(* The status records the same health checks and the same approval. *)
SameRecord(new, old) ==
    /\ new.heartbeat = old.heartbeat
    /\ new.failures = old.failures
    /\ isApproved(new) <=> isApproved(old)

LEMMA RegisterStatus ==
    ASSUME NEW old \in Status
    PROVE  LET st == Register(old) IN
           /\ st \in Status
           /\ st.registered
           /\ SameRecord(st, old)
           /\ st.phase = old.phase
           /\ st.health = old.health
           /\ st.observedGen = old.observedGen
BY DEF Register, Status, SameRecord, isApproved

(* The two branches that end the pass before the policy is read. *)
LEMMA StoppedObjects ==
    ASSUME NEW a \in Agent, NEW t \in Nat, GoodVersion(a, t), a.finalizer,
           NEW st, st \in {URLConflictStatus(Register(a.status)),
                           DisabledStatus(Register(a.status))}
    PROVE  LET b == [a EXCEPT !.status = st] IN
           /\ Rewritten(b, a, st)
           /\ GoodVersion(b, t)
           /\ st.registered
           /\ st.phase \in {"Error", "Pending"}
           /\ SameRecord(st, a.status)
<1> DEFINE r == Register(a.status)
           b == [a EXCEPT !.status = st]
<1>1. a.status \in Status
  BY DEF Agent
<1>2. /\ r \in Status
      /\ r.registered
      /\ SameRecord(r, a.status)
      /\ r.observedGen = a.status.observedGen
  BY <1>1, RegisterStatus
<1> HIDE DEF r
<1>3. st \in {URLConflictStatus(r), DisabledStatus(r)}
  BY DEF r
<1>4. /\ st \in Status
      /\ st.registered
      /\ SameRecord(st, r)
      /\ st.observedGen = r.observedGen
      /\ \/ st.phase = "Error" /\ st.health = "Unhealthy"
         \/ st.phase = "Pending" /\ st.health = "Unknown"
  <2>1. CASE st = URLConflictStatus(r)
    BY <1>2, <2>1 DEF URLConflictStatus, Status, SameRecord, isApproved, Phases,
                      Healths
  <2>2. CASE st = DisabledStatus(r)
    BY <1>2, <2>2 DEF DisabledStatus, Status, SameRecord, isApproved, Phases,
                      Healths
  <2> QED BY <1>3, <2>1, <2>2
<1>5. SameRecord(st, a.status)
  BY <1>2, <1>4 DEF SameRecord
<1>6. Rewritten(b, a, st)
  BY <1>4, SetStatus DEF Rewritten
<1> HIDE DEF b
<1>7. GoodVersion(b, t)
  BY <1>2, <1>4, <1>5, <1>6
  DEF GoodVersion, Sound, Earned, Rewritten, SameRecord
<1> QED BY <1>4, <1>5, <1>6, <1>7 DEF b

LEMMA RegisteredObject ==
    ASSUME NEW a \in Agent, NEW t \in Nat, GoodVersion(a, t)
    PROVE  LET st == Register(a.status)
               b == [a EXCEPT !.status = st] IN
           /\ Rewritten(b, a, st)
           /\ GoodVersion(b, t)
           /\ st.registered
           /\ SameRecord(st, a.status)
<1> DEFINE st == Register(a.status)
           b == [a EXCEPT !.status = st]
<1>1. a.status \in Status
  BY DEF Agent
<1>2. /\ st \in Status
      /\ st.registered
      /\ SameRecord(st, a.status)
      /\ st.phase = a.status.phase
      /\ st.health = a.status.health
      /\ st.observedGen = a.status.observedGen
  BY <1>1, RegisterStatus
<1> HIDE DEF st
<1>3. Rewritten(b, a, st)
  BY <1>2, SetStatus DEF Rewritten
<1> HIDE DEF b
<1>4. GoodVersion(b, t)
  BY <1>2, <1>3 DEF GoodVersion, Sound, Earned, Rewritten, SameRecord
<1> QED BY <1>2, <1>3, <1>4 DEF b, st

(* The object of an agent that must wait for approval. *)
LEMMA WaitingObject ==
    ASSUME NEW a \in Agent, NEW t \in Nat, GoodVersion(a, t), a.finalizer,
           a.status.registered, ~isApproved(a.status)
    PROVE  LET st == PendingApprovalStatus(a.status)
               b == [a EXCEPT !.status = st] IN
           /\ Rewritten(b, a, st)
           /\ GoodVersion(b, t)
           /\ st.registered
           /\ st.phase = "Pending"
           /\ SameRecord(st, a.status)
<1> DEFINE st == PendingApprovalStatus(a.status)
           b == [a EXCEPT !.status = st]
<1>1. a.status \in Status
  BY DEF Agent
<1>2. st \in Status
  BY <1>1 DEF PendingApprovalStatus, Status, MergeCondition, Phases, Healths,
              ConditionTypes, ConditionValues
<1>3. /\ st.phase = "Pending"
      /\ st.health = "Unknown"
      /\ st.failures = a.status.failures
      /\ st.heartbeat = a.status.heartbeat
      /\ st.registered
      /\ st.observedGen = a.status.observedGen
      /\ ~isApproved(st)
  BY <1>1 DEF PendingApprovalStatus, Status, MergeCondition, isApproved,
              ConditionTypes
<1> HIDE DEF st
<1>4. Rewritten(b, a, st)
  BY <1>2, SetStatus DEF Rewritten
<1> HIDE DEF b
<1>5. GoodVersion(b, t)
  BY <1>3, <1>4 DEF GoodVersion, Sound, Earned, Rewritten
<1> QED BY <1>3, <1>4, <1>5 DEF b, st, SameRecord

(* The object of an agent that is let through: its status is as it was,    *)
(* the approval confirmed where the policy asks for one.                   *)
LEMMA AdmittedObject ==
    ASSUME NEW a \in Agent, NEW t \in Nat, GoodVersion(a, t),
           NEW c, Admitted(c, a.status)
    PROVE  LET st == AdmittedStatus(c, a.status)
               b == [a EXCEPT !.status = st] IN
           /\ Rewritten(b, a, st)
           /\ GoodVersion(b, t)
           /\ Admitted(c, st)
           /\ st \in Status
           /\ st.registered = a.status.registered
           /\ SameRecord(st, a.status)
<1> DEFINE st == AdmittedStatus(c, a.status)
           b == [a EXCEPT !.status = st]
<1>1. a.status \in Status
  BY DEF Agent
<1>2. st \in Status
  BY <1>1 DEF AdmittedStatus, ApprovedStatus, Status, MergeCondition,
              ConditionTypes, ConditionValues
<1>3. /\ st.phase = a.status.phase
      /\ st.health = a.status.health
      /\ st.failures = a.status.failures
      /\ st.heartbeat = a.status.heartbeat
      /\ st.registered = a.status.registered
      /\ st.observedGen = a.status.observedGen
      /\ isApproved(st) <=> isApproved(a.status)
  BY <1>1 DEF AdmittedStatus, Admitted, ApprovedStatus, Status,
              MergeCondition, isApproved, ConditionTypes
<1>4. Admitted(c, st)
  BY <1>3 DEF Admitted
<1> HIDE DEF st
<1>5. Rewritten(b, a, st)
  BY <1>2, SetStatus DEF Rewritten
<1> HIDE DEF b
<1>6. GoodVersion(b, t)
  BY <1>3, <1>5 DEF GoodVersion, Sound, Earned, Rewritten
<1> QED BY <1>2, <1>3, <1>4, <1>5, <1>6 DEF b, st, SameRecord

(* The end of a full pass keeps what was recorded and makes it the status  *)
(* of this generation.                                                     *)
LEMMA ObservedFields ==
    ASSUME NEW old \in Status, NEW gen \in Nat
    PROVE  LET st == ObservedStatus(old, gen) IN
           /\ st \in Status
           /\ st.phase = old.phase
           /\ st.health = old.health
           /\ st.registered = old.registered
           /\ st.observedGen = gen
           /\ SameRecord(st, old)
<1>1. ObservedStatus(old, gen) \in Status
  BY DEF Status, ObservedStatus, updateConditions, MergeCondition,
         ConditionOf, ConditionTypes, ConditionValues
<1> QED
  BY <1>1 DEF Status, ObservedStatus, updateConditions, MergeCondition,
              SameRecord, isApproved, ConditionTypes

(* A finished health check may be stored as the status of this generation. *)
LEMMA FinishedObject ==
    ASSUME NEW a \in Agent, NEW t \in Nat, NEW old \in Status,
           a.finalizer, a.spec.enabled, old.registered, old.heartbeat <= t,
           \/ /\ old.phase = "Ready" /\ old.health = "Healthy"
              /\ old.failures = 0 /\ old.heartbeat # Never
           \/ old.phase = "Error" /\ old.health = "Unhealthy"
           \/ /\ old.phase = "Unreachable" /\ old.health = "Unhealthy"
              /\ old.failures >= failureThreshold(a.spec)
    PROVE  LET st == ObservedStatus(old, a.gen)
               b == [a EXCEPT !.status = st] IN
           /\ Rewritten(b, a, st)
           /\ GoodVersion(b, t)
           /\ st.registered
           /\ st.phase = old.phase
           /\ SameRecord(st, old)
<1> DEFINE st == ObservedStatus(old, a.gen)
           b == [a EXCEPT !.status = st]
<1>1. a.gen \in Nat
  BY DEF Agent
<1>2. /\ st \in Status
      /\ st.phase = old.phase
      /\ st.health = old.health
      /\ st.registered = old.registered
      /\ st.observedGen = a.gen
      /\ SameRecord(st, old)
  BY <1>1, ObservedFields
<1> HIDE DEF st
<1>3. Rewritten(b, a, st)
  BY <1>2, SetStatus DEF Rewritten
<1> HIDE DEF b
<1>4. /\ b.status.phase = old.phase
      /\ b.status.health = old.health
      /\ b.status.failures = old.failures
      /\ b.status.heartbeat = old.heartbeat
      /\ b.status.registered
      /\ b.status.observedGen = b.gen
      /\ b.finalizer
      /\ b.spec = a.spec
      /\ b.gen \in Nat
  BY <1>1, <1>2, <1>3 DEF Rewritten, SameRecord
<1>5. Sound(b)
  BY <1>4 DEF Sound
<1>6. Earned(b)
  BY <1>4 DEF Earned
<1>7. GoodVersion(b, t)
  BY <1>4, <1>5, <1>6 DEF GoodVersion
<1> QED BY <1>2, <1>3, <1>7 DEF b, st

(* The three outcomes of a health check that started at time s. *)
LEMMA HealthyFields ==
    ASSUME NEW old \in Status, NEW s \in Nat
    PROVE  LET st == HealthyStatus(old, s) IN
           /\ st \in Status
           /\ st.phase = "Ready" /\ st.health = "Healthy"
           /\ st.failures = 0 /\ st.heartbeat = s
           /\ st.registered = old.registered
           /\ isApproved(st) <=> isApproved(old)
<1>1. 0 \in 0..MaxFailures
  BY MaxFailuresAssumption
<1>2. HealthyStatus(old, s) \in Status
  BY <1>1 DEF HealthyStatus, Status, Phases, Healths
<1> QED BY <1>2 DEF HealthyStatus, Status, isApproved

LEMMA CardMismatchFields ==
    ASSUME NEW old \in Status
    PROVE  LET st == CardMismatchStatus(old) IN
           /\ st \in Status
           /\ st.phase = "Error" /\ st.health = "Unhealthy"
           /\ st.registered = old.registered
           /\ SameRecord(st, old)
BY DEF CardMismatchStatus, Status, Phases, Healths, SameRecord, isApproved

LEMMA FailedFields ==
    ASSUME NEW old \in Status, NEW spec
    PROVE  LET st == FailedStatus(old, spec) IN
           /\ st \in Status
           /\ st.health = "Unhealthy"
           /\ \/ st.phase = "Error"
              \/ st.phase = "Unreachable" /\ st.failures >= failureThreshold(spec)
           /\ st.failures \in {old.failures, old.failures + 1}
           /\ st.heartbeat = old.heartbeat
           /\ st.registered = old.registered
           /\ isApproved(st) <=> isApproved(old)
<1> DEFINE n == CountFailure(old.failures)
           p == IF n >= failureThreshold(spec) THEN "Unreachable" ELSE "Error"
           st == FailedStatus(old, spec)
<1>1. n \in 0..MaxFailures /\ n \in {old.failures, old.failures + 1}
  BY MaxFailuresAssumption DEF Status, CountFailure
<1>2. /\ p \in Phases
      /\ p = "Error" \/ (p = "Unreachable" /\ n >= failureThreshold(spec))
  <2>1. CASE n >= failureThreshold(spec)
    <3>1. p = "Unreachable"
      BY <2>1
    <3>. QED BY <2>1, <3>1 DEF Phases
  <2>2. CASE ~(n >= failureThreshold(spec))
    <3>1. p = "Error"
      BY <2>2
    <3>. QED BY <3>1 DEF Phases
  <2>. QED BY <2>1, <2>2
<1>3. st = [old EXCEPT !.health = "Unhealthy", !.failures = n, !.phase = p]
  BY DEF FailedStatus
<1> HIDE DEF n, p, st
<1>4. st \in Status
  BY <1>1, <1>2, <1>3 DEF Status, Healths
<1>5. /\ st.health = "Unhealthy"
      /\ st.phase = p
      /\ st.failures = n
      /\ st.heartbeat = old.heartbeat
      /\ st.registered = old.registered
      /\ st.conditions = old.conditions
  BY <1>3 DEF Status
<1> QED BY <1>1, <1>2, <1>4, <1>5 DEF st, isApproved

-----------------------------------------------------------------------------
(* The inductive invariant: initial states.                                *)

LEMMA InitIndInv == Init => IndInv
<1> SUFFICES ASSUME Init PROVE IndInv
  OBVIOUS
<1> USE DEF Init, ClusterInit, ControllerInit, DashboardInit
<1>1. 0 \in Nat
  OBVIOUS
<1>2. \A s \in Specs : NewAgent(s) \in Agent /\ GoodVersion(NewAgent(s), 0)
  BY NewIsGood, <1>1
<1>3. \A k \in Keys : /\ agents[k] \in Agent \cup {NoAgent}
                      /\ agents[k] # NoAgent => GoodVersion(agents[k], 0)
  BY <1>2
<1>4. TypeOK
  <2>1. ClusterTypeOK
    BY <1>3, PoliciesAssumption, BoundsAssumption DEF ClusterTypeOK, Holders
  <2>2. ControllerTypeOK
    <3>1. queue \in SUBSET Keys /\ delayed \in SUBSET Keys
      OBVIOUS
    <3>2. 0 \in 0..MaxFaults
      BY FaultsAssumption
    <3>. QED BY <3>1, <3>2 DEF ControllerTypeOK, PCs
  <2>. QED BY <2>1, <2>2 DEF TypeOK, DashboardTypeOK
<1>5. GoodVersions
  BY <1>3 DEF GoodVersions
<1>6. WorkerState
  BY DEF WorkerState
<1>7. HoldersBusy /\ CurrentCopies
  BY DEF HoldersBusy, CurrentCopies, IsCurrent
<1>8. WorkerAhead
  BY DEF WorkerAhead
<1> QED BY <1>4, <1>5, <1>6, <1>7, <1>8 DEF IndInv

-----------------------------------------------------------------------------
(* Users and endpoints.                                                    *)

(* Steps that touch neither the objects nor their copies. *)
LEMMA FrameStep ==
    ASSUME IndInv, TypeOK',
           UNCHANGED <<agents, cache, current, now, approval>>,
           UNCHANGED <<pc, req, agent, registryConfig, startedAt>>
    PROVE  IndInv'
<1>1. GoodVersions'
  BY DEF IndInv, GoodVersions
<1>2. WorkerState'
  BY DEF IndInv, WorkerState
<1>3. HoldersBusy' /\ CurrentCopies'
  BY DEF IndInv, HoldersBusy, CurrentCopies, IsCurrent, SameVersion
<1>4. WorkerAhead'
  BY DEF IndInv, WorkerAhead, IsCurrent
<1> QED BY <1>1, <1>2, <1>3, <1>4 DEF IndInv

(* A new version of k that nobody holds yet, written by a user. *)
LEMMA UserWrite ==
    ASSUME IndInv, TypeOK', NEW k \in Keys,
           NEW object \in Agent \cup {NoAgent},
           object # NoAgent => GoodVersion(object, now),
           agents' = [agents EXCEPT ![k] = object],
           current' = [current EXCEPT ![k] = {}],
           UNCHANGED <<cache, now, approval>>,
           UNCHANGED <<pc, req, agent, registryConfig, startedAt>>
    PROVE  IndInv'
<1>1. /\ \A j \in Keys : agents'[j] = IF j = k THEN object ELSE agents[j]
      /\ \A j \in Keys : current'[j] = IF j = k THEN {} ELSE current[j]
  BY DEF IndInv, TypeOK, ClusterTypeOK
<1>2. GoodVersions'
  BY <1>1 DEF IndInv, GoodVersions
<1>3. WorkerState'
  BY DEF IndInv, WorkerState
<1>4. HoldersBusy'
  BY <1>1 DEF IndInv, HoldersBusy, IsCurrent
<1>5. pc # "idle" /\ IsCurrent(req, "worker")'
        => req \in Keys /\ req # k /\ IsCurrent(req, "worker")
  BY <1>1 DEF IndInv, WorkerState, IsCurrent
<1>6. approval # NoApproval => approval.key \in Keys
  BY DEF IndInv, TypeOK, DashboardTypeOK
<1>7. CurrentCopies'
  <2>1. \A j \in Keys : IsCurrent(j, "cache")' => cache'[j] = agents'[j]
    BY <1>1 DEF IndInv, CurrentCopies, IsCurrent
  <2>2. (pc # "idle" /\ IsCurrent(req, "worker"))' => SameVersion(agent, agents[req])'
    BY <1>1, <1>5 DEF IndInv, CurrentCopies, SameVersion
  <2>3. (approval # NoApproval /\ IsCurrent(approval.key, "approver"))'
          => (approval.copy = agents[approval.key])'
    BY <1>1, <1>6 DEF IndInv, CurrentCopies, IsCurrent
  <2>. QED BY <2>1, <2>2, <2>3 DEF CurrentCopies
<1>8. WorkerAhead'
  BY <1>1, <1>5 DEF IndInv, WorkerAhead
<1> QED BY <1>2, <1>3, <1>4, <1>7, <1>8 DEF IndInv

(* A delete request, of a user or of the registry controller. *)
LEMMA DeleteRequest ==
    ASSUME IndInv, ControllerTypeOK', DashboardTypeOK',
           NEW k \in Keys, agents[k] # NoAgent, RequestDelete(k),
           ops' \in 0..MaxOps,
           UNCHANGED <<cache, config, serving, now, approval>>,
           UNCHANGED <<pc, req, agent, registryConfig, startedAt>>
    PROVE  IndInv'
<1>1. agents[k] \in Agent /\ GoodVersion(agents[k], now) /\ now \in Nat
  BY DEF IndInv, TypeOK, ClusterTypeOK, GoodVersions
<1>2. /\ MarkDeleted(agents[k]) \in Agent
      /\ GoodVersion(MarkDeleted(agents[k]), now)
  BY <1>1, MarkDeletedIsGood
<1>3. PICK object \in Agent \cup {NoAgent} :
          /\ object # NoAgent => GoodVersion(object, now)
          /\ agents' = [agents EXCEPT ![k] = object]
  BY <1>2 DEF RequestDelete, Remove
<1>4. /\ current' = [current EXCEPT ![k] = {}]
      /\ notify' = notify \cup {k}
  BY DEF RequestDelete, Remove
<1>5. TypeOK'
  BY <1>3, <1>4 DEF IndInv, TypeOK, ClusterTypeOK
<1> QED BY <1>3, <1>4, <1>5, UserWrite

LEMMA EnvironmentStep == IndInv /\ Environment => IndInv'
<1> SUFFICES ASSUME IndInv, Environment PROVE IndInv'
  OBVIOUS
<1> USE DEF UserMoves
<1>0. /\ UNCHANGED <<approval, pc, req, agent, registryConfig, startedAt>>
      /\ UNCHANGED <<requeue, queue, delayed, faults>>
  BY DEF Environment, controllerVars, workerVars, queueVars
<1>1. now \in Nat /\ ops \in 0..MaxOps
  BY DEF IndInv, TypeOK, ClusterTypeOK
<1>2. ControllerTypeOK' /\ DashboardTypeOK'
  BY <1>0 DEF IndInv, TypeOK, ControllerTypeOK, DashboardTypeOK
<1>3. ASSUME NEW k \in Keys, UserCreate(k)
      PROVE  IndInv'
  <2>1. PICK s \in Specs : agents' = [agents EXCEPT ![k] = NewAgent(s)]
    BY <1>3 DEF UserCreate
  <2>2. NewAgent(s) \in Agent /\ GoodVersion(NewAgent(s), now)
    BY <1>1, NewIsGood
  <2>3. TypeOK'
    BY <1>1, <1>2, <1>3, <2>1, <2>2, BoundsAssumption
    DEF UserCreate, IndInv, TypeOK, ClusterTypeOK
  <2>. QED BY <1>0, <1>3, <2>1, <2>2, <2>3, UserWrite DEF UserCreate
<1>4. ASSUME NEW k \in Keys, UserEdit(k)
      PROVE  IndInv'
  <2>1. PICK s \in Specs : agents' = [agents EXCEPT ![k] = Edited(agents[k], s)]
    BY <1>4 DEF UserEdit
  <2>2. agents[k] \in Agent /\ GoodVersion(agents[k], now)
    BY <1>4 DEF UserEdit, IndInv, TypeOK, ClusterTypeOK, GoodVersions
  <2>3. Edited(agents[k], s) \in Agent /\ GoodVersion(Edited(agents[k], s), now)
    BY <1>1, <2>2, EditedIsGood
  <2>4. TypeOK'
    BY <1>1, <1>2, <1>4, <2>1, <2>3, BoundsAssumption
    DEF UserEdit, IndInv, TypeOK, ClusterTypeOK
  <2>. QED BY <1>0, <1>4, <2>1, <2>3, <2>4, UserWrite DEF UserEdit
<1>5. ASSUME NEW k \in Keys, UserDelete(k)
      PROVE  IndInv'
  <2>1. /\ UNCHANGED <<cache, config, serving, now>>
        /\ ops' \in 0..MaxOps
    BY <1>1, <1>5, BoundsAssumption DEF UserDelete
  <2>. QED BY <1>0, <1>2, <1>5, <2>1, DeleteRequest DEF UserDelete
<1>6. ASSUME UserConfigure
      PROVE  IndInv'
  <2>1. TypeOK'
    BY <1>1, <1>2, <1>6, BoundsAssumption, PoliciesAssumption
    DEF UserConfigure, storeVars, IndInv, TypeOK, ClusterTypeOK
  <2>. QED BY <1>0, <1>6, <2>1, FrameStep DEF UserConfigure, storeVars
<1>7. ASSUME NEW u \in URLs, EndpointChange(u)
      PROVE  IndInv'
  <2>1. TypeOK'
    BY <1>1, <1>2, <1>7, BoundsAssumption
    DEF EndpointChange, storeVars, IndInv, TypeOK, ClusterTypeOK
  <2>. QED BY <1>0, <1>7, <2>1, FrameStep DEF EndpointChange, storeVars
<1>8. ASSUME Tick
      PROVE  IndInv'
  <2> USE <1>0, <1>1, <1>8 DEF Tick, storeVars
  <2>1. TypeOK'
    BY <1>2 DEF IndInv, TypeOK, ClusterTypeOK
  <2>2. \A a \in Agent : GoodVersion(a, now) => GoodVersion(a, now')
    BY DEF GoodVersion, Agent, Status, Never
  <2>3. GoodVersions'
    <3>1. \A k \in Keys : /\ agents[k] \in Agent \cup {NoAgent}
                          /\ cache[k] \in Agent \cup {NoAgent}
      BY DEF IndInv, TypeOK, ClusterTypeOK
    <3>2. approval # NoApproval => approval.copy \in Agent
      BY DEF IndInv, TypeOK, DashboardTypeOK
    <3>3. pc # "idle" => agent \in Agent
      BY DEF IndInv, TypeOK, ControllerTypeOK, WorkerState
    <3>. QED BY <2>2, <3>1, <3>2, <3>3 DEF IndInv, GoodVersions
  <2>4. WorkerState'
    <3>1. startedAt \in Nat
      BY DEF IndInv, TypeOK, ControllerTypeOK
    <3>. QED BY <3>1 DEF IndInv, WorkerState
  <2>5. HoldersBusy' /\ CurrentCopies'
    BY DEF IndInv, HoldersBusy, CurrentCopies, IsCurrent, SameVersion
  <2>6. WorkerAhead'
    BY DEF IndInv, WorkerAhead, IsCurrent
  <2>. QED BY <2>1, <2>3, <2>4, <2>5, <2>6 DEF IndInv
<1> QED
  BY <1>3, <1>4, <1>5, <1>6, <1>7, <1>8 DEF Environment

-----------------------------------------------------------------------------
(* The approval handler.                                                   *)

LEMMA ApproverStep == IndInv /\ Approver => IndInv'
<1> SUFFICES ASSUME IndInv, Approver PROVE IndInv'
  OBVIOUS
<1>0. /\ UNCHANGED <<pc, req, agent, registryConfig, startedAt>>
      /\ UNCHANGED <<requeue, queue, delayed, faults>>
  BY DEF Approver, controllerVars, workerVars, queueVars
<1>1. /\ now \in Nat
      /\ ops \in 0..MaxOps
      /\ \A k \in Keys : /\ agents[k] \in Agent \cup {NoAgent}
                         /\ cache[k] \in Agent \cup {NoAgent}
                         /\ current[k] \in SUBSET Holders
  BY DEF IndInv, TypeOK, ClusterTypeOK
<1>2. ControllerTypeOK'
  BY <1>0 DEF IndInv, TypeOK, ControllerTypeOK
<1>3. pc # "idle" => req \in Keys
  BY DEF IndInv, WorkerState
<1>4. ASSUME NEW k \in Keys, ApproveGet(k)
      PROVE  IndInv'
  <2> USE <1>0, <1>1, <1>4
  <2>1. /\ UNCHANGED <<agents, cache, notify, config, serving, now>>
        /\ approval = NoApproval
        /\ approval' = [key |-> k, copy |-> cache[k]]
        /\ cache[k] \in Agent
    BY DEF ApproveGet
  <2>2. approval' # NoApproval /\ approval'.key = k /\ approval'.copy = cache[k]
    BY <2>1, ApprovalAssumption
  <2>3. \A j \in Keys :
            /\ current'[j] \in SUBSET Holders
            /\ \A h \in {"cache", "worker"} : IsCurrent(j, h)' <=> IsCurrent(j, h)
            /\ IsCurrent(j, "approver")' => j = k /\ IsCurrent(k, "cache")
    BY DEF ApproveGet, IsCurrent, IndInv, TypeOK, ClusterTypeOK, HoldersBusy,
           Holders
  <2>4. TypeOK'
    <3>1. current' \in [Keys -> SUBSET Holders]
      BY DEF ApproveGet, IndInv, TypeOK, ClusterTypeOK, Holders
    <3>2. ops' \in 0..MaxOps
      BY BoundsAssumption DEF ApproveGet, UserMoves
    <3>. QED BY <1>2, <2>1, <3>1, <3>2
             DEF IndInv, TypeOK, ClusterTypeOK, DashboardTypeOK
  <2>5. GoodVersions'
    BY <2>1, <2>2, AgentIsNotNoAgent DEF IndInv, GoodVersions
  <2>6. WorkerState'
    BY <2>1 DEF IndInv, WorkerState
  <2>7. HoldersBusy'
    BY <2>2, <2>3 DEF IndInv, HoldersBusy
  <2>8. CurrentCopies'
    BY <1>3, <2>1, <2>2, <2>3 DEF IndInv, CurrentCopies, SameVersion
  <2>9. WorkerAhead'
    BY <1>3, <2>1, <2>3 DEF IndInv, WorkerAhead
  <2>. QED BY <2>4, <2>5, <2>6, <2>7, <2>8, <2>9 DEF IndInv
<1>5. ASSUME ApproveWrite
      PROVE  IndInv'
  <2> DEFINE k == approval.key
             object == [agents[k] EXCEPT !.status =
                            ApprovedStatus(approval.copy.status)]
  <2>1. /\ k \in Keys
        /\ approval.copy \in Agent
        /\ GoodVersion(approval.copy, now)
        /\ approval.copy = agents[k]
        /\ UNCHANGED <<cache, notify, config, serving, now, ops>>
        /\ approval' = NoApproval
    BY <1>5 DEF ApproveWrite, worldVars, IndInv, TypeOK, DashboardTypeOK,
                GoodVersions, CurrentCopies
  <2>2. object \in Agent /\ GoodVersion(object, now)
    BY <1>1, <2>1, ApprovalIsGood
  <2>3. /\ agents' = [agents EXCEPT ![k] = object]
        /\ \/ current' = [current EXCEPT ![k] = {}]
           \/ /\ object = agents[k]
              /\ current' = [current EXCEPT ![k] = (@ \ {"approver"}) \cup {}]
    BY <1>5 DEF ApproveWrite, Write
  <2> HIDE DEF object
  <2>4. /\ \A j \in Keys : agents'[j] = IF j = k THEN object ELSE agents[j]
        /\ \A j \in Keys : j # k => current'[j] = current[j]
        /\ \A j \in Keys : IsCurrent(j, "approver")' => j # k /\ IsCurrent(j, "approver")
        /\ \A j \in Keys : \A h \in Holders :
               IsCurrent(j, h)' => IsCurrent(j, h) /\ (j = k => object = agents[k])
    BY <2>1, <2>3 DEF IsCurrent, IndInv, TypeOK, ClusterTypeOK
  <2>5. TypeOK'
    BY <1>2, <2>1, <2>2, <2>3
    DEF IndInv, TypeOK, ClusterTypeOK, DashboardTypeOK
  <2>6. GoodVersions'
    BY <1>0, <2>1, <2>2, <2>4 DEF IndInv, GoodVersions
  <2>7. WorkerState'
    BY <1>0, <2>1 DEF IndInv, WorkerState
  <2>8. HoldersBusy'
    BY <1>0, <2>1, <2>4 DEF IndInv, HoldersBusy, Holders
  <2>9. CurrentCopies'
    BY <1>0, <1>3, <2>1, <2>4
    DEF IndInv, CurrentCopies, SameVersion, Holders
  <2>10. WorkerAhead'
    BY <1>0, <1>3, <2>4 DEF IndInv, WorkerAhead, Holders
  <2>. QED BY <2>5, <2>6, <2>7, <2>8, <2>9, <2>10 DEF IndInv
<1>6. ASSUME ApproveConflict
      PROVE  IndInv'
  <2>1. /\ UNCHANGED <<agents, cache, current, notify, config, serving, now, ops>>
        /\ approval' = NoApproval
        /\ ~IsCurrent(approval.key, "approver")
    BY <1>6 DEF ApproveConflict, clusterVars
  <2>2. TypeOK'
    BY <1>2, <2>1 DEF IndInv, TypeOK, ClusterTypeOK, DashboardTypeOK
  <2>3. GoodVersions'
    BY <1>0, <2>1 DEF IndInv, GoodVersions
  <2>4. WorkerState'
    BY <1>0, <2>1 DEF IndInv, WorkerState
  <2>5. HoldersBusy' /\ CurrentCopies'
    BY <1>0, <2>1 DEF IndInv, HoldersBusy, CurrentCopies, IsCurrent, SameVersion
  <2>6. WorkerAhead'
    BY <1>0, <2>1 DEF IndInv, WorkerAhead, IsCurrent
  <2>. QED BY <2>2, <2>3, <2>4, <2>5, <2>6 DEF IndInv
<1> QED
  BY <1>4, <1>5, <1>6 DEF Approver

-----------------------------------------------------------------------------
(* The controller.                                                         *)

(* The worker ends a pass: what is stored for its key is good, and nobody  *)
(* counts as current who was not, or whose copy has been overtaken.        *)
LEMMA PassEnds ==
    ASSUME IndInv, TypeOK', pc # "idle", WorkerIdle,
           UNCHANGED <<cache, now, approval>>,
           \A j \in Keys : j # req => agents'[j] = agents[j]
                                   /\ current'[j] = current[j],
           agents'[req] # NoAgent => GoodVersion(agents'[req], now),
           "worker" \notin current'[req],
           \/ current'[req] = {}
           \/ agents'[req] = agents[req] /\ current'[req] \subseteq current[req]
    PROVE  IndInv'
<1>1. req \in Keys /\ pc' = "idle" /\ req' = NoKey /\ req' \notin Keys
  BY FaultsAssumption DEF IndInv, WorkerState, WorkerIdle
<1>2. \A j \in Keys : \A h \in Holders :
          IsCurrent(j, h)' => /\ IsCurrent(j, h)
                              /\ agents'[j] = agents[j]
                              /\ h # "worker"
  BY <1>1 DEF IsCurrent, IndInv, HoldersBusy
<1>3. approval # NoApproval => approval.key \in Keys
  BY DEF IndInv, TypeOK, DashboardTypeOK
<1>4. GoodVersions'
  BY <1>1 DEF IndInv, GoodVersions
<1>5. WorkerState'
  BY <1>1 DEF WorkerState
<1>6. HoldersBusy'
  BY <1>2 DEF IndInv, HoldersBusy, Holders
<1>7. CurrentCopies'
  BY <1>1, <1>2, <1>3 DEF IndInv, CurrentCopies, Holders
<1>8. WorkerAhead'
  BY <1>1 DEF WorkerAhead
<1> QED BY <1>4, <1>5, <1>6, <1>7, <1>8 DEF IndInv

(* Return keeps the types of what it assigns. *)
LEMMA ReturnTypes ==
    ASSUME TypeOK, NEW again, pc # "idle" => req \in Keys, pc # "idle",
           Return(again), faults' \in 0..MaxFaults
    PROVE  ControllerTypeOK'
BY DEF Return, WorkerIdle, TypeOK, ControllerTypeOK, PCs

LEMMA SyncStep ==
    ASSUME IndInv, NEW k \in Keys, Sync(k), UNCHANGED approval
    PROVE  IndInv'
<1>1. /\ UNCHANGED <<agents, now, config, serving, ops>>
      /\ UNCHANGED <<pc, req, agent, registryConfig, startedAt, requeue>>
      /\ UNCHANGED <<delayed, faults>>
      /\ cache' = [cache EXCEPT ![k] = agents[k]]
      /\ current' = [current EXCEPT ![k] = @ \cup {"cache"}]
      /\ notify' = notify \ {k}
      /\ queue' = IF k \in notify THEN queue \cup {k} ELSE queue
  BY DEF Sync, Deliver, worldVars, workerVars
<1>2. TypeOK'
  <2>1. ClusterTypeOK'
    BY <1>1 DEF IndInv, TypeOK, ClusterTypeOK, Holders
  <2>2. ControllerTypeOK' /\ DashboardTypeOK'
    BY <1>1 DEF IndInv, TypeOK, ControllerTypeOK, DashboardTypeOK
  <2>. QED BY <2>1, <2>2 DEF TypeOK
<1>3. /\ \A j \in Keys : cache'[j] = IF j = k THEN agents[k] ELSE cache[j]
      /\ \A j \in Keys : \A h \in {"worker", "approver"} :
             IsCurrent(j, h)' <=> IsCurrent(j, h)
      /\ \A j \in Keys : IsCurrent(j, "cache")' <=> (IsCurrent(j, "cache") \/ j = k)
  BY <1>1 DEF IsCurrent, IndInv, TypeOK, ClusterTypeOK
<1>4. pc # "idle" => req \in Keys
  BY DEF IndInv, WorkerState
<1>5. approval # NoApproval => approval.key \in Keys
  BY DEF IndInv, TypeOK, DashboardTypeOK
<1>6. GoodVersions'
  BY <1>1, <1>3 DEF IndInv, GoodVersions
<1>7. WorkerState'
  BY <1>1 DEF IndInv, WorkerState
<1>8. HoldersBusy'
  BY <1>1, <1>3 DEF IndInv, HoldersBusy
<1>9. CurrentCopies'
  BY <1>1, <1>3, <1>4, <1>5 DEF IndInv, CurrentCopies, SameVersion
<1>10. WorkerAhead'
  BY <1>1, <1>3, <1>4 DEF IndInv, WorkerAhead
<1> QED BY <1>2, <1>6, <1>7, <1>8, <1>9, <1>10 DEF IndInv

LEMMA TimerStep ==
    ASSUME IndInv, NEW k \in Keys, TimerFires(k), UNCHANGED approval
    PROVE  IndInv'
<1>1. /\ UNCHANGED <<agents, cache, current, notify, config, serving, now, ops>>
      /\ UNCHANGED <<pc, req, agent, registryConfig, startedAt, requeue, faults>>
      /\ delayed' = delayed \ {k}
      /\ queue' = queue \cup {k}
  BY DEF TimerFires, clusterVars, workerVars
<1>2. TypeOK'
  BY <1>1 DEF IndInv, TypeOK, ClusterTypeOK, ControllerTypeOK, DashboardTypeOK
<1> QED BY <1>1, <1>2, FrameStep

LEMMA ReconcileGetStep ==
    ASSUME IndInv, NEW k \in Keys, ReconcileGet(k), UNCHANGED approval
    PROVE  IndInv'
<1>1. /\ UNCHANGED <<agents, cache, notify, config, serving, now, ops>>
      /\ UNCHANGED <<registryConfig, startedAt, requeue, delayed, faults>>
      /\ queue' = queue \ {k}
      /\ pc = "idle"
  BY DEF ReconcileGet, worldVars
<1>2. CASE UNCHANGED <<pc, req, agent, current>>
  <2>1. TypeOK'
    BY <1>1, <1>2 DEF IndInv, TypeOK, ClusterTypeOK, ControllerTypeOK,
                      DashboardTypeOK
  <2>. QED BY <1>1, <1>2, <2>1, FrameStep
<1>3. CASE /\ cache[k] # NoAgent
           /\ AfterGet(cache[k]) # "idle"
           /\ pc' = AfterGet(cache[k])
           /\ req' = k
           /\ agent' = cache[k]
           /\ current' = IF IsCurrent(k, "cache")
                         THEN [current EXCEPT ![k] = @ \cup {"worker"}]
                         ELSE current
  <2>1. /\ cache[k] \in Agent
        /\ GoodVersion(cache[k], now)
        /\ pc' \in {"remove", "add", "conflict"}
        /\ pc' = "conflict" => cache[k].finalizer
    BY <1>3 DEF IndInv, TypeOK, ClusterTypeOK, GoodVersions, AfterGet
  <2>2. /\ \A j \in Keys : \A h \in {"cache", "approver"} :
               IsCurrent(j, h)' <=> IsCurrent(j, h)
        /\ \A j \in Keys : IsCurrent(j, "worker")' => j = k /\ IsCurrent(k, "cache")
    BY <1>1, <1>3 DEF IsCurrent, IndInv, TypeOK, ClusterTypeOK, HoldersBusy
  <2>3. TypeOK'
    <3>1. current' \in [Keys -> SUBSET Holders]
      BY <1>3 DEF IndInv, TypeOK, ClusterTypeOK, Holders
    <3>2. ClusterTypeOK'
      BY <1>1, <3>1 DEF IndInv, TypeOK, ClusterTypeOK
    <3>3. ControllerTypeOK'
      BY <1>1, <1>3, <2>1 DEF IndInv, TypeOK, ControllerTypeOK, PCs
    <3>. QED BY <3>2, <3>3 DEF IndInv, TypeOK, DashboardTypeOK
  <2>4. GoodVersions'
    BY <1>1, <1>3, <2>1 DEF IndInv, GoodVersions
  <2>5. WorkerState'
    BY <1>3, <2>1 DEF WorkerState
  <2>6. HoldersBusy'
    BY <1>3, <2>1, <2>2 DEF IndInv, HoldersBusy
  <2>7. approval # NoApproval => approval.key \in Keys
    BY DEF IndInv, TypeOK, DashboardTypeOK
  <2>8. IsCurrent(k, "worker")' => cache[k] = agents[k]
    BY <2>2 DEF IndInv, CurrentCopies
  <2>9. CurrentCopies'
    BY <1>1, <1>3, <2>2, <2>7, <2>8 DEF IndInv, CurrentCopies, SameVersion
  <2>10. WorkerAhead'
    <3>1. /\ cache[k].status.heartbeat \in Int
          /\ cache[k].status.failures \in Int
      BY <2>1 DEF Agent, Status, Never
    <3>. QED BY <1>1, <1>3, <2>8, <3>1 DEF WorkerAhead, OneStepAhead
  <2>. QED BY <2>3, <2>4, <2>5, <2>6, <2>9, <2>10 DEF IndInv
<1> QED BY <1>2, <1>3 DEF ReconcileGet

(* A step that rewrites the in-memory status, and nothing that is shared. *)
LEMMA InMemoryStep ==
    ASSUME IndInv, TypeOK', WorkerState', pc \notin {"idle", "write"}, pc' # "idle",
           UNCHANGED <<agents, cache, current, now, approval, req>>,
           NEW st, Rewritten(agent', agent, st), GoodVersion(agent', now),
           isApproved(st) <=> isApproved(agent.status),
           OneStepAhead(st, agent.status),
           pc' # "write" => SameRecord(st, agent.status)
    PROVE  IndInv'
<1>1. req \in Keys
  BY DEF IndInv, WorkerState
<1>2. \A j \in Keys : \A h \in Holders : IsCurrent(j, h)' <=> IsCurrent(j, h)
  BY DEF IsCurrent
<1>3. approval # NoApproval => approval.key \in Keys
  BY DEF IndInv, TypeOK, DashboardTypeOK
<1>4. GoodVersions'
  BY DEF IndInv, GoodVersions
<1>5. HoldersBusy'
  BY <1>2 DEF IndInv, HoldersBusy, Holders
<1>6. CurrentCopies'
  <2>1. IsCurrent(req, "worker") => SameVersion(agent, agents[req])
    BY DEF IndInv, CurrentCopies
  <2>2. IsCurrent(req, "worker") => SameVersion(agent', agents[req])
    BY <2>1 DEF Rewritten, SameVersion
  <2>. QED BY <1>1, <1>2, <1>3, <2>2 DEF IndInv, CurrentCopies, Holders
<1>7. WorkerAhead'
  BY <1>1, <1>2 DEF IndInv, WorkerAhead, Rewritten, OneStepAhead, SameRecord,
                    Holders
<1> QED BY <1>4, <1>5, <1>6, <1>7 DEF IndInv

(* What the worker's object is in the middle of a pass. *)
LEMMA WorkerObject ==
    ASSUME IndInv, pc # "idle"
    PROVE  /\ req \in Keys
           /\ agent \in Agent
           /\ agent.status \in Status
           /\ agent.gen \in Nat
           /\ agent.status.heartbeat \in Int
           /\ agent.status.failures \in Int
           /\ GoodVersion(agent, now)
           /\ now \in Nat
<1>1. req \in Keys /\ agent \in Agent /\ GoodVersion(agent, now) /\ now \in Nat
  BY DEF IndInv, WorkerState, TypeOK, ControllerTypeOK, ClusterTypeOK,
         GoodVersions
<1>2. agent.status \in Status /\ agent.gen \in Nat
  BY <1>1 DEF Agent
<1>3. agent.status.heartbeat \in Int /\ agent.status.failures \in Int
  BY <1>2 DEF Status, Never
<1> QED BY <1>1, <1>2, <1>3

LEMMA SameRecordIsAhead ==
    ASSUME NEW new, NEW old, SameRecord(new, old),
           old.heartbeat \in Int, old.failures \in Int
    PROVE  OneStepAhead(new, old) /\ (isApproved(new) <=> isApproved(old))
BY DEF SameRecord, OneStepAhead

LEMMA CheckConflictStep ==
    ASSUME IndInv, CheckConflict, UNCHANGED approval
    PROVE  IndInv'
<1> DEFINE st == Register(agent.status)
<1>1. /\ UNCHANGED <<agents, cache, notify, config, serving, now, ops>>
      /\ UNCHANGED <<registryConfig, startedAt, queue, faults>>
      /\ pc = "conflict"
      /\ agent.finalizer
  BY DEF CheckConflict, worldVars, IndInv, WorkerState
<1>2. /\ req \in Keys
      /\ agent \in Agent
      /\ agent.status.heartbeat \in Int
      /\ agent.status.failures \in Int
      /\ GoodVersion(agent, now)
      /\ now \in Nat
  BY <1>1, WorkerObject
<1>3. ASSUME NEW new, new \in {URLConflictStatus(st), DisabledStatus(st)},
             agent' = [agent EXCEPT !.status = new],
             pc' = "write", requeue' \in BOOLEAN,
             UNCHANGED <<req, current, delayed>>
      PROVE  IndInv'
  <2>1. /\ Rewritten(agent', agent, new)
        /\ GoodVersion(agent', now)
        /\ new.registered
        /\ new.phase \in {"Error", "Pending"}
        /\ SameRecord(new, agent.status)
    BY <1>1, <1>2, <1>3, StoppedObjects
  <2>2. TypeOK'
    BY <1>1, <1>3, <2>1
    DEF IndInv, TypeOK, ClusterTypeOK, ControllerTypeOK, DashboardTypeOK,
        PCs, Rewritten
  <2>3. WorkerState'
    BY <1>1, <1>2, <1>3, <2>1, AgentIsNotNoAgent DEF WorkerState, Rewritten
  <2>4. OneStepAhead(new, agent.status)
        /\ (isApproved(new) <=> isApproved(agent.status))
    BY <1>2, <2>1, SameRecordIsAhead
  <2>. QED BY <1>1, <1>3, <2>1, <2>2, <2>3, <2>4, InMemoryStep
<1>4. ASSUME /\ pc' = "idle"
             /\ req' = NoKey
             /\ agent' = NoAgent
             /\ current' = [current EXCEPT ![req] = @ \ {"worker"}]
             /\ UNCHANGED <<requeue, delayed>>
      PROVE  IndInv'
  <2>1. /\ \A j \in Keys : \A h \in {"cache", "approver"} :
               IsCurrent(j, h)' <=> IsCurrent(j, h)
        /\ \A j \in Keys : ~IsCurrent(j, "worker")'
    BY <1>2, <1>4 DEF IsCurrent, IndInv, TypeOK, ClusterTypeOK, HoldersBusy
  <2>2. TypeOK'
    BY <1>1, <1>2, <1>4
    DEF IndInv, TypeOK, ClusterTypeOK, ControllerTypeOK, DashboardTypeOK, PCs
  <2>3. approval # NoApproval => approval.key \in Keys
    BY DEF IndInv, TypeOK, DashboardTypeOK
  <2>4. GoodVersions' /\ WorkerState' /\ WorkerAhead'
    BY <1>1, <1>4 DEF IndInv, GoodVersions, WorkerState, WorkerAhead
  <2>5. HoldersBusy'
    BY <2>1 DEF IndInv, HoldersBusy
  <2>6. CurrentCopies'
    BY <1>1, <1>4, <2>1, <2>3 DEF IndInv, CurrentCopies
  <2>. QED BY <2>2, <2>4, <2>5, <2>6 DEF IndInv
<1>5. ASSUME agent.spec.enabled,
             agent' = [agent EXCEPT !.status = st],
             pc' = "policy",
             UNCHANGED <<req, requeue, current, delayed>>
      PROVE  IndInv'
  <2>1. /\ Rewritten(agent', agent, st)
        /\ GoodVersion(agent', now)
        /\ st.registered
        /\ SameRecord(st, agent.status)
    BY <1>1, <1>2, <1>5, RegisteredObject
  <2> HIDE DEF st
  <2>2. TypeOK'
    BY <1>1, <1>5, <2>1
    DEF IndInv, TypeOK, ClusterTypeOK, ControllerTypeOK, DashboardTypeOK,
        PCs, Rewritten
  <2>3. WorkerState'
    BY <1>1, <1>2, <1>5, <2>1, AgentIsNotNoAgent DEF WorkerState, Rewritten
  <2>4. OneStepAhead(st, agent.status)
        /\ (isApproved(st) <=> isApproved(agent.status))
    BY <1>2, <2>1, SameRecordIsAhead
  <2>. QED BY <1>1, <1>5, <2>1, <2>2, <2>3, <2>4, InMemoryStep
<1>6. requeue \in BOOLEAN
  BY DEF IndInv, TypeOK, ControllerTypeOK
<1> QED BY <1>3, <1>4, <1>5, <1>6 DEF CheckConflict

LEMMA ApplyPolicyStep ==
    ASSUME IndInv, ApplyPolicy, UNCHANGED approval
    PROVE  IndInv'
<1> DEFINE st == agent.status
           go == AdmittedStatus(config, st)
<1>1. /\ UNCHANGED <<agents, cache, current, notify, config, serving, now, ops>>
      /\ UNCHANGED <<req, queue, delayed, faults>>
      /\ pc = "policy"
      /\ agent.finalizer
      /\ st.registered
      /\ agent.spec.enabled
      /\ registryConfig' = config
      /\ requeue' = TRUE
  BY DEF ApplyPolicy, clusterVars, queueVars, IndInv, WorkerState
<1>2. /\ req \in Keys
      /\ agent \in Agent
      /\ st \in Status
      /\ agent.gen \in Nat
      /\ st.heartbeat \in Int
      /\ st.failures \in Int
      /\ GoodVersion(agent, now)
      /\ now \in Nat
      /\ st.heartbeat <= now
  BY <1>1, WorkerObject DEF GoodVersion
<1> HIDE DEF st
<1>3. ASSUME NEW new, Rewritten(agent', agent, new),
             pc' \in {"write", "probe"}, startedAt' \in Nat
      PROVE  TypeOK'
  BY <1>1, <1>3
  DEF IndInv, TypeOK, ClusterTypeOK, ControllerTypeOK, DashboardTypeOK, PCs,
      Rewritten
<1>4. startedAt \in Nat
  BY DEF IndInv, TypeOK, ControllerTypeOK
<1>5. CASE /\ ~Admitted(config, st)
           /\ agent' = [agent EXCEPT !.status = PendingApprovalStatus(st)]
           /\ pc' = "write"
           /\ UNCHANGED startedAt
  <2> DEFINE new == PendingApprovalStatus(st)
  <2>1. ~isApproved(st)
    BY <1>5 DEF Admitted
  <2>2. /\ Rewritten(agent', agent, new)
        /\ GoodVersion(agent', now)
        /\ new.registered
        /\ new.phase = "Pending"
        /\ SameRecord(new, st)
    BY <1>1, <1>2, <1>5, <2>1, WaitingObject DEF st
  <2> HIDE DEF new
  <2>3. TypeOK'
    BY <1>3, <1>4, <1>5, <2>2
  <2>4. WorkerState'
    BY <1>1, <1>2, <1>5, <2>2, AgentIsNotNoAgent DEF WorkerState, Rewritten
  <2>5. OneStepAhead(new, st) /\ (isApproved(new) <=> isApproved(st))
    BY <1>2, <2>2, SameRecordIsAhead
  <2>. QED BY <1>1, <1>5, <2>2, <2>3, <2>4, <2>5, InMemoryStep DEF st
<1>6. ASSUME Admitted(config, st)
      PROVE  LET b == [agent EXCEPT !.status = go] IN
             /\ Rewritten(b, agent, go)
             /\ GoodVersion(b, now)
             /\ Admitted(config, go)
             /\ go \in Status
             /\ go.registered
             /\ SameRecord(go, st)
  BY <1>1, <1>2, <1>6, AdmittedObject DEF st
<1> HIDE DEF go
<1>7. CASE /\ Admitted(config, st)
           /\ agent' = [agent EXCEPT !.status = go]
           /\ startedAt' = now
           /\ pc' = "probe"
  <2>1. /\ Rewritten(agent', agent, go)
        /\ GoodVersion(agent', now)
        /\ Admitted(config, go)
        /\ go.registered
        /\ SameRecord(go, st)
    BY <1>6, <1>7
  <2>2. TypeOK'
    BY <1>2, <1>3, <1>7, <2>1
  <2>3. WorkerState'
    <3>1. go.heartbeat <= now
      BY <1>2, <2>1 DEF SameRecord
    <3>2. Admitted(config', go)
      BY <1>1, <2>1
    <3>3. Admitted(registryConfig', agent'.status)
      BY <1>1, <2>1 DEF Rewritten
    <3>. QED BY <1>1, <1>2, <1>7, <2>1, <3>1, <3>3, AgentIsNotNoAgent
             DEF WorkerState, Rewritten, Admitted
  <2>4. OneStepAhead(go, st) /\ (isApproved(go) <=> isApproved(st))
    BY <1>2, <2>1, SameRecordIsAhead
  <2>. QED BY <1>1, <1>7, <2>1, <2>2, <2>3, <2>4, InMemoryStep DEF st
<1>8. CASE /\ Admitted(config, st)
           /\ agent' = [agent EXCEPT !.status =
                            ObservedStatus(HealthyStatus(go, now), agent.gen)]
           /\ pc' = "write"
           /\ UNCHANGED startedAt
  <2> DEFINE h == HealthyStatus(go, now)
             new == ObservedStatus(h, agent.gen)
  <2>1. /\ h \in Status
        /\ h.phase = "Ready" /\ h.health = "Healthy"
        /\ h.failures = 0 /\ h.heartbeat = now
        /\ h.registered
        /\ isApproved(h) <=> isApproved(st)
    BY <1>2, <1>6, <1>8, HealthyFields DEF SameRecord
  <2> HIDE DEF h
  <2>2. h.heartbeat <= now /\ h.heartbeat # Never
    BY <1>2, <2>1 DEF Never
  <2>3. /\ Rewritten(agent', agent, new)
        /\ GoodVersion(agent', now)
        /\ new.registered
        /\ SameRecord(new, h)
    BY <1>1, <1>2, <1>8, <2>1, <2>2, FinishedObject DEF h
  <2> HIDE DEF new
  <2>4. TypeOK'
    BY <1>3, <1>4, <1>8, <2>3
  <2>5. OneStepAhead(new, st) /\ (isApproved(new) <=> isApproved(st))
    BY <1>2, <2>1, <2>3 DEF SameRecord, OneStepAhead
  <2>6. WorkerState'
    <3>1. Admitted(registryConfig', agent'.status)
      BY <1>1, <1>8, <2>3, <2>5 DEF Admitted, Rewritten
    <3>. QED BY <1>1, <1>2, <1>8, <2>3, <3>1, AgentIsNotNoAgent
             DEF WorkerState, Rewritten, Admitted
  <2>. QED BY <1>1, <1>8, <2>3, <2>4, <2>5, <2>6, InMemoryStep DEF st
<1> QED BY <1>5, <1>7, <1>8 DEF ApplyPolicy, st, go

(* What a health check makes of the status (a2aagent_controller.go,        *)
(* 164-243).                                                               *)
LEMMA CheckedFields ==
    ASSUME NEW a \in Agent, NEW card, a.status.registered,
           startedAt \in Nat, now \in Nat, startedAt <= now,
           a.status.heartbeat <= startedAt
    PROVE  LET st == CheckedStatus(a, card) IN
           /\ st \in Status
           /\ st.registered
           /\ st.heartbeat <= now
           /\ \/ /\ st.phase = "Ready" /\ st.health = "Healthy"
                 /\ st.failures = 0 /\ st.heartbeat # Never
              \/ st.phase = "Error" /\ st.health = "Unhealthy"
              \/ /\ st.phase = "Unreachable" /\ st.health = "Unhealthy"
                 /\ st.failures >= failureThreshold(a.spec)
           /\ OneStepAhead(st, a.status)
           /\ isApproved(st) <=> isApproved(a.status)
<1> DEFINE checked == CheckedStatus(a, card)
<1>1. /\ a.status \in Status
      /\ a.status.heartbeat \in Int
      /\ a.status.failures \in Int
  BY DEF Agent, Status, Never
<1>2. CASE card = NoCard
  <2>1. checked = FailedStatus(a.status, a.spec)
    BY <1>2 DEF CheckedStatus
  <2> HIDE DEF checked
  <2>2. /\ checked \in Status
        /\ checked.registered
        /\ checked.heartbeat <= now
        /\ checked.health = "Unhealthy"
        /\ \/ checked.phase = "Error"
           \/ /\ checked.phase = "Unreachable"
              /\ checked.failures >= failureThreshold(a.spec)
        /\ OneStepAhead(checked, a.status)
        /\ isApproved(checked) <=> isApproved(a.status)
    BY <1>1, <2>1, FailedFields DEF OneStepAhead
  <2> QED BY <2>2 DEF checked
<1>3. CASE card # NoCard
  <2> DEFINE h == HealthyStatus(a.status, startedAt)
  <2>1. /\ h \in Status
        /\ h.phase = "Ready" /\ h.health = "Healthy"
        /\ h.failures = 0 /\ h.heartbeat = startedAt
        /\ h.registered = a.status.registered
        /\ isApproved(h) <=> isApproved(a.status)
    BY <1>1, HealthyFields
  <2>2. checked \in {h, CardMismatchStatus(h)}
    BY <1>3 DEF CheckedStatus
  <2> HIDE DEF checked, h
  <2>3. startedAt # Never
    BY DEF Never
  <2>4. CASE checked = h
    BY <1>1, <2>1, <2>3, <2>4 DEF OneStepAhead, checked
  <2>5. CASE checked = CardMismatchStatus(h)
    <3>1. /\ checked \in Status
          /\ checked.phase = "Error" /\ checked.health = "Unhealthy"
          /\ checked.registered = h.registered
          /\ SameRecord(checked, h)
      BY <2>1, <2>5, CardMismatchFields
    <3> QED BY <1>1, <2>1, <3>1 DEF OneStepAhead, SameRecord, checked
  <2> QED BY <2>2, <2>4, <2>5
<1> QED BY <1>2, <1>3

LEMMA ProbeStep ==
    ASSUME IndInv, Probe, UNCHANGED approval
    PROVE  IndInv'
<1> DEFINE card == CheckWithAuth(agent.spec.url)
           checked == CheckedStatus(agent, card)
           new == ObservedStatus(checked, agent.gen)
<1>1. /\ UNCHANGED <<agents, cache, current, notify, config, serving, now, ops>>
      /\ UNCHANGED <<req, registryConfig, startedAt, requeue>>
      /\ UNCHANGED <<queue, delayed, faults>>
      /\ pc = "probe"
      /\ pc' = "write"
      /\ agent' = [agent EXCEPT !.status = new]
      /\ agent.finalizer
      /\ agent.status.registered
      /\ agent.spec.enabled
      /\ agent.status.heartbeat <= startedAt
      /\ startedAt <= now
      /\ Admitted(registryConfig, agent.status)
      /\ startedAt \in Nat
  BY DEF Probe, clusterVars, queueVars, IndInv, WorkerState, TypeOK,
         ControllerTypeOK
<1>2. /\ req \in Keys
      /\ agent \in Agent
      /\ agent.status \in Status
      /\ agent.gen \in Nat
      /\ agent.status.heartbeat \in Int
      /\ agent.status.failures \in Int
      /\ agent.status.heartbeat <= now
      /\ now \in Nat
  BY <1>1, WorkerObject DEF GoodVersion
<1>3. /\ checked \in Status
      /\ checked.registered
      /\ checked.heartbeat <= now
      /\ \/ /\ checked.phase = "Ready" /\ checked.health = "Healthy"
            /\ checked.failures = 0 /\ checked.heartbeat # Never
         \/ checked.phase = "Error" /\ checked.health = "Unhealthy"
         \/ /\ checked.phase = "Unreachable" /\ checked.health = "Unhealthy"
            /\ checked.failures >= failureThreshold(agent.spec)
      /\ OneStepAhead(checked, agent.status)
      /\ isApproved(checked) <=> isApproved(agent.status)
  BY <1>1, <1>2, CheckedFields
<1> HIDE DEF checked
<1>4. /\ Rewritten(agent', agent, new)
      /\ GoodVersion(agent', now)
      /\ new.registered
      /\ new.phase = checked.phase
      /\ SameRecord(new, checked)
  BY <1>1, <1>2, <1>3, FinishedObject
<1> HIDE DEF new
<1>5. OneStepAhead(new, agent.status)
      /\ (isApproved(new) <=> isApproved(agent.status))
  BY <1>3, <1>4 DEF SameRecord, OneStepAhead
<1>6. TypeOK'
  BY <1>1, <1>4
  DEF IndInv, TypeOK, ClusterTypeOK, ControllerTypeOK, DashboardTypeOK, PCs,
      Rewritten
<1>7. WorkerState'
  <2>1. Admitted(registryConfig', agent'.status)
    BY <1>1, <1>4, <1>5 DEF Admitted, Rewritten
  <2>. QED BY <1>1, <1>2, <1>4, <2>1, AgentIsNotNoAgent
           DEF WorkerState, Rewritten, Admitted
<1> QED BY <1>1, <1>4, <1>5, <1>6, <1>7, InMemoryStep

(* An accepted write starts from the stored object. *)
LEMMA AcceptedWrite ==
    ASSUME IndInv, pc # "idle", IsCurrent(req, "worker")
    PROVE  /\ agents[req] \in Agent
           /\ GoodVersion(agents[req], now)
           /\ SameVersion(agent, agents[req])
<1>1. SameVersion(agent, agents[req])
  BY DEF IndInv, CurrentCopies
<1>2. req \in Keys
  BY WorkerObject
<1> QED
  BY <1>1, <1>2 DEF IndInv, TypeOK, ClusterTypeOK, GoodVersions, SameVersion

LEMMA AddFinalizerStep ==
    ASSUME IndInv, AddFinalizer, UNCHANGED approval
    PROVE  IndInv'
<1> DEFINE object == agent'
<1>1. /\ UNCHANGED <<cache, config, serving, now, ops>>
      /\ UNCHANGED <<req, registryConfig, startedAt, requeue>>
      /\ UNCHANGED <<queue, delayed, faults>>
      /\ pc = "add"
      /\ pc' = "conflict"
      /\ object \in Finalized(agents[req])
      /\ agent' = object
      /\ notify' \in {notify, notify \cup {req}}
      /\ agents' = [agents EXCEPT ![req] = object]
      /\ \/ current' = [current EXCEPT ![req] = {"worker"}]
         \/ /\ object = agents[req]
            /\ current' = [current EXCEPT ![req] = (@ \ {"worker"}) \cup {"worker"}]
  BY DEF AddFinalizer, Write, Announce, worldVars, queueVars
<1>2. /\ req \in Keys
      /\ now \in Nat
      /\ agents[req] \in Agent
      /\ GoodVersion(agents[req], now)
  BY <1>1, WorkerObject, AcceptedWrite DEF AddFinalizer
<1>3. /\ object \in Agent
      /\ GoodVersion(object, now)
      /\ object.finalizer
      /\ object.status.heartbeat \in Int
      /\ object.status.failures \in Int
  <2>1. object \in Agent /\ GoodVersion(object, now) /\ object.finalizer
    BY <1>1, <1>2, FinalizedIsGood
  <2>. QED BY <2>1 DEF Agent, Status, Never
<1> HIDE DEF object
<1>4. /\ \A j \in Keys : agents'[j] = IF j = req THEN object ELSE agents[j]
      /\ \A j \in Keys : \A h \in {"cache", "approver"} :
             IsCurrent(j, h)' => IsCurrent(j, h) /\ (j = req => object = agents[req])
      /\ \A j \in Keys : IsCurrent(j, "worker")' => j = req
  BY <1>1, <1>2 DEF IsCurrent, IndInv, TypeOK, ClusterTypeOK, HoldersBusy
<1>5. TypeOK'
  <2>1. current' \in [Keys -> SUBSET Holders]
    BY <1>1, <1>2 DEF IndInv, TypeOK, ClusterTypeOK, Holders
  <2>. QED BY <1>1, <1>2, <1>3, <2>1
           DEF IndInv, TypeOK, ClusterTypeOK, ControllerTypeOK,
               DashboardTypeOK, PCs
<1>6. approval # NoApproval => approval.key \in Keys
  BY DEF IndInv, TypeOK, DashboardTypeOK
<1>7. GoodVersions'
  BY <1>1, <1>3, <1>4 DEF IndInv, GoodVersions
<1>8. WorkerState'
  BY <1>1, <1>2, <1>3, AgentIsNotNoAgent DEF WorkerState
<1>9. HoldersBusy'
  BY <1>1, <1>4 DEF IndInv, HoldersBusy
<1>10. CurrentCopies'
  <2>1. \A k \in Keys : IsCurrent(k, "cache")' => cache'[k] = agents'[k]
    BY <1>1, <1>4 DEF IndInv, CurrentCopies
  <2>2. SameVersion(object, object)
    BY <1>3, AgentIsNotNoAgent DEF SameVersion
  <2>3. agent' = object /\ agents'[req'] = object
    BY <1>1, <1>2, <1>4
  <2>4. approval # NoApproval /\ IsCurrent(approval.key, "approver")'
            => approval.copy = agents'[approval.key]
    BY <1>4, <1>6 DEF IndInv, CurrentCopies
  <2>. QED BY <2>1, <2>2, <2>3, <2>4 DEF CurrentCopies
<1>11. WorkerAhead'
  BY <1>1, <1>2, <1>3, <1>4 DEF WorkerAhead, OneStepAhead
<1> QED BY <1>5, <1>7, <1>8, <1>9, <1>10, <1>11 DEF IndInv

(* The status that the worker computed may be stored. *)
LEMMA StoredStatus ==
    ASSUME IndInv, pc = "write", IsCurrent(req, "worker")
    PROVE  LET object == [agents[req] EXCEPT !.status = agent.status] IN
           object \in Agent /\ GoodVersion(object, now)
<1>1. /\ agents[req] \in Agent
      /\ SameVersion(agent, agents[req])
      /\ agent \in Agent
      /\ GoodVersion(agent, now)
      /\ now \in Nat
  BY AcceptedWrite, WorkerObject
<1> QED BY <1>1, StatusWriteIsGood DEF SameVersion

(* Each way in which a write of the worker changes the store. *)
LEMMA WriteEffects ==
    ASSUME IndInv, pc # "idle", NEW object \in Agent \cup {NoAgent},
           object # NoAgent => GoodVersion(object, now),
           agents' = [agents EXCEPT ![req] = object],
           \/ current' = [current EXCEPT ![req] = {}]
           \/ /\ object = agents[req]
              /\ current' = [current EXCEPT ![req] = (@ \ {"worker"}) \cup {}]
    PROVE  /\ agents' \in [Keys -> Agent \cup {NoAgent}]
           /\ current' \in [Keys -> SUBSET Holders]
           /\ \A j \in Keys : j # req => agents'[j] = agents[j]
                                      /\ current'[j] = current[j]
           /\ agents'[req] # NoAgent => GoodVersion(agents'[req], now)
           /\ "worker" \notin current'[req]
           /\ \/ current'[req] = {}
              \/ agents'[req] = agents[req] /\ current'[req] \subseteq current[req]
<1>1. req \in Keys
  BY WorkerObject
<1> QED BY <1>1 DEF IndInv, TypeOK, ClusterTypeOK

LEMMA WriteStatusStep ==
    ASSUME IndInv, WriteStatus, UNCHANGED approval
    PROVE  IndInv'
<1> DEFINE object == [agents[req] EXCEPT !.status = agent.status]
<1>1. /\ UNCHANGED <<cache, notify, config, serving, now, ops, faults>>
      /\ pc = "write"
      /\ IsCurrent(req, "worker")
      /\ Return(requeue)
      /\ WorkerIdle
      /\ agents' = [agents EXCEPT ![req] = object]
      /\ \/ current' = [current EXCEPT ![req] = {}]
         \/ /\ object = agents[req]
            /\ current' = [current EXCEPT ![req] = (@ \ {"worker"}) \cup {}]
  BY DEF WriteStatus, Write, Return, worldVars
<1>2. object \in Agent /\ GoodVersion(object, now)
  BY <1>1, StoredStatus
<1> HIDE DEF object
<1>3. /\ agents' \in [Keys -> Agent \cup {NoAgent}]
      /\ current' \in [Keys -> SUBSET Holders]
      /\ \A j \in Keys : j # req => agents'[j] = agents[j]
                                 /\ current'[j] = current[j]
      /\ agents'[req] # NoAgent => GoodVersion(agents'[req], now)
      /\ "worker" \notin current'[req]
      /\ \/ current'[req] = {}
         \/ agents'[req] = agents[req] /\ current'[req] \subseteq current[req]
  BY <1>1, <1>2, WriteEffects
<1>4. TypeOK'
  <2>1. ControllerTypeOK'
    BY <1>1, WorkerObject, ReturnTypes DEF IndInv, TypeOK, ControllerTypeOK
  <2>. QED BY <1>1, <1>3, <2>1 DEF IndInv, TypeOK, ClusterTypeOK, DashboardTypeOK
<1> QED BY <1>1, <1>3, <1>4, PassEnds

LEMMA RemoveFinalizerStep ==
    ASSUME IndInv, RemoveFinalizer, UNCHANGED approval
    PROVE  IndInv'
<1>1. /\ UNCHANGED <<cache, config, serving, now, ops, faults>>
      /\ pc = "remove"
      /\ Return(FALSE)
      /\ WorkerIdle
      /\ agents' = [agents EXCEPT ![req] = NoAgent]
      /\ current' = [current EXCEPT ![req] = {}]
      /\ notify' = notify \cup {req}
  BY DEF RemoveFinalizer, Remove, Return, worldVars
<1>2. req \in Keys
  BY <1>1, WorkerObject
<1>3. /\ agents' \in [Keys -> Agent \cup {NoAgent}]
      /\ current' \in [Keys -> SUBSET Holders]
      /\ \A j \in Keys : j # req => agents'[j] = agents[j]
                                 /\ current'[j] = current[j]
      /\ agents'[req] # NoAgent => GoodVersion(agents'[req], now)
      /\ "worker" \notin current'[req]
      /\ current'[req] = {}
  BY <1>1, <1>2 DEF IndInv, TypeOK, ClusterTypeOK
<1>4. TypeOK'
  <2>1. ControllerTypeOK'
    BY <1>1, <1>2, ReturnTypes DEF IndInv, TypeOK, ControllerTypeOK
  <2>. QED BY <1>1, <1>2, <1>3, <2>1
           DEF IndInv, TypeOK, ClusterTypeOK, DashboardTypeOK
<1> QED BY <1>1, <1>3, <1>4, PassEnds

(* A pass that ends without having changed the stored object. *)
LEMMA WriteConflictStep ==
    ASSUME IndInv, WriteConflict, UNCHANGED approval
    PROVE  IndInv'
<1>1. /\ UNCHANGED <<agents, cache, current, notify, config, serving, now, ops>>
      /\ UNCHANGED faults
      /\ pc # "idle"
      /\ Return(TRUE)
      /\ WorkerIdle
      /\ "worker" \notin current[req]
  BY DEF WriteConflict, Return, IsCurrent, clusterVars
<1>2. req \in Keys
  BY <1>1, WorkerObject
<1>3. agents[req] # NoAgent => GoodVersion(agents[req], now)
  BY <1>2 DEF IndInv, GoodVersions
<1>4. TypeOK'
  <2>1. ControllerTypeOK'
    BY <1>1, <1>2, ReturnTypes DEF IndInv, TypeOK, ControllerTypeOK
  <2>. QED BY <1>1, <2>1 DEF IndInv, TypeOK, ClusterTypeOK, DashboardTypeOK
<1> QED BY <1>1, <1>3, <1>4, PassEnds

LEMMA WriteFailsStep ==
    ASSUME IndInv, WriteFails, UNCHANGED approval
    PROVE  IndInv'
<1>1. /\ UNCHANGED <<agents, cache, notify, config, serving, now, ops>>
      /\ pc # "idle"
      /\ Return(TRUE)
      /\ WorkerIdle
      /\ current' = [current EXCEPT ![req] = @ \ {"worker"}]
      /\ faults < MaxFaults /\ faults' = faults + 1
  BY DEF WriteFails, FaultHappens, Return, worldVars
<1>2. req \in Keys
  BY <1>1, WorkerObject
<1>3. /\ current' \in [Keys -> SUBSET Holders]
      /\ \A j \in Keys : j # req => current'[j] = current[j]
      /\ "worker" \notin current'[req]
      /\ current'[req] \subseteq current[req]
      /\ agents[req] # NoAgent => GoodVersion(agents[req], now)
  BY <1>1, <1>2 DEF IndInv, TypeOK, ClusterTypeOK, GoodVersions
<1>4. TypeOK'
  <2>1. faults' \in 0..MaxFaults
    BY <1>1, FaultsAssumption DEF IndInv, TypeOK, ControllerTypeOK
  <2>2. ControllerTypeOK'
    BY <1>1, <1>2, <2>1, ReturnTypes DEF IndInv
  <2>. QED BY <1>1, <1>3, <2>2 DEF IndInv, TypeOK, ClusterTypeOK, DashboardTypeOK
<1> QED BY <1>1, <1>3, <1>4, PassEnds

LEMMA WriteAnswerLostStep ==
    ASSUME IndInv, WriteAnswerLost, UNCHANGED approval
    PROVE  IndInv'
<1>1. /\ UNCHANGED <<cache, config, serving, now, ops>>
      /\ pc # "idle"
      /\ IsCurrent(req, "worker")
      /\ Return(TRUE)
      /\ WorkerIdle
      /\ faults < MaxFaults /\ faults' = faults + 1
  BY DEF WriteAnswerLost, FaultHappens, Return, worldVars
<1>2. /\ req \in Keys
      /\ now \in Nat
      /\ agents[req] \in Agent
      /\ GoodVersion(agents[req], now)
  BY <1>1, WorkerObject, AcceptedWrite
<1>3. PICK object \in Agent \cup {NoAgent} :
          /\ object # NoAgent => GoodVersion(object, now)
          /\ agents' = [agents EXCEPT ![req] = object]
          /\ \/ current' = [current EXCEPT ![req] = {}]
             \/ /\ object = agents[req]
                /\ current' = [current EXCEPT ![req] = (@ \ {"worker"}) \cup {}]
          /\ notify' \in {notify, notify \cup {req}}
  <2>1. CASE pc = "remove" /\ Remove(req)
    BY <2>1 DEF Remove
  <2>2. CASE /\ pc = "add"
             /\ \E a \in Finalized(agents[req]) :
                    Write(req, a, "worker", {}) /\ Announce(req, a)
    <3>1. PICK a \in Finalized(agents[req]) :
              Write(req, a, "worker", {}) /\ Announce(req, a)
      BY <2>2
    <3>2. a \in Agent /\ GoodVersion(a, now)
      BY <1>2, FinalizedIsGood
    <3>3. /\ agents' = [agents EXCEPT ![req] = a]
          /\ \/ current' = [current EXCEPT ![req] = {}]
             \/ /\ a = agents[req]
                /\ current' = [current EXCEPT ![req] = (@ \ {"worker"}) \cup {}]
          /\ notify' \in {notify, notify \cup {req}}
      BY <3>1 DEF Write, Announce
    <3>. QED BY <3>2, <3>3
  <2>3. CASE /\ pc = "write"
             /\ Write(req, [agents[req] EXCEPT !.status = agent.status],
                      "worker", {})
             /\ UNCHANGED notify
    <3> DEFINE object == [agents[req] EXCEPT !.status = agent.status]
    <3>1. object \in Agent /\ GoodVersion(object, now)
      BY <1>1, <2>3, StoredStatus
    <3>2. /\ agents' = [agents EXCEPT ![req] = object]
          /\ \/ current' = [current EXCEPT ![req] = {}]
             \/ /\ object = agents[req]
                /\ current' = [current EXCEPT ![req] = (@ \ {"worker"}) \cup {}]
      BY <2>3 DEF Write
    <3>. HIDE DEF object
    <3>. QED BY <2>3, <3>1, <3>2
  <2>. QED BY <2>1, <2>2, <2>3 DEF WriteAnswerLost
<1>4. /\ agents' \in [Keys -> Agent \cup {NoAgent}]
      /\ current' \in [Keys -> SUBSET Holders]
      /\ \A j \in Keys : j # req => agents'[j] = agents[j]
                                 /\ current'[j] = current[j]
      /\ agents'[req] # NoAgent => GoodVersion(agents'[req], now)
      /\ "worker" \notin current'[req]
      /\ \/ current'[req] = {}
         \/ agents'[req] = agents[req] /\ current'[req] \subseteq current[req]
  BY <1>1, <1>3, WriteEffects
<1>5. TypeOK'
  <2>1. faults' \in 0..MaxFaults
    BY <1>1, FaultsAssumption DEF IndInv, TypeOK, ControllerTypeOK
  <2>2. ControllerTypeOK'
    BY <1>1, <1>2, <2>1, ReturnTypes DEF IndInv
  <2>. QED BY <1>1, <1>2, <1>3, <1>4, <2>2
           DEF IndInv, TypeOK, ClusterTypeOK, DashboardTypeOK
<1> QED BY <1>1, <1>4, <1>5, PassEnds

(* A process that has just started has read everything and holds nothing. *)
LEMMA ProcessReplaced ==
    ASSUME IndInv, TypeOK', WorkerIdle, approval' = NoApproval,
           cache' = agents, current' = [k \in Keys |-> {"cache"}],
           UNCHANGED <<agents, now>>
    PROVE  IndInv'
<1>1. \A j \in Keys : ~IsCurrent(j, "worker")' /\ ~IsCurrent(j, "approver")'
  BY DEF IsCurrent
<1>2. GoodVersions' /\ WorkerState' /\ WorkerAhead'
  BY DEF IndInv, GoodVersions, WorkerState, WorkerAhead, WorkerIdle
<1>3. HoldersBusy' /\ CurrentCopies'
  BY <1>1 DEF HoldersBusy, CurrentCopies, WorkerIdle
<1> QED BY <1>2, <1>3 DEF IndInv

LEMMA RestartStep == IndInv /\ Restart => IndInv'
<1> SUFFICES ASSUME IndInv, Restart PROVE IndInv'
  OBVIOUS
<1>1. /\ UNCHANGED <<agents, config, serving, now, ops>>
      /\ cache' = agents
      /\ current' = [k \in Keys |-> {"cache"}]
      /\ notify' = {}
      /\ WorkerIdle
      /\ queue' = {k \in Keys : agents[k] # NoAgent}
      /\ delayed' = {}
      /\ faults < MaxFaults /\ faults' = faults + 1
      /\ approval' = NoApproval
  BY DEF Restart, ControllerRestart, Relist, FaultHappens, worldVars
<1>2. TypeOK'
  <2>1. ClusterTypeOK'
    BY <1>1 DEF IndInv, TypeOK, ClusterTypeOK, Holders
  <2>2. faults' \in 0..MaxFaults
    BY <1>1, FaultsAssumption DEF IndInv, TypeOK, ControllerTypeOK
  <2>3. queue' \in SUBSET Keys /\ delayed' \in SUBSET Keys
    BY <1>1
  <2>4. ControllerTypeOK'
    BY <1>1, <2>2, <2>3 DEF WorkerIdle, ControllerTypeOK, PCs
  <2>. QED BY <1>1, <2>1, <2>4 DEF TypeOK, DashboardTypeOK
<1> QED BY <1>1, <1>2, ProcessReplaced

-----------------------------------------------------------------------------
(* The theorems.                                                           *)

LEMMA ControllerStep == IndInv /\ Controller => IndInv'
BY SyncStep, TimerStep, ReconcileGetStep, RemoveFinalizerStep, AddFinalizerStep,
   CheckConflictStep, ApplyPolicyStep, ProbeStep, WriteStatusStep,
   WriteConflictStep, WriteFailsStep, WriteAnswerLostStep
DEF Controller, Reconcile

LEMMA NextIndInv == IndInv /\ [Next]_vars => IndInv'
<1> SUFFICES ASSUME IndInv, [Next]_vars PROVE IndInv'
  OBVIOUS
<1>1. CASE UNCHANGED vars
  <2>1. /\ UNCHANGED <<agents, cache, current, notify, config, serving, now, ops>>
        /\ UNCHANGED <<pc, req, agent, registryConfig, startedAt, requeue>>
        /\ UNCHANGED <<queue, delayed, faults, approval>>
    BY <1>1 DEF vars, clusterVars, controllerVars, workerVars, queueVars
  <2>2. TypeOK'
    BY <2>1 DEF IndInv, TypeOK, ClusterTypeOK, ControllerTypeOK, DashboardTypeOK
  <2>. QED BY <2>1, <2>2, FrameStep
<1> QED
  BY <1>1, EnvironmentStep, ControllerStep, ApproverStep, RestartStep DEF Next

(* IndInv holds in every reachable state: each copy of an agent object is a *)
(* sound version of it, and a writer whose request would be accepted works  *)
(* on the stored version.                                                   *)
THEOREM IndInvHolds == Spec => []IndInv
BY InitIndInv, NextIndInv, PTL DEF Spec

(* Every variable keeps its type, whatever interleaves. *)
THEOREM TypeCorrect == Spec => []TypeOK
<1>1. IndInv => TypeOK
  BY DEF IndInv
<1> QED BY <1>1, IndInvHolds, PTL

(* The phase, the health, the failure count, the heartbeat and the         *)
(* finalizer of every stored agent fit together                            *)
(* (a2aagent_controller.go, 84-243).                                       *)
THEOREM StatusIsCoherent == Spec => []StatusCoherent
<1>1. IndInv => StatusCoherent
  BY DEF IndInv, GoodVersions, GoodVersion, StatusCoherent
<1> QED BY <1>1, IndInvHolds, PTL

(* A status written for the current generation is earned by this spec      *)
(* (a2aagent_controller.go, 164-243).                                      *)
THEOREM ObservedPhaseIsEarned == Spec => []ObservedPhaseEarned
<1>1. IndInv => ObservedPhaseEarned
  BY DEF IndInv, GoodVersions, GoodVersion, ObservedPhaseEarned
<1> QED BY <1>1, IndInvHolds, PTL

(* An accepted write starts from the stored version. *)
THEOREM CopiesAreCurrent == Spec => []CurrentCopies
<1>1. IndInv => CurrentCopies
  BY DEF IndInv
<1> QED BY <1>1, IndInvHolds, PTL

-----------------------------------------------------------------------------
(* Action properties.  They hold because a step changes a stored status    *)
(* in few ways.                                                            *)

StatusSteps(k) ==
    \/ agents'[k] = agents[k]
    \/ agents'[k] = NoAgent
    \/ /\ agents[k] = NoAgent
       /\ agents'[k].status = EmptyStatus
    \/ /\ agents[k] # NoAgent
       /\ agents'[k].status = agents[k].status
    \/ /\ agents[k] # NoAgent
       /\ agents'[k].status = ApprovedStatus(agents[k].status)
    \/ /\ pc = "write" /\ req = k /\ IsCurrent(k, "worker")
       /\ agents[k] # NoAgent
       /\ agents'[k].status = agent.status

LEMMA OneKeyChanges ==
    ASSUME IndInv, NEW j \in Keys, NEW object, agents' = [agents EXCEPT ![j] = object]
    PROVE  /\ \A k \in Keys : k # j => agents'[k] = agents[k]
           /\ agents'[j] = object
BY DEF IndInv, TypeOK, ClusterTypeOK

LEMMA DeleteStatusSteps ==
    ASSUME IndInv, NEW j \in Keys, agents[j] # NoAgent, RequestDelete(j)
    PROVE  \A k \in Keys : StatusSteps(k)
<1>1. agents[j] \in Agent
  BY DEF IndInv, TypeOK, ClusterTypeOK
<1>2. MarkDeleted(agents[j]).status = agents[j].status
  BY <1>1 DEF MarkDeleted, Agent
<1>3. \/ agents' = [agents EXCEPT ![j] = MarkDeleted(agents[j])]
      \/ agents' = [agents EXCEPT ![j] = NoAgent]
  BY DEF RequestDelete, Remove
<1> QED BY <1>2, <1>3, OneKeyChanges DEF StatusSteps

LEMMA NextStatusSteps ==
    ASSUME IndInv, [Next]_vars
    PROVE  \A k \in Keys : StatusSteps(k)
<1>1. \A k \in Keys : agents[k] \in Agent \cup {NoAgent}
  BY DEF IndInv, TypeOK, ClusterTypeOK
<1>2. CASE agents' = agents
  BY <1>2 DEF StatusSteps
<1>3. ASSUME NEW j \in Keys, UserCreate(j)
      PROVE  \A k \in Keys : StatusSteps(k)
  <2>1. PICK s \in Specs : agents' = [agents EXCEPT ![j] = NewAgent(s)]
    BY <1>3 DEF UserCreate
  <2>2. agents[j] = NoAgent /\ NewAgent(s).status = EmptyStatus
    BY <1>3 DEF UserCreate, NewAgent
  <2>. QED BY <2>1, <2>2, OneKeyChanges DEF StatusSteps
<1>4. ASSUME NEW j \in Keys, UserEdit(j)
      PROVE  \A k \in Keys : StatusSteps(k)
  <2>1. PICK s \in Specs : agents' = [agents EXCEPT ![j] = Edited(agents[j], s)]
    BY <1>4 DEF UserEdit
  <2>2. agents[j] # NoAgent /\ agents[j] \in Agent
    BY <1>1, <1>4 DEF UserEdit
  <2>3. Edited(agents[j], s).status = agents[j].status
    BY <2>2 DEF Edited, Agent
  <2>. QED BY <2>1, <2>2, <2>3, OneKeyChanges DEF StatusSteps
<1>5. ASSUME NEW j \in Keys, UserDelete(j)
      PROVE  \A k \in Keys : StatusSteps(k)
  BY <1>5, DeleteStatusSteps DEF UserDelete
<1>6. ASSUME ApproveWrite
      PROVE  \A k \in Keys : StatusSteps(k)
  <2> DEFINE j == approval.key
             st == ApprovedStatus(approval.copy.status)
             object == [agents[j] EXCEPT !.status = st]
  <2>1. /\ j \in Keys
        /\ approval.copy = agents[j]
        /\ agents[j] \in Agent
        /\ agents' = [agents EXCEPT ![j] = object]
    BY <1>6 DEF ApproveWrite, Write, IndInv, TypeOK, DashboardTypeOK,
                CurrentCopies
  <2>2. object.status = st /\ agents[j] # NoAgent
    BY <2>1, AgentIsNotNoAgent DEF Agent
  <2>3. st = ApprovedStatus(agents[j].status)
    BY <2>1
  <2> HIDE DEF object, st
  <2>. QED BY <2>1, <2>2, <2>3, OneKeyChanges DEF StatusSteps
<1>7. ASSUME RemoveFinalizer \/ (WriteAnswerLost /\ pc = "remove")
      PROVE  \A k \in Keys : StatusSteps(k)
  <2>1. pc = "remove" /\ agents' = [agents EXCEPT ![req] = NoAgent]
    BY <1>7 DEF RemoveFinalizer, WriteAnswerLost, Remove
  <2>2. req \in Keys
    BY <2>1, WorkerObject
  <2>. QED BY <2>1, <2>2, OneKeyChanges DEF StatusSteps
<1>8. ASSUME AddFinalizer \/ (WriteAnswerLost /\ pc = "add")
      PROVE  \A k \in Keys : StatusSteps(k)
  <2>1. /\ pc = "add"
        /\ IsCurrent(req, "worker")
        /\ \E a \in Finalized(agents[req]) : agents' = [agents EXCEPT ![req] = a]
    BY <1>8 DEF AddFinalizer, WriteAnswerLost, Write
  <2>2. PICK a \in Finalized(agents[req]) : agents' = [agents EXCEPT ![req] = a]
    BY <2>1
  <2>3. /\ req \in Keys
        /\ now \in Nat
        /\ agents[req] \in Agent
        /\ GoodVersion(agents[req], now)
    BY <2>1, WorkerObject, AcceptedWrite
  <2>4. a.status = agents[req].status /\ agents[req] # NoAgent
    BY <2>3, FinalizedIsGood, AgentIsNotNoAgent
  <2>. QED BY <2>2, <2>3, <2>4, OneKeyChanges DEF StatusSteps
<1>9. ASSUME WriteStatus \/ (WriteAnswerLost /\ pc = "write")
      PROVE  \A k \in Keys : StatusSteps(k)
  <2> DEFINE object == [agents[req] EXCEPT !.status = agent.status]
  <2>1. /\ pc = "write"
        /\ IsCurrent(req, "worker")
        /\ agents' = [agents EXCEPT ![req] = object]
    BY <1>9 DEF WriteStatus, WriteAnswerLost, Write
  <2>2. req \in Keys /\ agents[req] \in Agent
    BY <2>1, WorkerObject, AcceptedWrite
  <2>3. object.status = agent.status /\ agents[req] # NoAgent
    BY <2>2, AgentIsNotNoAgent DEF Agent
  <2> HIDE DEF object
  <2>. QED BY <2>1, <2>2, <2>3, OneKeyChanges DEF StatusSteps
<1>10. WriteAnswerLost => pc \in {"remove", "add", "write"}
  BY DEF WriteAnswerLost
<1>11. CASE UNCHANGED vars
  BY <1>2, <1>11 DEF vars, clusterVars
<1>12. CASE Environment
  <2>1. UserConfigure => agents' = agents
    BY DEF UserConfigure, storeVars
  <2>2. \A u \in URLs : EndpointChange(u) => agents' = agents
    BY DEF EndpointChange, storeVars
  <2>3. Tick => agents' = agents
    BY DEF Tick, storeVars
  <2>. QED BY <1>2, <1>3, <1>4, <1>5, <1>12, <2>1, <2>2, <2>3 DEF Environment
<1>13. CASE Controller
  <2>1. \A k \in Keys : Sync(k) \/ TimerFires(k) \/ ReconcileGet(k)
                            => agents' = agents
    BY DEF Sync, Deliver, TimerFires, ReconcileGet, clusterVars
  <2>2. CheckConflict \/ ApplyPolicy \/ Probe \/ WriteConflict \/ WriteFails
            => agents' = agents
    BY DEF CheckConflict, ApplyPolicy, Probe, WriteConflict, WriteFails,
           clusterVars
  <2>. QED BY <1>2, <1>7, <1>8, <1>9, <1>10, <1>13, <2>1, <2>2
           DEF Controller, Reconcile
<1>14. CASE Approver
  <2>1. ApproveConflict \/ (\E k \in Keys : ApproveGet(k)) => agents' = agents
    BY DEF ApproveConflict, ApproveGet, clusterVars
  <2>. QED BY <1>2, <1>6, <1>14, <2>1 DEF Approver
<1>15. CASE Restart
  BY <1>2, <1>15 DEF Restart, ControllerRestart, Relist
<1> QED BY <1>11, <1>12, <1>13, <1>14, <1>15 DEF Next

(* None of these ways loses an approval, skips one or loses progress. *)
LEMMA StatusStepsKeepApproval ==
    ASSUME IndInv, NEW k \in Keys, StatusSteps(k)
    PROVE  KeepsApproval(k)
<1>1. agents[k] \in Agent \cup {NoAgent}
  BY DEF IndInv, TypeOK, ClusterTypeOK
<1>2. agents[k] # NoAgent => isApproved(ApprovedStatus(agents[k].status))
  BY <1>1 DEF Agent, Status, ApprovedStatus, MergeCondition, isApproved,
              ConditionTypes
<1>3. pc = "write" /\ req = k /\ IsCurrent(k, "worker")
          => (isApproved(agents[k].status) => isApproved(agent.status))
  BY DEF IndInv, CurrentCopies, SameVersion
<1> QED BY <1>2, <1>3 DEF StatusSteps, KeepsApproval

LEMMA StatusStepsNeedApproval ==
    ASSUME IndInv, NEW k \in Keys, StatusSteps(k),
           BecomesReady(k), NeedsApproval(registryConfig)
    PROVE  agents[k] # NoAgent /\ isApproved(agents[k].status)
<1>1. agents[k] \in Agent \cup {NoAgent}
  BY DEF IndInv, TypeOK, ClusterTypeOK
<1>2. agents[k] # NoAgent =>
          ApprovedStatus(agents[k].status).phase = agents[k].status.phase
  BY <1>1 DEF Agent, Status, ApprovedStatus
<1>3. EmptyStatus.phase # "Ready"
  BY DEF EmptyStatus
<1>4. /\ pc = "write" /\ req = k /\ IsCurrent(k, "worker")
      /\ agents[k] # NoAgent
      /\ agents'[k].status = agent.status
  BY <1>2, <1>3 DEF StatusSteps, BecomesReady
<1>5. isApproved(agent.status)
  BY <1>4 DEF IndInv, WorkerState, BecomesReady, Admitted
<1> QED BY <1>4, <1>5 DEF IndInv, WorkerAhead

LEMMA StatusStepsKeepProgress ==
    ASSUME IndInv, NEW k \in Keys, StatusSteps(k)
    PROVE  KeepsProgress(k)
<1> SUFFICES ASSUME agents[k] # NoAgent, agents'[k] # NoAgent
             PROVE  OneStepAhead(agents'[k].status, agents[k].status)
  BY DEF KeepsProgress
<1>1. agents[k] \in Agent
  BY DEF IndInv, TypeOK, ClusterTypeOK
<1>2. agents[k].status.heartbeat \in Int /\ agents[k].status.failures \in Int
  BY <1>1 DEF Agent, Status, Never
<1>3. LET st == ApprovedStatus(agents[k].status) IN
          /\ st.heartbeat = agents[k].status.heartbeat
          /\ st.failures = agents[k].status.failures
  BY <1>1 DEF Agent, Status, ApprovedStatus
<1>4. pc = "write" /\ req = k /\ IsCurrent(k, "worker")
          => OneStepAhead(agent.status, agents[k].status)
  BY DEF IndInv, WorkerAhead
<1> QED BY <1>2, <1>3, <1>4 DEF StatusSteps, OneStepAhead

(* An approval in the stored status is never lost while the object lives   *)
(* (a2aagent_controller.go, 123-143; dashboard.go, 26-66).                 *)
THEOREM ApprovalIsKept == Spec => ApprovalPersists
<1>1. IndInv /\ [Next]_vars => [\A k \in Keys : KeepsApproval(k)]_vars
  BY NextStatusSteps, StatusStepsKeepApproval
<1> QED BY <1>1, IndInvHolds, PTL DEF ApprovalPersists, Spec

(* An agent becomes Ready only approved, or under a policy that does not   *)
(* ask for approval (a2aagent_controller.go, 118-143).                     *)
THEOREM ReadyIsApproved == Spec => ApprovalGate
<1>1. IndInv /\ [Next]_vars =>
        [\A k \in Keys : BecomesReady(k) /\ NeedsApproval(registryConfig)
             => agents[k] # NoAgent /\ isApproved(agents[k].status)]_vars
  BY NextStatusSteps, StatusStepsNeedApproval
<1> QED BY <1>1, IndInvHolds, PTL DEF ApprovalGate, Spec

(* Heartbeats never move back and failures are counted one at a time       *)
(* (a2aagent_controller.go, 167-221).                                      *)
THEOREM ProgressIsMonotone == Spec => ProgressMonotone
<1>1. IndInv /\ [Next]_vars => [\A k \in Keys : KeepsProgress(k)]_vars
  BY NextStatusSteps, StatusStepsKeepProgress
<1> QED BY <1>1, IndInvHolds, PTL DEF ProgressMonotone, Spec

=============================================================================
