------------------------ MODULE AgentRefinementProofs ------------------------
(***************************************************************************)
(* AgentSystem implements AgentLifecycle, for every set of keys, specs,    *)
(* cards and policies and every bound.  The lemmas speak of single actions *)
(* so that a larger system can use them.                                   *)
(***************************************************************************)
EXTENDS AgentRefinement, AgentSystemProofs

Lives == [k \in Keys |-> LifeOf(agents[k])]

-----------------------------------------------------------------------------
(* The invariant of a pass.                                                *)

(* A step of anybody but the worker: while the worker's write would still  *)
(* be accepted, the stored object is the one it started from.              *)
LEMMA OthersKeepLifeInv ==
    ASSUME LifeInv, UNCHANGED <<pc, req, agent>>,
           pc # "idle" /\ IsCurrent(req, "worker")'
               => IsCurrent(req, "worker") /\ agents'[req] = agents[req]
    PROVE  LifeInv'
<1>1. PassKind'
  BY DEF LifeInv, PassKind
<1>2. PassTally'
  BY DEF LifeInv, PassTally, Lifecycle!Tally
<1> QED BY <1>1, <1>2 DEF LifeInv

(* The worker has nothing in hand. *)
LEMMA IdleLifeInv ==
    ASSUME pc' = "idle"
    PROVE  LifeInv'
BY DEF LifeInv, PassKind, PassTally

LEMMA EnvironmentLife ==
    ASSUME IndInv, LifeInv, Environment
    PROVE  LifeInv'
<1>1. UNCHANGED <<pc, req, agent>>
  BY DEF Environment, controllerVars, workerVars
<1>2. CASE UNCHANGED <<agents, current>>
  BY <1>1, <1>2, OthersKeepLifeInv DEF IsCurrent
<1>3. ASSUME NEW k \in Keys, NEW object,
             agents' = [agents EXCEPT ![k] = object],
             current' = [current EXCEPT ![k] = {}]
      PROVE  LifeInv'
  <2>1. pc # "idle" => req \in Keys
    BY DEF IndInv, WorkerState
  <2>2. pc # "idle" /\ IsCurrent(req, "worker")'
            => IsCurrent(req, "worker") /\ agents'[req] = agents[req]
    BY <1>1, <1>3, <2>1 DEF IsCurrent, IndInv, TypeOK, ClusterTypeOK
  <2> QED BY <1>1, <2>2, OthersKeepLifeInv
<1>4. ASSUME NEW k \in Keys, UserCreate(k) \/ UserEdit(k) \/ UserDelete(k)
      PROVE  LifeInv'
  <2>1. \E object : agents' = [agents EXCEPT ![k] = object]
    BY <1>4 DEF UserCreate, UserEdit, UserDelete, RequestDelete, Remove
  <2>2. current' = [current EXCEPT ![k] = {}]
    BY <1>4 DEF UserCreate, UserEdit, UserDelete, RequestDelete, Remove
  <2> QED BY <1>3, <2>1, <2>2
<1>5. UserConfigure \/ (\E u \in URLs : EndpointChange(u)) \/ Tick
          => UNCHANGED <<agents, current>>
  BY DEF UserConfigure, EndpointChange, Tick, storeVars
<1> QED BY <1>2, <1>4, <1>5 DEF Environment

LEMMA ApproverLife ==
    ASSUME IndInv, LifeInv, Approver
    PROVE  LifeInv'
<1>1. UNCHANGED <<pc, req, agent>>
  BY DEF Approver, controllerVars, workerVars
<1>2. pc # "idle" => req \in Keys
  BY DEF IndInv, WorkerState
<1>3. ASSUME NEW k \in Keys, ApproveGet(k)
      PROVE  IsCurrent(req, "worker")' => IsCurrent(req, "worker")
  BY <1>1, <1>3 DEF ApproveGet, IsCurrent, IndInv, TypeOK, ClusterTypeOK
<1>4. ASSUME NEW k \in Keys, ApproveGet(k)
      PROVE  LifeInv'
  BY <1>1, <1>3, <1>4, OthersKeepLifeInv DEF ApproveGet
<1>5. ASSUME ApproveWrite
      PROVE  LifeInv'
  <2>1. PICK object :
            /\ agents' = [agents EXCEPT ![approval.key] = object]
            /\ \/ current' = [current EXCEPT ![approval.key] = {}]
               \/ /\ object = agents[approval.key]
                  /\ current' = [current EXCEPT ![approval.key] =
                                     (@ \ {"approver"}) \cup {}]
    BY <1>5 DEF ApproveWrite, Write
  <2>2. approval.key \in Keys
    BY <1>5 DEF ApproveWrite, IndInv, TypeOK, DashboardTypeOK
  <2>3. pc # "idle" /\ IsCurrent(req, "worker")'
            => IsCurrent(req, "worker") /\ agents'[req] = agents[req]
    BY <1>1, <1>2, <2>1, <2>2 DEF IsCurrent, IndInv, TypeOK, ClusterTypeOK
  <2> QED BY <1>1, <2>3, OthersKeepLifeInv
<1>6. ASSUME ApproveConflict
      PROVE  LifeInv'
  BY <1>1, <1>6, OthersKeepLifeInv DEF ApproveConflict, clusterVars, IsCurrent
<1> QED BY <1>4, <1>5, <1>6 DEF Approver

(* What the worker's object becomes when Reconcile is done with it in      *)
(* memory: a judgement with the right number of failures.                  *)
LEMMA DecidedLife ==
    ASSUME IndInv, LifeInv, NEW st, Rewritten(agent', agent, st),
           pc \in {"conflict", "policy", "probe"}, pc' = "write",
           UNCHANGED <<agents, current, req>>,
           st.phase # "unset",
           Lifecycle!Tally(st.phase, agent.status.failures, st.failures)
    PROVE  LifeInv'
<1>1. agent'.status = st /\ agent'.deleting = agent.deleting
  BY DEF Rewritten
<1>2. PassKind'
  BY <1>1 DEF LifeInv, PassKind
<1>3. IsCurrent(req, "worker")
          => agent.status.failures = agents[req].status.failures
  BY DEF IndInv, WorkerAhead
<1>4. PassTally'
  BY <1>1, <1>3 DEF PassTally, IsCurrent
<1> QED BY <1>2, <1>4 DEF LifeInv

(* A step of Reconcile on its way to a decision. *)
LEMMA UndecidedLife ==
    ASSUME LifeInv, NEW st, Rewritten(agent', agent, st),
           pc \in {"conflict", "policy"}, pc' \in {"policy", "probe"}
    PROVE  LifeInv'
<1>1. agent'.deleting = agent.deleting
  BY DEF Rewritten
<1>2. PassKind' /\ PassTally'
  BY <1>1 DEF LifeInv, PassKind, PassTally
<1> QED BY <1>2 DEF LifeInv

(* A status that keeps its failures may call for an error or for waiting. *)
LEMMA SameFailuresTally ==
    ASSUME NEW phase \in {"Error", "Pending"}, NEW n
    PROVE  Lifecycle!Tally(phase, n, n)
BY DEF Lifecycle!Tally

LEMMA CheckConflictLife ==
    ASSUME IndInv, LifeInv, CheckConflict
    PROVE  LifeInv'
<1> DEFINE st == Register(agent.status)
<1>1. /\ UNCHANGED agents
      /\ pc = "conflict"
      /\ agent.finalizer
  BY DEF CheckConflict, IndInv, WorkerState
<1>2. agent \in Agent /\ GoodVersion(agent, now) /\ now \in Nat
  BY <1>1, WorkerObject
<1>3. ASSUME NEW new, new \in {URLConflictStatus(st), DisabledStatus(st)},
             agent' = [agent EXCEPT !.status = new],
             pc' = "write",
             UNCHANGED <<req, current>>
      PROVE  LifeInv'
  <2>1. /\ Rewritten(agent', agent, new)
        /\ new.phase \in {"Error", "Pending"}
        /\ SameRecord(new, agent.status)
    BY <1>1, <1>2, <1>3, StoppedObjects
  <2>2. Lifecycle!Tally(new.phase, agent.status.failures, new.failures)
    BY <2>1, SameFailuresTally DEF SameRecord
  <2> QED BY <1>1, <1>3, <2>1, <2>2, DecidedLife
<1>4. ASSUME agent' = [agent EXCEPT !.status = st], pc' = "policy"
      PROVE  LifeInv'
  <2>1. Rewritten(agent', agent, st)
    BY <1>1, <1>2, <1>4, RegisteredObject
  <2> QED BY <1>1, <1>4, <2>1, UndecidedLife
<1>5. pc' = "idle" => LifeInv'
  BY IdleLifeInv
<1> QED BY <1>3, <1>4, <1>5 DEF CheckConflict

LEMMA ApplyPolicyLife ==
    ASSUME IndInv, LifeInv, ApplyPolicy
    PROVE  LifeInv'
<1> DEFINE st == agent.status
           go == AdmittedStatus(config, st)
<1>1. /\ UNCHANGED <<agents, current, req>>
      /\ pc = "policy"
      /\ agent.finalizer
      /\ st.registered
  BY DEF ApplyPolicy, clusterVars, IndInv, WorkerState
<1>2. /\ agent \in Agent
      /\ st \in Status
      /\ agent.gen \in Nat
      /\ GoodVersion(agent, now)
      /\ now \in Nat
  BY <1>1, WorkerObject
<1> HIDE DEF st
<1>3. CASE /\ ~Admitted(config, st)
           /\ agent' = [agent EXCEPT !.status = PendingApprovalStatus(st)]
           /\ pc' = "write"
  <2> DEFINE new == PendingApprovalStatus(st)
  <2>1. ~isApproved(st)
    BY <1>3 DEF Admitted
  <2>2. /\ Rewritten(agent', agent, new)
        /\ new.phase = "Pending"
        /\ SameRecord(new, st)
    BY <1>1, <1>2, <1>3, <2>1, WaitingObject DEF st
  <2> HIDE DEF new
  <2>3. Lifecycle!Tally(new.phase, st.failures, new.failures)
    BY <2>2, SameFailuresTally DEF SameRecord
  <2> QED BY <1>1, <1>3, <2>2, <2>3, DecidedLife DEF st
<1>4. ASSUME Admitted(config, st)
      PROVE  /\ Rewritten([agent EXCEPT !.status = go], agent, go)
             /\ go \in Status
  BY <1>2, <1>4, AdmittedObject DEF st
<1> HIDE DEF go
<1>5. CASE /\ Admitted(config, st)
           /\ agent' = [agent EXCEPT !.status = go]
           /\ pc' = "probe"
  BY <1>1, <1>4, <1>5, UndecidedLife
<1>6. CASE /\ Admitted(config, st)
           /\ agent' = [agent EXCEPT !.status =
                            ObservedStatus(HealthyStatus(go, now), agent.gen)]
           /\ pc' = "write"
  <2> DEFINE h == HealthyStatus(go, now)
             new == ObservedStatus(h, agent.gen)
  <2>1. h \in Status /\ h.phase = "Ready" /\ h.failures = 0
    BY <1>2, <1>4, <1>6, HealthyFields
  <2> HIDE DEF h
  <2>2. /\ new \in Status
        /\ new.phase = "Ready"
        /\ new.failures = 0
    BY <1>2, <2>1, ObservedFields DEF SameRecord
  <2>3. Rewritten(agent', agent, new)
    BY <1>2, <1>6, <2>2, SetStatus DEF h, Rewritten
  <2> HIDE DEF new
  <2>4. Lifecycle!Tally(new.phase, st.failures, new.failures)
    BY <2>2 DEF Lifecycle!Tally
  <2> QED BY <1>1, <1>6, <2>2, <2>3, <2>4, DecidedLife DEF st
<1> QED BY <1>3, <1>5, <1>6 DEF ApplyPolicy, st, go

LEMMA ProbeLife ==
    ASSUME IndInv, LifeInv, Probe
    PROVE  LifeInv'
<1> DEFINE checked == CheckedStatus(agent, CheckWithAuth(agent.spec.url))
           new == ObservedStatus(checked, agent.gen)
<1>1. /\ UNCHANGED <<agents, current, req>>
      /\ pc = "probe"
      /\ pc' = "write"
      /\ agent' = [agent EXCEPT !.status = new]
      /\ agent.status.registered
      /\ agent.status.heartbeat <= startedAt
      /\ startedAt <= now
      /\ startedAt \in Nat
  BY DEF Probe, clusterVars, IndInv, WorkerState, TypeOK, ControllerTypeOK
<1>2. /\ agent \in Agent
      /\ agent.gen \in Nat
      /\ agent.status.failures \in Int
      /\ now \in Nat
  BY <1>1, WorkerObject
<1>3. /\ checked \in Status
      /\ \/ checked.phase = "Ready" /\ checked.failures = 0
         \/ checked.phase = "Error"
         \/ /\ checked.phase = "Unreachable"
            /\ checked.failures >= failureThreshold(agent.spec)
      /\ OneStepAhead(checked, agent.status)
  BY <1>1, <1>2, CheckedFields
<1> HIDE DEF checked
<1>4. failureThreshold(agent.spec) \in Nat \ {0}
  BY <1>2, SpecsAssumption DEF failureThreshold, Agent
<1>5. checked.failures \in Int
  BY <1>3 DEF Status
<1>6. /\ new \in Status
      /\ new.phase = checked.phase
      /\ new.failures = checked.failures
  BY <1>2, <1>3, ObservedFields DEF SameRecord
<1>7. Rewritten(agent', agent, new)
  BY <1>1, <1>2, <1>6, SetStatus DEF Rewritten
<1> HIDE DEF new
<1>8. Lifecycle!Tally(new.phase, agent.status.failures, new.failures)
  BY <1>3, <1>4, <1>5, <1>6 DEF Lifecycle!Tally, OneStepAhead
<1>9. new.phase # "unset"
  BY <1>3, <1>6
<1> QED BY <1>1, <1>7, <1>8, <1>9, DecidedLife

LEMMA ControllerLife ==
    ASSUME IndInv, LifeInv, Controller
    PROVE  LifeInv'
<1>1. ASSUME NEW k \in Keys, Sync(k)
      PROVE  LifeInv'
  <2>1. /\ UNCHANGED <<pc, req, agent, agents>>
        /\ current' = [current EXCEPT ![k] = @ \cup {"cache"}]
    BY <1>1 DEF Sync, Deliver, workerVars
  <2>2. IsCurrent(req, "worker")' => IsCurrent(req, "worker")
    BY <2>1 DEF IsCurrent, IndInv, TypeOK, ClusterTypeOK
  <2> QED BY <2>1, <2>2, OthersKeepLifeInv
<1>2. ASSUME NEW k \in Keys, TimerFires(k)
      PROVE  LifeInv'
  BY <1>2, OthersKeepLifeInv DEF TimerFires, workerVars, clusterVars, IsCurrent
<1>3. ASSUME NEW k \in Keys, ReconcileGet(k)
      PROVE  LifeInv'
  <2>1. CASE UNCHANGED <<pc, req, agent, current>>
    BY <1>3, <2>1, OthersKeepLifeInv DEF ReconcileGet, IsCurrent
  <2>2. CASE pc' = AfterGet(cache[k]) /\ agent' = cache[k] /\ cache[k] # NoAgent
    <3>1. cache[k].deleting \in BOOLEAN
      BY <2>2 DEF IndInv, TypeOK, ClusterTypeOK, Agent
    <3> QED BY <2>2, <3>1 DEF LifeInv, PassKind, PassTally, AfterGet
  <2> QED BY <1>3, <2>1, <2>2 DEF ReconcileGet
<1>4. ASSUME AddFinalizer
      PROVE  LifeInv'
  <2>1. /\ pc = "add" /\ pc' = "conflict"
        /\ IsCurrent(req, "worker")
        /\ agent' \in Finalized(agents[req])
    BY <1>4 DEF AddFinalizer
  <2>2. /\ agents[req] \in Agent
        /\ GoodVersion(agents[req], now)
        /\ now \in Nat
        /\ agents[req].deleting = agent.deleting
    BY <2>1, AcceptedWrite, WorkerObject DEF SameVersion
  <2>3. agent'.deleting = agent.deleting
    BY <2>1, <2>2, FinalizedIsGood
  <2> QED BY <2>1, <2>3 DEF LifeInv, PassKind, PassTally
<1>5. RemoveFinalizer \/ WriteStatus \/ WriteConflict \/ WriteFails \/ WriteAnswerLost
          => pc' = "idle"
  BY DEF RemoveFinalizer, WriteStatus, WriteConflict, WriteFails,
         WriteAnswerLost, Return, WorkerIdle
<1> QED
  BY <1>1, <1>2, <1>3, <1>4, <1>5, IdleLifeInv, CheckConflictLife,
     ApplyPolicyLife, ProbeLife
  DEF Controller, Reconcile

-----------------------------------------------------------------------------
(* The steps of a life.                                                    *)

LEMMA LifeAt ==
    ASSUME NEW k \in Keys
    PROVE  Lives[k] = LifeOf(agents[k])
BY DEF Lives

(* A step that rewrites one object takes one step of one life. *)
LEMMA OneLifeChanges ==
    ASSUME TypeOK, NEW k \in Keys, NEW object,
           agents' = [agents EXCEPT ![k] = object]
    PROVE  Lives' = [Lives EXCEPT ![k] = LifeOf(object)]
<1>1. \A j \in Keys : agents'[j] = IF j = k THEN object ELSE agents[j]
  BY DEF TypeOK, ClusterTypeOK
<1>2. Lives' = [j \in Keys |-> LifeOf(agents'[j])]
  BY DEF Lives
<1>3. [Lives EXCEPT ![k] = LifeOf(object)]
          = [j \in Keys |-> IF j = k THEN LifeOf(object) ELSE LifeOf(agents[j])]
  BY DEF Lives
<1>4. \A j \in Keys :
          LifeOf(agents'[j]) = IF j = k THEN LifeOf(object) ELSE LifeOf(agents[j])
  BY <1>1
<1> QED BY <1>2, <1>3, <1>4 DEF Lives

(* The life of an object is a record of four fields. *)
LEMMA LifeFields ==
    ASSUME NEW a \in Agent
    PROVE  /\ LifeOf(a) = [phase    |-> a.status.phase,
                           failures |-> a.status.failures,
                           approved |-> isApproved(a.status),
                           leaving  |-> a.deleting]
           /\ LifeOf(a) # NoAgent
           /\ LifeOf(a).phase = a.status.phase
           /\ LifeOf(a).failures = a.status.failures
           /\ LifeOf(a).approved = isApproved(a.status)
           /\ LifeOf(a).leaving = a.deleting
<1> DEFINE l == [phase    |-> a.status.phase,
                failures |-> a.status.failures,
                approved |-> isApproved(a.status),
                leaving  |-> a.deleting]
<1>1. a # NoAgent
  BY AgentIsNotNoAgent
<1>2. LifeOf(a) = l
  BY <1>1 DEF LifeOf
<1>3. /\ a.status.phase \in Lifecycle!Judgements \cup {"unset"}
      /\ a.status.failures \in Nat
      /\ a.deleting \in BOOLEAN
  BY MaxFailuresAssumption DEF Agent, Status, Phases, Lifecycle!Judgements
<1>4. isApproved(a.status) \in BOOLEAN
  BY DEF isApproved
<1>5. l \in Lifecycle!Life
  BY <1>3, <1>4 DEF Lifecycle!Life
<1> QED BY <1>2, <1>5, LifeAssumption

LifeStep == Lifecycle!LifecycleNext \/ UNCHANGED Lives

(* An object whose life is not touched: a spec edit, the finalizer. *)
LEMMA StutterLife ==
    ASSUME TypeOK, NEW k \in Keys, NEW object \in Agent, agents[k] \in Agent,
           agents' = [agents EXCEPT ![k] = object],
           object.status = agents[k].status, object.deleting = agents[k].deleting
    PROVE  LifeStep
<1>1. LifeOf(object) = LifeOf(agents[k])
  BY LifeFields
<1>2. Lives' = [Lives EXCEPT ![k] = Lives[k]]
  BY <1>1, OneLifeChanges, LifeAt
<1>3. Lives = [j \in Keys |-> LifeOf(agents[j])]
  BY DEF Lives
<1> QED BY <1>2, <1>3 DEF LifeStep

(* Create. *)
LEMMA AppearLife ==
    ASSUME TypeOK, NEW k \in Keys, NEW s \in Specs, agents[k] = NoAgent,
           agents' = [agents EXCEPT ![k] = NewAgent(s)]
    PROVE  LifeStep
<1>1. NewAgent(s) \in Agent
  BY NewIsGood
<1>2. LifeOf(NewAgent(s)) = Lifecycle!Fresh
  BY <1>1, LifeFields
  DEF NewAgent, EmptyStatus, Lifecycle!Fresh, isApproved, ConditionTypes
<1>3. Lives[k] = NoAgent
  BY LifeAt DEF LifeOf
<1>4. Lives' = [Lives EXCEPT ![k] = Lifecycle!Fresh]
  BY <1>2, OneLifeChanges
<1>5. Lifecycle!Appear(k)
  BY <1>3, <1>4 DEF Lifecycle!Appear, Lifecycle!Becomes, Lives
<1> QED BY <1>5 DEF LifeStep, Lifecycle!LifecycleNext

(* The object goes: it was leaving, or nobody had judged it. *)
LEMMA VanishLife ==
    ASSUME TypeOK, NEW k \in Keys, agents[k] \in Agent,
           agents' = [agents EXCEPT ![k] = NoAgent],
           agents[k].deleting \/ agents[k].status.phase = "unset"
    PROVE  LifeStep
<1>1. /\ Lives[k] # NoAgent
      /\ Lives[k].leaving \/ Lives[k].phase = "unset"
  BY LifeAt, LifeFields
<1>2. Lives' = [Lives EXCEPT ![k] = NoAgent]
  BY OneLifeChanges DEF LifeOf
<1>3. Lifecycle!Vanish(k)
  BY <1>1, <1>2 DEF Lifecycle!Vanish, Lifecycle!Becomes, Lives
<1> QED BY <1>3 DEF LifeStep, Lifecycle!LifecycleNext

(* A delete request, of a user or of the registry controller: an object    *)
(* without a finalizer has not been judged.                                *)
LEMMA DeleteLife ==
    ASSUME IndInv, NEW k \in Keys, agents[k] # NoAgent, RequestDelete(k)
    PROVE  LifeStep
<1>1. TypeOK /\ agents[k] \in Agent /\ Sound(agents[k])
  BY DEF IndInv, TypeOK, ClusterTypeOK, GoodVersions, GoodVersion
<1>2. CASE ~agents[k].finalizer /\ agents' = [agents EXCEPT ![k] = NoAgent]
  <2>1. agents[k].status.phase = "unset"
    BY <1>1, <1>2 DEF Sound
  <2> QED BY <1>1, <1>2, <2>1, VanishLife
<1>3. CASE agents' = [agents EXCEPT ![k] = MarkDeleted(agents[k])]
  <2> DEFINE b == MarkDeleted(agents[k])
  <2>1. /\ b \in Agent
        /\ b.status = agents[k].status
        /\ b.deleting = TRUE
    <3>1. agents[k].gen + 1 \in Nat
      BY <1>1 DEF Agent
    <3> QED BY <1>1, <3>1 DEF MarkDeleted, Agent
  <2>2. agents' = [agents EXCEPT ![k] = b]
    BY <1>3
  <2> HIDE DEF b
  <2>3. LifeOf(b) = [LifeOf(agents[k]) EXCEPT !.leaving = TRUE]
    BY <1>1, <2>1, LifeFields
  <2>4. Lives[k] = LifeOf(agents[k]) /\ Lives[k] # NoAgent
    BY <1>1, LifeAt, LifeFields
  <2>5. Lives' = [Lives EXCEPT ![k] = LifeOf(b)]
    BY <1>1, <2>2, OneLifeChanges
  <2>6. Lives' = [Lives EXCEPT ![k] = [Lives[k] EXCEPT !.leaving = TRUE]]
    BY <2>3, <2>4, <2>5
  <2>7. Lifecycle!Leave(k)
    BY <2>4, <2>6 DEF Lifecycle!Leave, Lifecycle!Becomes, Lives
  <2> QED BY <2>7 DEF LifeStep, Lifecycle!LifecycleNext
<1> QED BY <1>2, <1>3 DEF RequestDelete, Remove

LEMMA EnvironmentLives ==
    ASSUME IndInv, Environment
    PROVE  LifeStep
<1>1. TypeOK /\ \A k \in Keys : agents[k] \in Agent \cup {NoAgent}
  BY DEF IndInv, TypeOK, ClusterTypeOK
<1>2. ASSUME NEW k \in Keys, UserCreate(k)
      PROVE  LifeStep
  BY <1>1, <1>2, AppearLife DEF UserCreate
<1>3. ASSUME NEW k \in Keys, UserEdit(k)
      PROVE  LifeStep
  <2>1. agents[k] \in Agent
    BY <1>1, <1>3 DEF UserEdit
  <2>2. PICK s \in Specs : agents' = [agents EXCEPT ![k] = Edited(agents[k], s)]
    BY <1>3 DEF UserEdit
  <2>3. /\ Edited(agents[k], s) \in Agent
        /\ Edited(agents[k], s).status = agents[k].status
        /\ Edited(agents[k], s).deleting = agents[k].deleting
    <3>1. agents[k].gen + 1 \in Nat
      BY <2>1 DEF Agent
    <3> QED BY <2>1, <3>1 DEF Edited, Agent
  <2> QED BY <1>1, <2>1, <2>2, <2>3, StutterLife
<1>4. ASSUME NEW k \in Keys, UserDelete(k)
      PROVE  LifeStep
  BY <1>4, DeleteLife DEF UserDelete
<1>5. UserConfigure \/ (\E u \in URLs : EndpointChange(u)) \/ Tick
          => UNCHANGED agents
  BY DEF UserConfigure, EndpointChange, Tick, storeVars
<1>6. UNCHANGED agents => LifeStep
  BY DEF LifeStep, Lives
<1> QED BY <1>2, <1>3, <1>4, <1>5, <1>6 DEF Environment

LEMMA ApproverLives ==
    ASSUME IndInv, Approver
    PROVE  LifeStep
<1>1. CASE ApproveWrite
  <2> DEFINE k == approval.key
             st == ApprovedStatus(agents[k].status)
             object == [agents[k] EXCEPT !.status = st]
  <2>1. /\ TypeOK
        /\ k \in Keys
        /\ agents[k] \in Agent
        /\ GoodVersion(agents[k], now)
        /\ now \in Nat
        /\ agents' = [agents EXCEPT ![k] = object]
    BY <1>1 DEF ApproveWrite, Write, IndInv, TypeOK, ClusterTypeOK,
                DashboardTypeOK, CurrentCopies, GoodVersions
  <2>2. /\ object \in Agent
        /\ isApproved(object.status)
        /\ object.status.failures = agents[k].status.failures
        /\ object.status.phase = agents[k].status.phase
    BY <2>1, ApprovalIsGood
  <2>3. object.deleting = agents[k].deleting
    BY <2>1 DEF Agent
  <2> HIDE DEF object
  <2>4. LifeOf(object) = [LifeOf(agents[k]) EXCEPT !.approved = TRUE]
    <3>1. isApproved(object.status) = TRUE
      BY <2>2 DEF isApproved
    <3> QED BY <2>1, <2>2, <2>3, <3>1, LifeFields
  <2>5. Lives[k] = LifeOf(agents[k]) /\ Lives[k] # NoAgent
    BY <2>1, LifeAt, LifeFields
  <2>6. Lives' = [Lives EXCEPT ![k] = LifeOf(object)]
    BY <2>1, OneLifeChanges DEF object
  <2>7. Lives' = [Lives EXCEPT ![k] = [Lives[k] EXCEPT !.approved = TRUE]]
    BY <2>4, <2>5, <2>6
  <2>8. Lifecycle!Approve(k)
    BY <2>5, <2>7 DEF Lifecycle!Approve, Lifecycle!Becomes, Lives
  <2> QED BY <2>1, <2>8 DEF LifeStep, Lifecycle!LifecycleNext
<1>2. ApproveConflict \/ (\E k \in Keys : ApproveGet(k)) => UNCHANGED agents
  BY DEF ApproveConflict, ApproveGet, clusterVars
<1>3. UNCHANGED agents => LifeStep
  BY DEF LifeStep, Lives
<1> QED BY <1>1, <1>2, <1>3 DEF Approver

(* The status that a pass stores is a judgement of its agent. *)
LEMMA JudgeLife ==
    ASSUME IndInv, LifeInv, pc = "write", IsCurrent(req, "worker"),
           agents' = [agents EXCEPT ![req] =
                          [agents[req] EXCEPT !.status = agent.status]]
    PROVE  LifeStep
<1> DEFINE object == [agents[req] EXCEPT !.status = agent.status]
           n == agents[req].status.failures
<1>1. /\ TypeOK
      /\ req \in Keys
      /\ agent \in Agent
      /\ agent.status \in Status
      /\ agents[req] \in Agent
      /\ SameVersion(agent, agents[req])
  BY WorkerObject, AcceptedWrite DEF IndInv
<1>2. /\ object \in Agent
      /\ object.status = agent.status
      /\ object.deleting = agents[req].deleting
  BY <1>1, SetStatus
<1>3. /\ agents[req].deleting = FALSE
      /\ isApproved(agent.status) = isApproved(agents[req].status)
  <2>1. ~agents[req].deleting
    BY <1>1 DEF LifeInv, PassKind, SameVersion
  <2>2. isApproved(agent.status) <=> isApproved(agents[req].status)
    BY <1>1 DEF IndInv, WorkerAhead, SameVersion
  <2>3. agents[req].deleting \in BOOLEAN
    BY <1>1 DEF Agent
  <2> QED BY <2>1, <2>2, <2>3 DEF isApproved
<1>4. agent.status.phase \in Lifecycle!Judgements
  BY <1>1 DEF Status, Phases, Lifecycle!Judgements, LifeInv, PassKind
<1>5. /\ Lifecycle!Tally(agent.status.phase, n, agent.status.failures)
      /\ agent.status.failures \in {0, n, n + 1}
  BY DEF LifeInv, PassTally, Lifecycle!Tally
<1>6. agents' = [agents EXCEPT ![req] = object]
  OBVIOUS
<1> HIDE DEF object
<1>7. LifeOf(object) = [phase    |-> agent.status.phase,
                        failures |-> agent.status.failures,
                        approved |-> LifeOf(agents[req]).approved,
                        leaving  |-> FALSE]
  BY <1>1, <1>2, <1>3, LifeFields
<1>8. /\ Lives[req] # NoAgent
      /\ ~Lives[req].leaving
      /\ Lives[req].failures = n
      /\ Lives[req].approved = LifeOf(agents[req]).approved
  BY <1>1, <1>3, LifeAt, LifeFields
<1>9. Lives' = [Lives EXCEPT ![req] = LifeOf(object)]
  BY <1>1, <1>6, OneLifeChanges
<1>10. Lifecycle!Becomes(req, [phase    |-> agent.status.phase,
                               failures |-> agent.status.failures,
                               approved |-> Lives[req].approved,
                               leaving  |-> FALSE])
  BY <1>7, <1>8, <1>9 DEF Lifecycle!Becomes, Lives
<1> HIDE DEF n
<1>11. \E p \in Lifecycle!Judgements,
          f \in {0, Lives[req].failures, Lives[req].failures + 1} :
           /\ Lifecycle!Tally(p, Lives[req].failures, f)
           /\ Lifecycle!Becomes(req, [phase |-> p, failures |-> f,
                                      approved |-> Lives[req].approved,
                                      leaving |-> FALSE])
  BY <1>4, <1>5, <1>8, <1>10
<1>12. Lifecycle!Judge(req)
  BY <1>8, <1>11 DEF Lifecycle!Judge, Lives
<1> QED BY <1>1, <1>12 DEF LifeStep, Lifecycle!LifecycleNext

LEMMA ControllerLives ==
    ASSUME IndInv, LifeInv, Controller
    PROVE  LifeStep
<1>1. ASSUME WriteStatus \/ (WriteAnswerLost /\ pc = "write")
      PROVE  LifeStep
  BY <1>1, JudgeLife DEF WriteStatus, WriteAnswerLost, Write
<1>2. ASSUME RemoveFinalizer \/ (WriteAnswerLost /\ pc = "remove")
      PROVE  LifeStep
  <2>1. /\ pc = "remove"
        /\ IsCurrent(req, "worker")
        /\ agents' = [agents EXCEPT ![req] = NoAgent]
    BY <1>2 DEF RemoveFinalizer, WriteAnswerLost, Remove
  <2>2. TypeOK /\ req \in Keys /\ agents[req] \in Agent /\ agents[req].deleting
    BY <2>1, WorkerObject, AcceptedWrite
    DEF IndInv, LifeInv, PassKind, SameVersion
  <2> QED BY <2>1, <2>2, VanishLife
<1>3. ASSUME AddFinalizer \/ (WriteAnswerLost /\ pc = "add")
      PROVE  LifeStep
  <2>1. /\ pc = "add"
        /\ IsCurrent(req, "worker")
        /\ \E a \in Finalized(agents[req]) : agents' = [agents EXCEPT ![req] = a]
    BY <1>3 DEF AddFinalizer, WriteAnswerLost, Write
  <2>2. PICK a \in Finalized(agents[req]) : agents' = [agents EXCEPT ![req] = a]
    BY <2>1
  <2>3. /\ TypeOK
        /\ req \in Keys
        /\ now \in Nat
        /\ agents[req] \in Agent
        /\ GoodVersion(agents[req], now)
    BY <2>1, WorkerObject, AcceptedWrite DEF IndInv
  <2>4. /\ a \in Agent
        /\ a.status = agents[req].status
        /\ a.deleting = agents[req].deleting
    BY <2>3, FinalizedIsGood
  <2> QED BY <2>2, <2>3, <2>4, StutterLife
<1>4. WriteAnswerLost => pc \in {"remove", "add", "write"}
  BY DEF WriteAnswerLost
<1>5. \A k \in Keys : Sync(k) \/ TimerFires(k) \/ ReconcileGet(k)
                          => UNCHANGED agents
  BY DEF Sync, Deliver, TimerFires, ReconcileGet, clusterVars
<1>6. CheckConflict \/ ApplyPolicy \/ Probe \/ WriteConflict \/ WriteFails
          => UNCHANGED agents
  BY DEF CheckConflict, ApplyPolicy, Probe, WriteConflict, WriteFails, clusterVars
<1>7. UNCHANGED agents => LifeStep
  BY DEF LifeStep, Lives
<1> QED BY <1>1, <1>2, <1>3, <1>4, <1>5, <1>6, <1>7 DEF Controller, Reconcile

-----------------------------------------------------------------------------
(* The theorems.                                                           *)

LEMMA InitLife == Init => LifeInv /\ Lifecycle!LifecycleInit
<1> SUFFICES ASSUME Init PROVE LifeInv /\ Lifecycle!LifecycleInit
  OBVIOUS
<1>1. LifeInv
  BY DEF Init, ControllerInit, LifeInv, PassKind, PassTally
<1>2. ASSUME NEW k \in Keys
      PROVE  LifeOf(agents[k]) \in {Lifecycle!Fresh, NoAgent}
  <2>1. CASE agents[k] = NoAgent
    BY <2>1 DEF LifeOf
  <2>2. ASSUME NEW s \in Specs, agents[k] = NewAgent(s)
        PROVE  LifeOf(agents[k]) = Lifecycle!Fresh
    <3>1. NewAgent(s) \in Agent
      BY NewIsGood
    <3> QED
      BY <2>2, <3>1, LifeFields
      DEF NewAgent, EmptyStatus, Lifecycle!Fresh, isApproved, ConditionTypes
  <2> QED BY <2>1, <2>2 DEF Init, ClusterInit
<1>3. Lifecycle!LifecycleInit
  BY <1>2 DEF Lifecycle!LifecycleInit
<1> QED BY <1>1, <1>3

LEMMA NextLifeInv ==
    ASSUME IndInv, LifeInv, [Next]_vars
    PROVE  LifeInv'
<1>1. CASE UNCHANGED vars
  BY <1>1, OthersKeepLifeInv
  DEF vars, clusterVars, controllerVars, workerVars, IsCurrent
<1>2. Restart => pc' = "idle"
  BY DEF Restart, ControllerRestart, WorkerIdle
<1> QED
  BY <1>1, <1>2, IdleLifeInv, EnvironmentLife, ControllerLife, ApproverLife
  DEF Next

LEMMA NextLives ==
    ASSUME IndInv, LifeInv, [Next]_vars
    PROVE  LifeStep
<1>1. Restart \/ UNCHANGED vars => UNCHANGED agents
  BY DEF Restart, ControllerRestart, Relist, vars, clusterVars
<1>2. UNCHANGED agents => LifeStep
  BY DEF LifeStep, Lives
<1> QED
  BY <1>1, <1>2, EnvironmentLives, ControllerLives, ApproverLives DEF Next

(* Whatever the two writers, their lagging copies, failed calls and        *)
(* restarts do, the stored agents live the life of the abstract            *)
(* specification: judged only while they are not leaving, with failures    *)
(* counted one by one, approved for good, never gone unannounced           *)
(* (a2aagent_controller.go, 43-254; dashboard.go, 26-66).                  *)
THEOREM AgentsLive == Spec => ImplementsLifecycle
<1>1. Init => LifeInv /\ Lifecycle!LifecycleInit
  BY InitLife
<1>2. IndInv /\ LifeInv /\ [Next]_vars => LifeInv'
  BY NextLifeInv
<1>3. IndInv /\ LifeInv /\ [Next]_vars
          => [Lifecycle!LifecycleNext]_[k \in Keys |-> LifeOf(agents[k])]
  BY NextLives DEF LifeStep, Lives
<1> QED
  BY <1>1, <1>2, <1>3, IndInvHolds, PTL
  DEF Spec, ImplementsLifecycle, Lifecycle!LifecycleSpec

=============================================================================
