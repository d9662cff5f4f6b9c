--------------------------- MODULE AdmissionProofs ----------------------------
(***************************************************************************)
(* The properties of Admission for every set of requests: the numbers are  *)
(* arbitrary integers, the skill lists arbitrary sequences.                *)
(***************************************************************************)
EXTENDS Admission, TLAPS

(* Defaulting keeps the shape of a spec. *)
LEMMA AgentDefaultType ==
    ASSUME NEW s \in AgentSpecs
    PROVE  AgentDefault(s) \in AgentSpecs
  <1>1. /\ OrElse(s.version, 2) \in Nat
        /\ OrElse(s.interval, 60) \in Int
        /\ OrElse(s.timeout, 10) \in Int
        /\ OrElse(s.threshold, 3) \in Int
    <2>1. /\ s.version \in Nat
          /\ s.interval \in Int
          /\ s.timeout \in Int
          /\ s.threshold \in Int
      BY DEF AgentSpecs
    <2> QED
      BY <2>1 DEF OrElse
  <1>2. (s.enabled \/ s.url # "unset") \in BOOLEAN
    OBVIOUS
  <1>3. s.name \in STRING /\ s.url \in STRING /\ s.skills \in Skills
    BY DEF AgentSpecs
  <1> QED
    BY <1>1, <1>2, <1>3 DEF AgentDefault, AgentSpecs

LEMMA RegistryDefaultType ==
    ASSUME NEW r \in RegistrySpecs
    PROVE  RegistryDefault(r) \in RegistrySpecs
  <1>1. /\ OrElse(r.port, 8082) \in Int
        /\ OrElse(r.interval, 60) \in Int
        /\ OrElse(r.timeout, 10) \in Int
    <2>1. r.port \in Int /\ r.interval \in Int /\ r.timeout \in Int
      BY DEF RegistrySpecs
    <2> QED
      BY <2>1 DEF OrElse
  <1>2. (IF r.scope = "unset" THEN "Cluster" ELSE r.scope) \in ScopeNames
    <2>1. r.scope \in ScopeNames
      BY DEF RegistrySpecs
    <2>2. "Cluster" \in ScopeNames
      BY DEF ScopeNames
    <2> QED
      BY <2>1, <2>2
  <1>3. r.namespaces \in SUBSET STRING
    BY DEF RegistrySpecs
  <1> QED
    BY <1>1, <1>2, <1>3 DEF RegistryDefault, RegistrySpecs

(* What defaulting sets it does not set again. *)
LEMMA AgentDefaultIdempotent ==
    ASSUME NEW s \in AgentSpecs
    PROVE  AgentDefault(AgentDefault(s)) = AgentDefault(s)
  <1> DEFINE d == AgentDefault(s)
  <1>1. d \in AgentSpecs
    BY AgentDefaultType
  <1>2. /\ OrElse(d.version, 2) = d.version
        /\ OrElse(d.interval, 60) = d.interval
        /\ OrElse(d.timeout, 10) = d.timeout
        /\ OrElse(d.threshold, 3) = d.threshold
    <2>1. /\ d.version = OrElse(s.version, 2)
          /\ d.interval = OrElse(s.interval, 60)
          /\ d.timeout = OrElse(s.timeout, 10)
          /\ d.threshold = OrElse(s.threshold, 3)
      BY DEF AgentDefault
    <2>2. /\ s.version \in Nat
          /\ s.interval \in Int
          /\ s.timeout \in Int
          /\ s.threshold \in Int
      BY DEF AgentSpecs
    <2> QED
      BY <2>1, <2>2 DEF OrElse
  <1>3. (d.enabled \/ d.url # "unset") = d.enabled
    <2>1. d.enabled = (s.enabled \/ s.url # "unset") /\ d.url = s.url
      BY DEF AgentDefault
    <2> QED
      BY <2>1
  <1>4. AgentDefault(d) = [name      |-> d.name,
                           url       |-> d.url,
                           skills    |-> d.skills,
                           version   |-> d.version,
                           enabled   |-> d.enabled,
                           interval  |-> d.interval,
                           timeout   |-> d.timeout,
                           threshold |-> d.threshold]
    BY <1>2, <1>3 DEF AgentDefault
  <1> QED
    BY <1>1, <1>4 DEF AgentSpecs

(* Nor does it take a spec out of the schema it was accepted under. *)
LEMMA AgentDefaultSchema ==
    ASSUME NEW s \in AgentSpecs, NEW c, AgentSchema(s, c)
    PROVE  AgentSchema(AgentDefault(s), c)
  <1> SUFFICES ASSUME c = "bases"
               PROVE  /\ IntervalAllowed(AgentDefault(s).interval)
                      /\ AgentDefault(s).threshold # 0 =>
                             AgentDefault(s).threshold >= 1
                      /\ \A i \in DOMAIN AgentDefault(s).skills :
                             AgentDefault(s).skills[i].id # "unset"
    BY DEF AgentSchema
  <1>1. /\ IntervalAllowed(s.interval)
        /\ s.threshold # 0 => s.threshold >= 1
        /\ \A i \in DOMAIN s.skills : s.skills[i].id # "unset"
    BY DEF AgentSchema
  <1>2. s.interval \in Int /\ s.threshold \in Int
    BY DEF AgentSpecs
  <1>3. /\ AgentDefault(s).interval = OrElse(s.interval, 60)
        /\ AgentDefault(s).threshold = OrElse(s.threshold, 3)
        /\ AgentDefault(s).skills = s.skills
    BY DEF AgentDefault
  <1>4. IntervalAllowed(OrElse(s.interval, 60))
    BY <1>1, <1>2 DEF OrElse, IntervalAllowed
  <1>5. OrElse(s.threshold, 3) # 0 => OrElse(s.threshold, 3) >= 1
    BY <1>1, <1>2 DEF OrElse
  <1> QED
    BY <1>1, <1>3, <1>4, <1>5

(* Each kind of step keeps AdmissionInv. *)
LEMMA ApplyAgentInv ==
    ASSUME AdmissionInv, NEW s \in AgentRequests, ApplyAgent(s)
    PROVE  AdmissionInv'
  <1>1. s \in AgentSpecs
    BY RequestsAssumption
  <1>2. AgentDefault(s) \in AgentSpecs
    BY <1>1, AgentDefaultType
  <1>3. AdmittedAgent(s) \in AgentSpecs
    BY <1>1, <1>2 DEF AdmittedAgent
  <1>4. stored' \in AgentSpecs /\ asked' \in AgentSpecs
    BY <1>1, <1>3 DEF ApplyAgent
  <1>5. AdmissionTypeOK'
    BY <1>4 DEF AdmissionInv, AdmissionTypeOK, ApplyAgent, installation,
                registryWrite
  <1>6. AgentSchema(stored', under')
    BY DEF ApplyAgent, AgentAdmitted
  <1>7. vetted' => stored' = AgentDefault(asked') /\ Resubmittable(stored')
    <2> SUFFICES ASSUME webhooks
                 PROVE  stored' = AgentDefault(s) /\ Resubmittable(stored')
      BY DEF ApplyAgent
    <2>1. stored' = AgentDefault(s)
      BY DEF ApplyAgent, AdmittedAgent
    <2>2. validateA2AAgent(stored')
      BY DEF ApplyAgent, AgentAdmitted
    <2> QED
      BY <1>1, <2>1, <2>2, AgentDefaultIdempotent DEF Resubmittable
  <1>8. asked' # NoObject
    BY <1>4, RequestsAssumption
  <1>9. registry' # NoObject => RegistrySchema(registry', registryUnder')
    BY DEF AdmissionInv, ApplyAgent, registryWrite
  <1> QED
    BY <1>5, <1>6, <1>7, <1>8, <1>9 DEF AdmissionInv

LEMMA ApplyRegistryInv ==
    ASSUME AdmissionInv, NEW r \in RegistryRequests, ApplyRegistry(r)
    PROVE  AdmissionInv'
  <1>1. r \in RegistrySpecs
    BY RequestsAssumption
  <1>2. registry' \in RegistrySpecs
    BY <1>1, RegistryDefaultType DEF ApplyRegistry, AdmittedRegistry
  <1>3. RegistrySchema(registry', registryUnder')
    BY DEF ApplyRegistry, RegistryAdmitted
  <1>4. AdmissionTypeOK'
    BY <1>2 DEF AdmissionInv, AdmissionTypeOK, ApplyRegistry, installation,
                agentWrite
  <1> QED
    BY <1>3, <1>4 DEF AdmissionInv, ApplyRegistry, agentWrite

LEMMA WriteFinalizerInv ==
    ASSUME AdmissionInv, WriteFinalizer
    PROVE  AdmissionInv'
  <1>1. stored \in AgentSpecs
    BY DEF AdmissionInv, AdmissionTypeOK, WriteFinalizer
  <1>2. stored' \in AgentSpecs
    BY <1>1, AgentDefaultType DEF WriteFinalizer, AdmittedAgent
  <1>3. AgentSchema(stored', under')
    <2>1. AgentSchema(stored, under)
      BY DEF AdmissionInv, WriteFinalizer
    <2>2. AgentSchema(AgentDefault(stored), under)
      BY <1>1, <2>1, AgentDefaultSchema
    <2> QED
      BY <2>1, <2>2 DEF WriteFinalizer, AdmittedAgent
  <1>4. vetted' => stored' = stored
    BY DEF WriteFinalizer, AdmittedAgent, AdmissionInv, Resubmittable
  <1>5. AdmissionTypeOK'
    BY <1>2 DEF AdmissionInv, AdmissionTypeOK, WriteFinalizer, installation,
                registryWrite
  <1>6. registry' # NoObject => RegistrySchema(registry', registryUnder')
    BY DEF AdmissionInv, WriteFinalizer, registryWrite
  <1>7. vetted' => /\ asked' # NoObject
                   /\ stored' = AgentDefault(asked')
                   /\ Resubmittable(stored')
    BY <1>4 DEF AdmissionInv, WriteFinalizer
  <1> QED
    BY <1>3, <1>5, <1>6, <1>7 DEF AdmissionInv

(* AdmissionInv holds in every state, whoever writes through whichever     *)
(* gate (a2aagent_webhook.go, 50-154; a2aregistry_webhook.go; both sets of *)
(* CRDs).                                                                  *)
THEOREM AdmissionInvHolds == AdmissionSpec => []AdmissionInv
  <1>1. AdmissionInit => AdmissionInv
    BY DEF AdmissionInit, AdmissionInv, AdmissionTypeOK
  <1>2. AdmissionInv /\ [AdmissionNext]_admissionVars => AdmissionInv'
    <2> SUFFICES ASSUME AdmissionInv, [AdmissionNext]_admissionVars
                 PROVE  AdmissionInv'
      OBVIOUS
    <2>1. CASE \E s \in AgentRequests : ApplyAgent(s)
      BY <2>1, ApplyAgentInv
    <2>2. CASE \E r \in RegistryRequests : ApplyRegistry(r)
      BY <2>2, ApplyRegistryInv
    <2>3. CASE WriteFinalizer
      BY <2>3, WriteFinalizerInv
    <2>4. CASE Redeploy
      BY <2>4 DEF Redeploy, AdmissionInv, AdmissionTypeOK, agentWrite,
                  registryWrite
    <2>5. CASE InstallCRDs
      BY <2>5 DEF InstallCRDs, AdmissionInv, AdmissionTypeOK, agentWrite,
                  registryWrite
    <2>6. CASE UNCHANGED admissionVars
      BY <2>6 DEF admissionVars, AdmissionInv, AdmissionTypeOK, installation,
                  agentWrite, registryWrite
    <2> QED
      BY <2>1, <2>2, <2>3, <2>4, <2>5, <2>6 DEF AdmissionNext
  <1> QED
    BY <1>1, <1>2, PTL DEF AdmissionSpec

(* An agent the webhooks let in can be finalized: no sequence of writes,   *)
(* redeployments and changes of CRDs, short of bounds its spec never had   *)
(* to meet, leaves a vetted spec that admission refuses or changes         *)
(* (a2aagent_webhook.go, 50-154).                                          *)
THEOREM FinalizerWriteIsAdmitted == AdmissionSpec => []FinalizerWriteAdmitted
  <1>1. AdmissionInv => FinalizerWriteAdmitted
    <2> SUFFICES ASSUME AdmissionInv, vetted, webhooks,
                        crds = "bases" => under = "bases"
                 PROVE  AgentAdmitted(stored) /\ AdmittedAgent(stored) = stored
      BY DEF FinalizerWriteAdmitted
    <2>1. /\ asked # NoObject
          /\ stored = AgentDefault(asked)
          /\ AgentDefault(stored) = stored
          /\ validateA2AAgent(stored)
      BY DEF AdmissionInv, Resubmittable
    <2>2. stored # NoObject
      BY <2>1, RequestsAssumption, AgentDefaultType
        DEF AdmissionInv, AdmissionTypeOK
    <2>3. AgentSchema(stored, under)
      BY <2>2 DEF AdmissionInv
    <2>4. AgentSchema(stored, crds)
      BY <2>3 DEF AgentSchema
    <2>5. AdmittedAgent(stored) = stored
      BY <2>1 DEF AdmittedAgent
    <2> QED
      BY <2>1, <2>4, <2>5 DEF AgentAdmitted
  <1> QED
    BY <1>1, AdmissionInvHolds, PTL

(* The health check period is at least ten seconds whenever its sources    *)
(* passed a gate that has a minimum, however the gates changed afterwards  *)
(* (a2aagent_controller.go, 153-162; a2aagent_webhook.go, 87).             *)
THEOREM PeriodIsNotTooShort == AdmissionSpec => []PeriodNotTooShort
  <1>1. AdmissionInv => PeriodNotTooShort
    <2> SUFFICES ASSUME AdmissionInv,
                        stored # NoObject,
                        vetted \/ under = "bases",
                        \/ registry = NoObject
                        \/ registryUnder = "bases"
                        \/ vetted /\ asked.interval >= 0
                 PROVE  intervalSeconds >= 10
      BY DEF PeriodNotTooShort
    <2>1. stored \in AgentSpecs
      BY DEF AdmissionInv, AdmissionTypeOK
    <2>2. stored.interval \in Int
      BY <2>1 DEF AgentSpecs
    <2>3. ~(stored.interval > 0 /\ stored.interval < 10)
      <3>1. CASE vetted
        BY <3>1 DEF AdmissionInv, Resubmittable, validateA2AAgent
      <3>2. CASE under = "bases"
        <4>1. IntervalAllowed(stored.interval)
          BY <3>2 DEF AdmissionInv, AgentSchema
        <4> QED
          BY <2>2, <4>1 DEF IntervalAllowed
      <3> QED
        BY <3>1, <3>2
    <2>4. CASE stored.interval > 0
      BY <2>2, <2>3, <2>4 DEF intervalSeconds
    <2>5. CASE ~(stored.interval > 0) /\ registry = NoObject
      BY <2>5 DEF intervalSeconds
    <2>6. CASE /\ ~(stored.interval > 0)
               /\ registry # NoObject
               /\ registryUnder = "bases"
      <3>1. registry \in RegistrySpecs
        BY <2>6 DEF AdmissionInv, AdmissionTypeOK
      <3>2. registry.interval \in Int
        BY <3>1 DEF RegistrySpecs
      <3>3. IntervalAllowed(registry.interval)
        BY <2>6 DEF AdmissionInv, RegistrySchema
      <3> QED
        BY <2>6, <3>2, <3>3 DEF intervalSeconds, IntervalAllowed
    <2>7. CASE ~(stored.interval > 0) /\ vetted /\ asked.interval >= 0
      <3>1. asked \in AgentSpecs /\ stored = AgentDefault(asked)
        BY <2>7 DEF AdmissionInv, AdmissionTypeOK
      <3>2. asked.interval \in Int /\ stored.interval = OrElse(asked.interval, 60)
        BY <3>1 DEF AgentSpecs, AgentDefault
      <3> QED
        BY <2>7, <3>2 DEF OrElse
    <2> QED
      BY <2>4, <2>5, <2>6, <2>7
  <1> QED
    BY <1>1, AdmissionInvHolds, PTL

=============================================================================
