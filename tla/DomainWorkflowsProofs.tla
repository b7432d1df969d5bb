------------------------ MODULE DomainWorkflowsProofs ------------------------
(***************************************************************************)
(* The domain workflows for every request the schemas admit: the rows of a *)
(* case, and what the rule engines of the domain packs decide.             *)
(***************************************************************************)
EXTENDS DomainWorkflows, WellFoundedInduction, TLAPS

Kinds == {"contract_compile", "work_order_readiness", "incident_dispatch", "margin_diagnosis",
          "spen_readiness", "spen_billability", "vodafone_incident_triage"}
Explaining == {"work_order_readiness", "incident_dispatch", "margin_diagnosis"}
Compiling == Explaining \cup {"contract_compile"}

LEMMA RequestKind == ASSUME NEW r \in Requests PROVE r.kind \in Kinds
BY RequestsAssumption DEF WorkflowRequest, Kinds

-----------------------------------------------------------------------------
(* The rows of a case.                                                     *)

\* The session is a record of these fields.
IsRows(rows) ==
    rows = [case |-> rows.case, audit |-> rows.audit, objects |-> rows.objects,
            validation |-> rows.validation, runs |-> rows.runs]

\* What the session holds after the first "at" steps of the flow.
ServingInv ==
    /\ session.case = "running" /\ "workflow_started" \in session.audit
    /\ request.kind \in Compiling /\ at >= 2 => session.objects = Compiled(request)
    /\ request.kind \in Compiling \ {"margin_diagnosis"} /\ at >= 2 => "compiled" \in session.audit
    /\ request.kind = "margin_diagnosis" /\ at >= 3 => "reconciled" \in session.audit
    /\ session.runs = IF request.kind \in Explaining /\ at >= 4 THEN 1 ELSE 0
    /\ request.kind \in Explaining /\ at >= 5 => session.validation # "none"
    /\ request.kind = "contract_compile" /\ at >= 3 => session.validation # "none"

\* What CasesWhole says of the committed rows, of the rows of a session.
WholeRows(rows) ==
    /\ rows.case \in {"completed", "failed"}
    /\ "workflow_started" \in rows.audit
    /\ rows.case = "completed" =>
        /\ request.kind \in Compiling => rows.objects = Compiled(request) /\ rows.validation # "none"
        /\ request.kind \in Explaining => rows.runs = 1
    /\ rows.audit = {"workflow_started"} =>
        rows.case = "failed" /\ rows.runs = 0 /\ request.kind \in Explaining

RowsInv ==
    /\ request \in Requests
    /\ at \in -1..6
    /\ phase \in {"serving", "returned", "answered", "done", "aborted"}
    /\ IsRows(session)
    /\ phase = "serving" /\ at = -1 => session = Nothing
    /\ phase = "serving" /\ at >= 0 => ServingInv
    /\ phase \in {"returned", "answered", "done"} => WholeRows(session)
    /\ db = IF phase = "done" THEN session ELSE Nothing

\* The place of each step in the flow of each kind of request.
LEMMA FlowPlaces ==
    ASSUME RowsInv, NEW step, AtStep(step)
    PROVE  /\ phase = "serving" /\ at \in 0..5 /\ at' = at + 1
           /\ step = "load" => at = 0
           /\ step = "compile" => at = 1 /\ request.kind \in Compiling
           /\ step = "decide" => at = IF request.kind \in Explaining THEN 2 ELSE 1
           /\ step = "decide" => request.kind # "contract_compile"
           /\ step = "explain" => at = 3 /\ request.kind \in Explaining
           /\ step = "validate" => \/ at = 4 /\ request.kind \in Explaining
                                   \/ at = 2 /\ request.kind = "contract_compile"
           /\ step = "complete" => \/ at = 5 /\ request.kind \in Explaining
                                   \/ at = 3 /\ request.kind = "contract_compile"
                                   \/ at = 2 /\ request.kind \in AuditsCompletion
<1> USE DEF AtStep, RowsInv
<1>1. request.kind \in Kinds
  BY RequestKind
<1>2. CASE request.kind = "contract_compile"
  <2>1. Flow(request.kind) = <<"load", "compile", "validate", "complete">>
    BY <1>2 DEF Flow
  <2> QED BY <1>2, <2>1 DEF Compiling, Explaining, AuditsCompletion
<1>3. CASE request.kind \in Explaining
  <2>1. Flow(request.kind) = <<"load", "compile", "decide", "explain", "validate", "complete">>
    BY <1>3 DEF Flow, Explaining
  <2> QED BY <1>3, <2>1 DEF Compiling, Explaining, AuditsCompletion
<1>4. CASE request.kind \in AuditsCompletion
  <2>1. Flow(request.kind) = <<"load", "decide", "complete">>
    BY <1>4 DEF Flow, AuditsCompletion
  <2> QED BY <1>4, <2>1 DEF Compiling, Explaining, AuditsCompletion
<1> QED BY <1>1, <1>2, <1>3, <1>4 DEF Kinds, Explaining, AuditsCompletion

LEMMA RowsInit == Init => RowsInv
BY DEF Init, RowsInv, Nothing, IsRows

LEMMA RowsStep == RowsInv /\ [Next]_vars => RowsInv'
<1> SUFFICES ASSUME RowsInv, [Next]_vars PROVE RowsInv'
  OBVIOUS
<1>0. request.kind \in Kinds
  BY RequestKind DEF RowsInv
<1>1. CASE CreateCase
  <2>1. session = Nothing /\ phase' = "serving" /\ at' = 0 /\ UNCHANGED <<request, phase, db>>
    BY <1>1 DEF CreateCase, RowsInv
  <2>2. session' = [session EXCEPT !.case = "running", !.audit = {"workflow_started"}]
    BY <1>1 DEF CreateCase
  <2>3. /\ IsRows(session') /\ session'.case = "running" /\ session'.runs = 0
        /\ session'.audit = {"workflow_started"}
    BY <2>1, <2>2 DEF Nothing, IsRows
  <2>4. ServingInv'
    BY <2>1, <2>3 DEF ServingInv
  <2> QED BY <2>1, <2>3, <2>4 DEF RowsInv
<1>2. CASE Load
  <2>1. at = 0 /\ at' = 1 /\ phase = "serving"
    BY <1>2, FlowPlaces DEF Load
  <2> QED BY <1>2, <2>1 DEF Load, RowsInv, ServingInv
<1>3. CASE Compile
  <2>1. at = 1 /\ at' = 2 /\ phase = "serving" /\ request.kind \in Compiling
    BY <1>3, FlowPlaces DEF Compile
  <2>2. /\ IsRows(session') /\ session'.case = session.case /\ session'.runs = session.runs
        /\ session'.validation = session.validation /\ session'.objects = Compiled(request)
        /\ session.audit \subseteq session'.audit
        /\ request.kind # "margin_diagnosis" => "compiled" \in session'.audit
    BY <1>3 DEF Compile, RowsInv, IsRows
  <2> QED BY <1>3, <2>1, <2>2 DEF Compile, RowsInv, ServingInv, Explaining, Compiling
<1>4. CASE Decide
  <2>1. /\ at = (IF request.kind \in Explaining THEN 2 ELSE 1) /\ at' = at + 1
        /\ phase = "serving" /\ request.kind # "contract_compile"
    BY <1>4, FlowPlaces DEF Decide
  <2>2. /\ IsRows(session') /\ session'.case = session.case /\ session'.runs = session.runs
        /\ session'.validation = session.validation /\ session'.objects = session.objects
        /\ session.audit \subseteq session'.audit
        /\ request.kind = "margin_diagnosis" => "reconciled" \in session'.audit
    BY <1>4 DEF Decide, RowsInv, IsRows
  <2> QED BY <1>4, <2>1, <2>2 DEF Decide, RowsInv, ServingInv, Explaining, Compiling
<1>5. CASE Explain
  <2>1. at = 3 /\ at' = 4 /\ phase = "serving" /\ request.kind \in Explaining
    BY <1>5, FlowPlaces DEF Explain
  <2>2. session.runs = 0
    BY <2>1 DEF RowsInv, ServingInv
  <2>3. /\ IsRows(session') /\ session'.case = session.case /\ session'.runs = 1
        /\ session'.validation = session.validation /\ session'.objects = session.objects
        /\ session'.audit = session.audit
    BY <1>5, <2>2 DEF Explain, RowsInv, IsRows
  <2> QED BY <1>5, <2>1, <2>3 DEF Explain, RowsInv, ServingInv, Explaining, Compiling
<1>6. CASE Validate
  <2>1. /\ \/ at = 4 /\ request.kind \in Explaining
           \/ at = 2 /\ request.kind = "contract_compile"
        /\ at' = at + 1 /\ phase = "serving"
    BY <1>6, FlowPlaces DEF Validate
  <2>2. PICK v \in {"blocked", "warned", "passed"} : session' = [session EXCEPT !.validation = v]
    BY <1>6 DEF Validate, ValidationStatus
  <2>3. /\ IsRows(session') /\ session'.case = session.case /\ session'.runs = session.runs
        /\ session'.validation # "none" /\ session'.objects = session.objects
        /\ session'.audit = session.audit
    BY <2>2 DEF RowsInv, IsRows
  <2> QED BY <1>6, <2>1, <2>3 DEF Validate, RowsInv, ServingInv, Explaining, Compiling
<1>7. CASE Complete
  <2>1. /\ \/ at = 5 /\ request.kind \in Explaining
           \/ at = 3 /\ request.kind = "contract_compile"
           \/ at = 2 /\ request.kind \in AuditsCompletion
        /\ at' = at + 1 /\ phase = "serving"
    BY <1>7, FlowPlaces DEF Complete
  <2>2. /\ IsRows(session') /\ session'.case = "completed" /\ session'.runs = session.runs
        /\ session'.validation = session.validation /\ session'.objects = session.objects
        /\ session.audit \subseteq session'.audit
        /\ request.kind \in AuditsCompletion => "completed" \in session'.audit
    BY <1>7 DEF Complete, RowsInv, IsRows
  <2>3. ServingInv
    BY <2>1 DEF RowsInv
  <2>4. WholeRows(session)'
    BY <1>7, <2>1, <2>2, <2>3 DEF Complete, ServingInv, WholeRows, Explaining, Compiling,
                                  AuditsCompletion
  <2> QED BY <1>7, <2>1, <2>2, <2>4 DEF Complete, RowsInv
<1>8. CASE Fail
  <2>1. /\ IsRows(session') /\ session'.case = "failed" /\ session'.runs = session.runs
        /\ session.audit \subseteq session'.audit
        /\ request.kind \in AuditsFailure => "workflow_failed" \in session'.audit
    <3>1. PICK objects :
            session' = [session EXCEPT !.case = "failed", !.objects = objects,
                                       !.audit = IF request.kind \in AuditsFailure
                                                 THEN @ \cup {"workflow_failed"} ELSE @]
      BY <1>8 DEF Fail
    <3> QED BY <3>1 DEF RowsInv, IsRows
  <2>2. ServingInv
    BY <1>8 DEF Fail, RowsInv
  <2>3. ASSUME session'.audit = {"workflow_started"}
        PROVE  session'.runs = 0 /\ request.kind \in Explaining
    <3>1. request.kind \in Explaining
      BY <1>0, <2>1, <2>3 DEF Kinds, Explaining, AuditsFailure, AuditsCompletion
    <3>2. "compiled" \notin session.audit /\ "reconciled" \notin session.audit
      BY <2>1, <2>3
    <3>3. at \in Int /\ ~(at >= 4)
      BY <2>2, <3>1, <3>2 DEF RowsInv, ServingInv, Explaining, Compiling
    <3> QED BY <2>1, <2>2, <3>1, <3>3 DEF ServingInv
  <2>4. "workflow_started" \in session'.audit
    BY <2>1, <2>2 DEF ServingInv
  <2>5. request' = request /\ at' = at /\ phase' = "returned" /\ db' = db
    BY <1>8 DEF Fail
  <2>6. WholeRows(session)'
    BY <2>1, <2>3, <2>4, <2>5 DEF WholeRows
  <2> QED BY <1>8, <2>1, <2>5, <2>6 DEF Fail, RowsInv
<1>9. CASE Respond \/ Commit
  BY <1>9 DEF Respond, Commit, RowsInv, WholeRows
<1>10. CASE Abort
  BY <1>10 DEF Abort, RowsInv, Nothing, IsRows
<1>11. CASE UNCHANGED vars
  BY <1>11 DEF vars, RowsInv, ServingInv, WholeRows
<1> QED
  BY <1>1, <1>2, <1>3, <1>4, <1>5, <1>6, <1>7, <1>8, <1>9, <1>10, <1>11 DEF Next

(***************************************************************************)
(* The rows of a request are committed together or not at all, for every   *)
(* request and wherever its handler, its session or the process fails.     *)
(***************************************************************************)
THEOREM CommittedCasesWhole == Spec => []CasesWhole
<1>1. RowsInv => CasesWhole
  <2> SUFFICES ASSUME RowsInv, db # Nothing PROVE CasesWhole
    BY DEF CasesWhole
  <2>1. WholeRows(db)
    BY DEF RowsInv
  <2>2. \A i \in DOMAIN Flow(request.kind) :
          /\ Flow(request.kind)[i] \in {"compile", "validate"} => request.kind \in Compiling
          /\ Flow(request.kind)[i] = "explain" => request.kind \in Explaining
    BY DEF Flow, Compiling, Explaining
  <2> QED BY <2>1, <2>2 DEF CasesWhole, WholeRows, Explaining
<1> QED BY RowsInit, RowsStep, <1>1, PTL DEF Spec

-----------------------------------------------------------------------------
(* Readiness: easing a job removes blockers and adds none.                 *)

LEMMA FewerBlockers ==
    ASSUME NEW B, NEW C, B \subseteq C
    PROVE  Rank(ReadinessStatus(B)) >= Rank(ReadinessStatus(C))
<1>1. ReadinessStatus(B) \in {"blocked", "conditional", "ready"}
  BY DEF ReadinessStatus
<1>2. ReadinessStatus(C) \in {"blocked", "conditional", "ready"}
  BY DEF ReadinessStatus
<1>3. ReadinessStatus(B) = "blocked" => ReadinessStatus(C) = "blocked"
  BY DEF ReadinessStatus
<1>4. ReadinessStatus(B) = "conditional" => ReadinessStatus(C) \in {"blocked", "conditional"}
  BY DEF ReadinessStatus
<1> HIDE DEF ReadinessStatus
<1>5. Rank("blocked") = 0 /\ Rank("conditional") = 1 /\ Rank("ready") = 2
  BY DEF Rank
<1> QED BY <1>1, <1>2, <1>3, <1>4, <1>5

\* One permit obtained: no permit type appears or disappears, and no permit is lost.
PermitObtained(permits, after) ==
    \E p \in permits, q \in PermitRequirement :
        /\ q.type = p.type /\ q.required = p.required /\ q.obtained
        /\ after = (permits \ {p}) \cup {q}

LEMMA PermitEdit ==
    ASSUME NEW p \in PermitRequirement
    PROVE  LET q == [p EXCEPT !.obtained = TRUE]
           IN q \in PermitRequirement /\ q.type = p.type /\ q.required = p.required /\ q.obtained
BY DEF PermitRequirement

LEMMA ObtainedPermit ==
    ASSUME NEW permits, NEW after, PermitObtained(permits, after)
    PROVE  /\ {r.type : r \in after} = {r.type : r \in permits}
           /\ OpenPermits(after) \subseteq OpenPermits(permits)
           /\ \A t : HasObtained(permits, t) => HasObtained(after, t)
<1> PICK p \in permits, q \in PermitRequirement :
        /\ q.type = p.type /\ q.required = p.required /\ q.obtained
        /\ after = (permits \ {p}) \cup {q}
  BY DEF PermitObtained
<1>1. {r.type : r \in after} = {r.type : r \in permits}
  OBVIOUS
<1>2. OpenPermits(after) \subseteq OpenPermits(permits)
  BY DEF OpenPermits
<1>3. \A t : HasObtained(permits, t) => HasObtained(after, t)
  BY DEF HasObtained
<1> QED BY <1>1, <1>2, <1>3

\* The general engine: with the same permit types, fewer open permits and more
\* accreditations there are no other blockers.
LEMMA GeneralBlockersShrink ==
    ASSUME NEW job, NEW j,
           j.type = job.type, j.skills = job.skills, j.gas = job.gas, j.known = job.known,
           {r.type : r \in j.permits} = {r.type : r \in job.permits},
           OpenPermits(j.permits) \subseteq OpenPermits(job.permits),
           job.held \subseteq j.held
    PROVE  Blockers(j) \subseteq Blockers(job)
<1>1. \A r \in j.permits : \E o \in job.permits : o.type = r.type
  OBVIOUS
<1>2. SafetyBlockers(j) \subseteq SafetyBlockers(job)
  <2>1. UNION {SafetyWord(p.type) : p \in j.permits} \subseteq UNION {SafetyWord(p.type) : p \in job.permits}
    BY <1>1
  <2> QED BY <2>1 DEF SafetyBlockers
<1>3. RequiredAccreditations(j) \subseteq RequiredAccreditations(job)
  BY <1>1 DEF RequiredAccreditations
<1>4. MissingAccreditations(RequiredAccreditations(j), j.held)
          \subseteq MissingAccreditations(RequiredAccreditations(job), job.held)
  BY <1>3 DEF MissingAccreditations
<1> QED BY <1>2, <1>4 DEF Blockers

\* The engine for distribution work, likewise.
LEMMA SpenBlockersShrink ==
    ASSUME NEW job, NEW j,
           j.category = job.category, j.crew = job.crew, j.gates = job.gates,
           j.design = job.design, j.materials = job.materials,
           job.confirmed => j.confirmed, job.traffic => j.traffic,
           OpenPermits(j.permits) \subseteq OpenPermits(job.permits),
           \A t : HasObtained(job.permits, t) => HasObtained(j.permits, t),
           job.held \subseteq j.held
    PROVE  SpenBlockers(j) \subseteq SpenBlockers(job)
<1>1. MissingAccreditations(AccreditationsFor(j.category), j.held)
          \subseteq MissingAccreditations(AccreditationsFor(job.category), job.held)
  BY DEF MissingAccreditations
<1>2. CrewCheck(j) = CrewCheck(job)
  BY DEF CrewCheck
<1>3. PermitCheck(j) \subseteq PermitCheck(job)
  BY DEF PermitCheck, When
<1>4. DesignApprovalCheck(j) = DesignApprovalCheck(job) /\ MaterialsCheck(j) = MaterialsCheck(job)
  BY DEF DesignApprovalCheck, MaterialsCheck
<1>5. CustomerNotificationCheck(j) \subseteq CustomerNotificationCheck(job)
  BY DEF CustomerNotificationCheck, When
<1>6. TrafficManagementCheck(j) \subseteq TrafficManagementCheck(job)
  BY DEF TrafficManagementCheck, When
<1> QED BY <1>1, <1>2, <1>3, <1>4, <1>5, <1>6 DEF SpenBlockers

\* A job eased by one accreditation or one permit keeps its other fields.
LEMMA EasedGeneral ==
    ASSUME NEW job \in GeneralJob, NEW j \in Eased(job)
    PROVE  Blockers(j) \subseteq Blockers(job)
<1>1. CASE \E a : j = [job EXCEPT !.held = @ \cup {a}]
  <2>1. PICK a : j = [job EXCEPT !.held = @ \cup {a}]
    BY <1>1
  <2>2. /\ j.type = job.type /\ j.skills = job.skills /\ j.gas = job.gas /\ j.known = job.known
        /\ j.permits = job.permits /\ job.held \subseteq j.held
    BY <2>1 DEF GeneralJob
  <2> QED BY <2>2, GeneralBlockersShrink
<1>2. CASE \E p \in job.permits :
              j = [job EXCEPT !.permits = (@ \ {p}) \cup {[p EXCEPT !.obtained = TRUE]}]
  <2>1. PICK p \in job.permits :
              j = [job EXCEPT !.permits = (@ \ {p}) \cup {[p EXCEPT !.obtained = TRUE]}]
    BY <1>2
  <2>2. /\ j.type = job.type /\ j.skills = job.skills /\ j.gas = job.gas /\ j.known = job.known
        /\ job.held = j.held /\ job.permits \in SUBSET PermitRequirement
        /\ j.permits = (job.permits \ {p}) \cup {[p EXCEPT !.obtained = TRUE]}
    BY <2>1 DEF GeneralJob
  <2>3. /\ {r.type : r \in j.permits} = {r.type : r \in job.permits}
        /\ OpenPermits(j.permits) \subseteq OpenPermits(job.permits)
    <3>1. PermitObtained(job.permits, j.permits)
      BY <2>1, <2>2, PermitEdit DEF PermitObtained
    <3> QED BY <3>1, ObtainedPermit
  <2> QED BY <2>2, <2>3, GeneralBlockersShrink
<1> QED BY <1>1, <1>2 DEF Eased

LEMMA EasedSpen ==
    ASSUME NEW job \in SpenJob,
           NEW j \in Eased(job) \cup {[job EXCEPT !.traffic = TRUE], [job EXCEPT !.confirmed = TRUE]}
    PROVE  SpenBlockers(j) \subseteq SpenBlockers(job)
<1>1. CASE \E a : j = [job EXCEPT !.held = @ \cup {a}]
  <2>1. PICK a : j = [job EXCEPT !.held = @ \cup {a}]
    BY <1>1
  <2>2. /\ j.category = job.category /\ j.crew = job.crew /\ j.gates = job.gates
        /\ j.design = job.design /\ j.materials = job.materials /\ j.confirmed = job.confirmed
        /\ j.traffic = job.traffic /\ j.permits = job.permits /\ job.held \subseteq j.held
    BY <2>1 DEF SpenJob
  <2> QED BY <2>2, SpenBlockersShrink
<1>2. CASE \E p \in job.permits :
              j = [job EXCEPT !.permits = (@ \ {p}) \cup {[p EXCEPT !.obtained = TRUE]}]
  <2>1. PICK p \in job.permits :
              j = [job EXCEPT !.permits = (@ \ {p}) \cup {[p EXCEPT !.obtained = TRUE]}]
    BY <1>2
  <2>2. /\ j.category = job.category /\ j.crew = job.crew /\ j.gates = job.gates
        /\ j.design = job.design /\ j.materials = job.materials /\ j.confirmed = job.confirmed
        /\ j.traffic = job.traffic /\ job.held = j.held /\ job.permits \in SUBSET PermitRequirement
        /\ j.permits = (job.permits \ {p}) \cup {[p EXCEPT !.obtained = TRUE]}
    BY <2>1 DEF SpenJob
  <2>3. /\ OpenPermits(j.permits) \subseteq OpenPermits(job.permits)
        /\ \A t : HasObtained(job.permits, t) => HasObtained(j.permits, t)
    <3>1. PermitObtained(job.permits, j.permits)
      BY <2>1, <2>2, PermitEdit DEF PermitObtained
    <3> QED BY <3>1, ObtainedPermit
  <2> QED BY <2>2, <2>3, SpenBlockersShrink
<1>3. CASE j \in {[job EXCEPT !.traffic = TRUE], [job EXCEPT !.confirmed = TRUE]}
  <2>1. /\ j.category = job.category /\ j.crew = job.crew /\ j.gates = job.gates
        /\ j.design = job.design /\ j.materials = job.materials
        /\ job.confirmed => j.confirmed
        /\ job.traffic => j.traffic
        /\ j.permits = job.permits /\ job.held = j.held
    BY <1>3 DEF SpenJob
  <2> QED BY <2>1, SpenBlockersShrink
<1> QED BY <1>1, <1>2, <1>3 DEF Eased

\* Nothing that only depends on the request is changed by a step.
LEMMA RequestInv == Spec => [](request \in Requests)
<1>1. Init => request \in Requests
  BY DEF Init
<1>2. request \in Requests /\ [Next]_vars => (request \in Requests)'
  BY DEF Next, vars, CreateCase, Load, Compile, Decide, Explain, Validate, Complete, Fail,
         Respond, Commit, Abort
<1> QED BY <1>1, <1>2, PTL DEF Spec

(***************************************************************************)
(* One more accreditation, one more permit obtained, a traffic plan or a   *)
(* confirmation never makes a job less ready, for every job, any number of *)
(* permits and gates, and both readiness engines.                          *)
(***************************************************************************)
THEOREM EasingNeverHurts == Spec => []ReadinessMonotone
<1>1. request \in Requests => ReadinessMonotone
  <2> SUFFICES ASSUME request \in Requests PROVE ReadinessMonotone
    OBVIOUS
  <2>1. CASE request.kind = "work_order_readiness"
    <3>1. request.job \in GeneralJob
      BY <2>1, RequestsAssumption DEF WorkflowRequest
    <3> QED BY <2>1, <3>1, EasedGeneral, FewerBlockers DEF ReadinessMonotone
  <2>2. CASE request.kind = "spen_readiness"
    <3>1. request.job \in SpenJob
      BY <2>2, RequestsAssumption DEF WorkflowRequest
    <3> QED BY <2>2, <3>1, EasedSpen, FewerBlockers DEF ReadinessMonotone
  <2> QED BY <2>1, <2>2 DEF ReadinessMonotone
<1> QED BY RequestInv, <1>1, PTL

-----------------------------------------------------------------------------
(* Escalation: the level each engine chooses, as a table.                  *)

LEMMA Levels ==
    /\ LevelOrder("none") = 0 /\ LevelOrder("l1") = 1 /\ LevelOrder("l2") = 2
    /\ LevelOrder("l3") = 3 /\ LevelOrder("management") = 4
BY DEF LevelOrder

SeveralCritical(inc) == Cardinality(ServicesOf(inc) \cap CriticalServices) >= 2

\* What the six rules of the general engine amount to.
GeneralLevel(severity, critical, outage, breached, repeated) ==
    IF critical \/ (severity = "p2" /\ breached) THEN "management"
    ELSE IF outage THEN "l3"
    ELSE IF severity = "p1" THEN IF breached THEN "management" ELSE "l3"
    ELSE IF severity = "p2" THEN "l2"
    ELSE IF breached THEN "l3"
    ELSE IF repeated THEN "l2" ELSE "none"

LEMMA EscalationTable ==
    ASSUME NEW inc \in ParsedIncident, NEW service, NEW breached \in BOOLEAN, NEW repeat \in {0, 3}
    PROVE  Escalation(inc, service, breached, repeat)
               = GeneralLevel(inc.severity, SeveralCritical(inc), service = "outage", breached,
                              repeat = 3)
<1> DEFINE l1 == BySeverity(inc)
           l2 == IF breached THEN BySlaBreach(l1) ELSE l1
           l3 == IF repeat >= 3 THEN AtLeast(l2, "l2") ELSE l2
           l4 == IF service = "outage" THEN "l3" ELSE l3
           l5 == IF SeveralCritical(inc) THEN "management" ELSE l4
<1>1. Escalation(inc, service, breached, repeat)
          = IF inc.severity = "p2" /\ breached THEN "management" ELSE l5
  BY DEF Escalation, SeveralCritical
<1>2. inc.severity \in {"p1", "p2", "p3", "p4"}
  BY DEF ParsedIncident, Severities
<1>3. l1 = IF inc.severity = "p1" THEN "l3" ELSE IF inc.severity = "p2" THEN "l2" ELSE "none"
  BY <1>2 DEF BySeverity, NoLevel
<1>4. l2 = IF breached THEN IF inc.severity = "p1" THEN "management" ELSE "l3" ELSE l1
  BY <1>2, <1>3 DEF BySlaBreach
<1>5. l3 = IF l2 = "none" /\ repeat = 3 THEN "l2" ELSE l2
  <2>1. l2 \in {"none", "l2", "l3", "management"}
    BY <1>2, <1>3, <1>4
  <2> HIDE DEF l2
  <2> QED BY <2>1, Levels DEF AtLeast
<1> HIDE DEF l1, l2, l3
<1> QED BY <1>1, <1>2, <1>3, <1>4, <1>5 DEF GeneralLevel

\* The table is monotone, but for an outage whose SLA is breached.
LEMMA GeneralMonotone ==
    ASSUME NEW s \in Severities, NEW c \in BOOLEAN, NEW o \in BOOLEAN, NEW b \in BOOLEAN,
           NEW r \in BOOLEAN
    PROVE  LET order(t, e, f) == LevelOrder(GeneralLevel(t, c, o, e, f))
           IN /\ order(s, b, r) >= LevelOrder(MinimumLevel(s))
              /\ order(s, b, r) >= order(s, FALSE, FALSE)
              /\ order(Graver(s), b, r) >= order(s, b, r) \/ (b /\ o)
<1>1. s \in {"p1", "p2", "p3", "p4"}
  BY DEF Severities
<1>2. /\ s = "p1" => Graver(s) = "p1" /\ MinimumLevel(s) = "l3"
      /\ s = "p2" => Graver(s) = "p1" /\ MinimumLevel(s) = "l2"
      /\ s = "p3" => Graver(s) = "p2" /\ MinimumLevel(s) = "none"
      /\ s = "p4" => Graver(s) = "p3" /\ MinimumLevel(s) = "none"
  BY DEF Graver, MinimumLevel, NoLevel
<1>3. CASE s = "p1"
  BY <1>2, <1>3, Levels DEF GeneralLevel
<1>4. CASE s = "p2"
  BY <1>2, <1>4, Levels DEF GeneralLevel
<1>5. CASE s = "p3"
  BY <1>2, <1>5, Levels DEF GeneralLevel
<1>6. CASE s = "p4"
  BY <1>2, <1>6, Levels DEF GeneralLevel
<1> QED BY <1>1, <1>3, <1>4, <1>5, <1>6

LEMMA GraverIncident ==
    ASSUME NEW inc \in ParsedIncident, NEW g, g = [inc EXCEPT !.severity = Graver(@)]
    PROVE  /\ g \in ParsedIncident /\ g.severity = Graver(inc.severity)
           /\ g.services = inc.services /\ g.tags = inc.tags /\ g.timeline = inc.timeline
<1>1. Graver(inc.severity) \in Severities
  BY DEF Graver, Severities
<1> QED BY <1>1 DEF ParsedIncident

\* What the Vodafone engine amounts to: p1 and p2 ask for a bridge call, and so
\* count as outages.
SeverityLevel(severity, resolution) ==
    IF severity \in {"p1", "p2"} THEN "l3"
    ELSE IF severity = "p4" THEN "none" ELSE IF resolution = "warning" THEN "l2" ELSE "l1"
TriageLevel(severity, resolution, domain, repeat) ==
    LET level == IF domain \in CriticalDomains THEN Elevated(SeverityLevel(severity, resolution))
                 ELSE SeverityLevel(severity, resolution)
        sla == IF resolution = "breached" THEN "management" ELSE level
    IN IF repeat >= 3 THEN AtLeast(sla, "l3") ELSE sla

LEMMA Elevation ==
    /\ Elevated("none") = "none" /\ Elevated("l1") = "l2" /\ Elevated("l2") = "l3"
    /\ Elevated("l3") = "management"
BY DEF Elevated

LEMMA TriageTable ==
    \A inc \in ParsedIncident : \A elapsed, domain, repeat :
        VodafoneLevel(inc, SlaStatus(inc, elapsed), domain, repeat)
            = TriageLevel(inc.severity, SlaStatus(inc, elapsed).resolution, domain, repeat)
<1> SUFFICES ASSUME NEW inc \in ParsedIncident, NEW elapsed, NEW domain, NEW repeat
             PROVE  VodafoneLevel(inc, SlaStatus(inc, elapsed), domain, repeat)
                        = TriageLevel(inc.severity, SlaStatus(inc, elapsed).resolution, domain, repeat)
  OBVIOUS
<1>1. inc.severity \in {"p1", "p2", "p3", "p4"}
  BY DEF ParsedIncident, Severities
<1>2. inc.severity \in {"p1", "p2"} => SlaStatus(inc, elapsed).bridge
  BY DEF SlaStatus, Sla
<1>3. VodafoneBySeverity(inc, SlaStatus(inc, elapsed))
          = SeverityLevel(inc.severity, SlaStatus(inc, elapsed).resolution)
  <2>1. PICK sla : sla = SlaStatus(inc, elapsed)
    OBVIOUS
  <2> QED BY <1>1, <1>2, <2>1 DEF VodafoneBySeverity, SeverityLevel, IsOutage, NoLevel
<1> QED BY <1>3 DEF VodafoneLevel, TriageLevel

\* A graver incident is in no better state against its SLA.
LEMMA GraverSla ==
    ASSUME NEW inc \in ParsedIncident, NEW g \in ParsedIncident,
           g.severity = Graver(inc.severity), NEW elapsed \in Nat
    PROVE  LET r == SlaStatus(inc, elapsed).resolution
               h == SlaStatus(g, elapsed).resolution
           IN /\ r \in {"within", "warning", "breached"} /\ h \in {"within", "warning", "breached"}
              /\ r = "breached" => h = "breached"
<1>1. inc.severity \in {"p1", "p2", "p3", "p4"}
  BY DEF ParsedIncident, Severities
<1>2. /\ Sla["p1"].resolution = 240 /\ Sla["p2"].resolution = 480
      /\ Sla["p3"].resolution = 1440 /\ Sla["p4"].resolution = 7200
  BY DEF Sla
<1>3. PICK m \in Nat, n \in Nat :
          m = Sla[inc.severity].resolution /\ n = Sla[g.severity].resolution /\ n <= m
  BY <1>1, <1>2 DEF Graver
<1>4. /\ SlaStatus(inc, elapsed).resolution = ThresholdStatus(elapsed, m)
      /\ SlaStatus(g, elapsed).resolution = ThresholdStatus(elapsed, n)
  BY <1>3 DEF SlaStatus
<1>5. \A l \in Nat : /\ ThresholdStatus(elapsed, l) \in {"within", "warning", "breached"}
                     /\ ThresholdStatus(elapsed, l) = "breached" <=> elapsed >= l
  BY DEF ThresholdStatus
<1> QED BY <1>3, <1>4, <1>5

\* The levels that reach AtLeast, and what it does to them.
LEMMA AtLeastL3 ==
    ASSUME NEW level \in {"none", "l1", "l2", "l3", "management"}
    PROVE  AtLeast(level, "l3") = IF level = "management" THEN "management" ELSE "l3"
BY Levels DEF AtLeast

\* The elapsed time is a number of minutes.
LEMMA EstimatedMinutes == \A t \in Nat : MinutesPerEntry * t \in Nat
BY DEF MinutesPerEntry

\* The rank of each level of the table.
TriageRank(severity, resolution, domain, repeat) ==
    IF resolution = "breached" THEN 4
    ELSE IF severity \in {"p1", "p2"} THEN IF domain \in CriticalDomains THEN 4 ELSE 3
    ELSE IF repeat >= 3 THEN 3
    ELSE IF severity = "p4" THEN 0
    ELSE IF resolution = "warning" THEN IF domain \in CriticalDomains THEN 3 ELSE 2
    ELSE IF domain \in CriticalDomains THEN 2 ELSE 1

LEMMA TriageRanks ==
    ASSUME NEW t \in Severities, NEW q \in {"within", "warning", "breached"}, NEW d, NEW n
    PROVE  LevelOrder(TriageLevel(t, q, d, n)) = TriageRank(t, q, d, n)
<1>1. TriageLevel(t, q, d, n) =
        IF q = "breached" THEN "management"
        ELSE IF t \in {"p1", "p2"} THEN IF d \in CriticalDomains THEN "management" ELSE "l3"
        ELSE IF n >= 3 THEN "l3"
        ELSE IF t = "p4" THEN "none"
        ELSE IF q = "warning" THEN IF d \in CriticalDomains THEN "l3" ELSE "l2"
        ELSE IF d \in CriticalDomains THEN "l2" ELSE "l1"
  BY AtLeastL3, Elevation DEF TriageLevel, SeverityLevel, Severities
<1> QED BY <1>1, Levels DEF TriageRank

\* The table of the Vodafone engine is monotone.
LEMMA TriageMonotone ==
    ASSUME NEW s \in Severities, NEW r \in {"within", "warning", "breached"},
           NEW h \in {"within", "warning", "breached"}, r = "breached" => h = "breached",
           NEW d, NEW n \in {0, 3}
    PROVE  /\ LevelOrder(TriageLevel(s, r, d, n)) >= LevelOrder(MinimumLevel(s))
           /\ LevelOrder(TriageLevel(s, r, d, n)) >= LevelOrder(TriageLevel(s, r, "", 0))
           /\ LevelOrder(TriageLevel(Graver(s), h, d, n)) >= LevelOrder(TriageLevel(s, r, d, n))
<1>1. s \in {"p1", "p2", "p3", "p4"}
  BY DEF Severities
<1>2. /\ s = "p1" => Graver(s) = "p1" /\ MinimumLevel(s) = "l3"
      /\ s = "p2" => Graver(s) = "p1" /\ MinimumLevel(s) = "l2"
      /\ s = "p3" => Graver(s) = "p2" /\ MinimumLevel(s) = "none"
      /\ s = "p4" => Graver(s) = "p3" /\ MinimumLevel(s) = "none"
  BY DEF Graver, MinimumLevel, NoLevel
<1>3. Graver(s) \in Severities
  BY DEF Graver, Severities
<1>4. /\ LevelOrder(TriageLevel(s, r, d, n)) = TriageRank(s, r, d, n)
      /\ LevelOrder(TriageLevel(s, r, "", 0)) = TriageRank(s, r, "", 0)
      /\ LevelOrder(TriageLevel(Graver(s), h, d, n)) = TriageRank(Graver(s), h, d, n)
  <2>1. LevelOrder(TriageLevel(s, r, d, n)) = TriageRank(s, r, d, n)
    BY TriageRanks
  <2>2. \A z : LevelOrder(TriageLevel(s, r, z, 0)) = TriageRank(s, r, z, 0)
    BY TriageRanks
  <2>3. LevelOrder(TriageLevel(Graver(s), h, d, n)) = TriageRank(Graver(s), h, d, n)
    BY <1>3, TriageRanks
  <2> QED BY <2>1, <2>2, <2>3
<1>5. TriageRank(s, r, d, n) >= LevelOrder(MinimumLevel(s))
  BY <1>1, <1>2, Levels DEF TriageRank
<1>6. TriageRank(s, r, d, n) >= TriageRank(s, r, "", 0)
  <2>1. \A z : z \notin CriticalDomains => TriageRank(s, r, d, n) >= TriageRank(s, r, z, 0)
    BY <1>1 DEF TriageRank
  <2>2. "" \notin CriticalDomains
    BY DEF CriticalDomains
  <2> QED BY <2>1, <2>2
<1>7. TriageRank(Graver(s), h, d, n) >= TriageRank(s, r, d, n)
  BY <1>1, <1>2 DEF TriageRank
<1> QED BY <1>4, <1>5, <1>6, <1>7

(***************************************************************************)
(* A graver severity, a breached SLA or a repeated incident never lowers   *)
(* the level of escalation of either engine, and no level is below the     *)
(* validator's floor, for every incident; the one exception is the general *)
(* engine's rule for an outage whose SLA is breached.                      *)
(***************************************************************************)
THEOREM GraverNeverLower == Spec => []EscalationMonotone
<1>1. request \in Requests => EscalationMonotone
  <2> SUFFICES ASSUME request \in Requests PROVE EscalationMonotone
    OBVIOUS
  <2>1. CASE request.kind = "incident_dispatch"
    <3> DEFINE level(inc, b, n) == LevelOrder(Escalation(inc, request.service, b, n))
    <3> SUFFICES ASSUME NEW b \in BOOLEAN, NEW n \in {0, 3}
                 PROVE  /\ level(request.inc, b, n) >= LevelOrder(MinimumLevel(request.inc.severity))
                        /\ level(request.inc, b, n) >= level(request.inc, FALSE, 0)
                        /\ \/ level([request.inc EXCEPT !.severity = Graver(@)], b, n)
                                  >= level(request.inc, b, n)
                           \/ b /\ request.service = "outage"
      BY <2>1 DEF EscalationMonotone
    <3>1. request.inc \in ParsedIncident
      BY <2>1, RequestsAssumption DEF WorkflowRequest
    <3>2. PICK g : g = [request.inc EXCEPT !.severity = Graver(@)]
      OBVIOUS
    <3>3. /\ g \in ParsedIncident /\ g.severity = Graver(request.inc.severity)
          /\ SeveralCritical(g) = SeveralCritical(request.inc)
      BY <3>1, <3>2, GraverIncident DEF SeveralCritical, ServicesOf
    <3>4. PICK s \in Severities, c \in BOOLEAN, o \in BOOLEAN, r \in BOOLEAN :
            /\ s = request.inc.severity /\ (c <=> SeveralCritical(request.inc))
            /\ (o <=> request.service = "outage") /\ (r <=> n = 3)
      BY <3>1 DEF ParsedIncident, SeveralCritical
    <3>a. \A t, f :
            /\ GeneralLevel(t, SeveralCritical(request.inc), request.service = "outage", f, n = 3)
                   = GeneralLevel(t, c, o, f, r)
            /\ GeneralLevel(t, SeveralCritical(request.inc), request.service = "outage", f, 0 = 3)
                   = GeneralLevel(t, c, o, f, FALSE)
      BY <3>4 DEF GeneralLevel
    <3>b. \A inc \in ParsedIncident, f \in BOOLEAN, k \in {0, 3} :
            Escalation(inc, request.service, f, k)
                = GeneralLevel(inc.severity, SeveralCritical(inc), request.service = "outage", f, k = 3)
      BY EscalationTable
    <3>5. /\ level(request.inc, b, n) = LevelOrder(GeneralLevel(s, c, o, b, r))
          /\ level(request.inc, FALSE, 0) = LevelOrder(GeneralLevel(s, c, o, FALSE, FALSE))
          /\ level(g, b, n) = LevelOrder(GeneralLevel(Graver(s), c, o, b, r))
      <4>1. level(request.inc, b, n) = LevelOrder(GeneralLevel(s, c, o, b, r))
        BY <3>1, <3>4, <3>a, <3>b
      <4>2. level(request.inc, FALSE, 0) = LevelOrder(GeneralLevel(s, c, o, FALSE, FALSE))
        BY <3>1, <3>4, <3>a, <3>b
      <4>3. level(g, b, n) = LevelOrder(GeneralLevel(Graver(s), c, o, b, r))
        BY <3>1, <3>3, <3>4, <3>a, <3>b
      <4> QED BY <4>1, <4>2, <4>3
    <3>6. /\ LevelOrder(GeneralLevel(s, c, o, b, r)) >= LevelOrder(MinimumLevel(s))
          /\ LevelOrder(GeneralLevel(s, c, o, b, r)) >= LevelOrder(GeneralLevel(s, c, o, FALSE, FALSE))
          /\ \/ LevelOrder(GeneralLevel(Graver(s), c, o, b, r))
                    >= LevelOrder(GeneralLevel(s, c, o, b, r))
             \/ b /\ o
      BY GeneralMonotone
    <3> HIDE DEF level
    <3> QED BY <3>2, <3>4, <3>5, <3>6
  <2>2. CASE request.kind = "vodafone_incident_triage"
    <3> DEFINE level(inc, n, d) ==
                 LevelOrder(VodafoneLevel(inc, SlaStatus(inc, MinutesPerEntry * inc.timeline), d, n))
    <3> SUFFICES ASSUME NEW n \in {0, 3}, NEW d \in {"", "core_network"}
                 PROVE  /\ level(request.inc, n, d) >= LevelOrder(MinimumLevel(request.inc.severity))
                        /\ level(request.inc, n, d) >= level(request.inc, 0, "")
                        /\ level([request.inc EXCEPT !.severity = Graver(@)], n, d)
                               >= level(request.inc, n, d)
      BY <2>2 DEF EscalationMonotone
    <3>1. request.inc \in ParsedIncident
      BY <2>2, RequestsAssumption DEF WorkflowRequest
    <3>2. PICK g : g = [request.inc EXCEPT !.severity = Graver(@)]
      OBVIOUS
    <3>3. /\ g \in ParsedIncident /\ g.severity = Graver(request.inc.severity)
          /\ g.timeline = request.inc.timeline
      BY <3>1, <3>2, GraverIncident
    <3>4. PICK e \in Nat : e = MinutesPerEntry * request.inc.timeline
      <4>1. request.inc.timeline \in Nat
        BY <3>1 DEF ParsedIncident
      <4> QED BY <4>1, EstimatedMinutes
    <3>5. PICK s \in Severities : s = request.inc.severity
      BY <3>1 DEF ParsedIncident
    <3>6. PICK r, h : r = SlaStatus(request.inc, e).resolution /\ h = SlaStatus(g, e).resolution
      OBVIOUS
    <3>7. /\ r \in {"within", "warning", "breached"} /\ h \in {"within", "warning", "breached"}
          /\ r = "breached" => h = "breached"
      BY <3>1, <3>3, <3>6, GraverSla
    <3>8. MinutesPerEntry * g.timeline = e
      BY <3>3, <3>4
    <3>9. /\ level(request.inc, n, d) = LevelOrder(TriageLevel(s, r, d, n))
          /\ level(request.inc, 0, "") = LevelOrder(TriageLevel(s, r, "", 0))
          /\ level(g, n, d) = LevelOrder(TriageLevel(Graver(s), h, d, n))
      <4>1. \A domain, repeat : VodafoneLevel(request.inc, SlaStatus(request.inc, e), domain, repeat)
                                    = TriageLevel(s, r, domain, repeat)
        BY <3>1, <3>5, <3>6, TriageTable
      <4>2. VodafoneLevel(g, SlaStatus(g, e), d, n) = TriageLevel(Graver(s), h, d, n)
        BY <3>3, <3>5, <3>6, TriageTable
      <4>3. level(request.inc, n, d) = LevelOrder(TriageLevel(s, r, d, n))
        BY <3>4, <4>1
      <4>4. level(request.inc, 0, "") = LevelOrder(TriageLevel(s, r, "", 0))
        BY <3>4, <4>1
      <4>5. level(g, n, d) = LevelOrder(TriageLevel(Graver(s), h, d, n))
        BY <3>8, <4>2
      <4> QED BY <4>3, <4>4, <4>5
    <3>10. /\ LevelOrder(TriageLevel(s, r, d, n)) >= LevelOrder(MinimumLevel(s))
           /\ LevelOrder(TriageLevel(s, r, d, n)) >= LevelOrder(TriageLevel(s, r, "", 0))
           /\ LevelOrder(TriageLevel(Graver(s), h, d, n)) >= LevelOrder(TriageLevel(s, r, d, n))
      BY <3>7, TriageMonotone
    <3> HIDE DEF level
    <3>11. level(request.inc, n, d) >= LevelOrder(MinimumLevel(request.inc.severity))
      BY <3>5, <3>9, <3>10
    <3>12. level(request.inc, n, d) >= level(request.inc, 0, "")
      BY <3>9, <3>10
    <3>13. level(g, n, d) >= level(request.inc, n, d)
      BY <3>9, <3>10
    <3> QED BY <3>2, <3>11, <3>12, <3>13
  <2> QED BY <2>1, <2>2 DEF EscalationMonotone
<1> QED BY RequestInv, <1>1, PTL

-----------------------------------------------------------------------------
(* The incident engines against the pack's validator.                      *)

\* The action the engine chooses, and what the validator finds in it.
LEMMA ActionsChecked ==
    ASSUME NEW inc \in ParsedIncident, NEW service, NEW runbook \in BOOLEAN,
           NEW action, action = NextAction(inc.state, service, runbook, inc.owned),
           NEW failures, failures = ActionFailures(inc, Proposed(action))
    PROVE  LET outage  == inc.state = "investigating" /\ service = "outage"
               follows == inc.state = "investigating" /\ runbook
           IN /\ "action_without_evidence" \in failures
              /\ "missing_owner_on_action" \in failures <=>
                    outage \/ follows \/ (inc.state = "new" /\ ~inc.owned)
              /\ "invalid_action_for_state" \in failures <=>
                    inc.state = "investigating" /\ ~outage /\ ~follows
              /\ "sla_breach_without_escalation" \in failures <=>
                    inc.tags \cap SlaTags /= {} /\ ~outage
<1>1. inc.state \in {"new", "acknowledged", "investigating", "resolved", "closed"}
  BY DEF ParsedIncident, IncidentStates
<1>2. inc.owned \in BOOLEAN
  BY DEF ParsedIncident
<1>3. /\ inc.state = "new" => action = IF inc.owned THEN "investigate" ELSE "assign_engineer"
      /\ inc.state = "acknowledged" => action = "investigate"
      /\ inc.state = "investigating" /\ service = "outage" => action = "escalate"
      /\ inc.state = "investigating" /\ service # "outage" =>
            action = IF runbook THEN "dispatch" ELSE "investigate"
      /\ inc.state = "resolved" => action = "close"
      /\ inc.state = "closed" => action = "reopen"
  BY DEF NextAction
<1>4. /\ ValidActions("new") = {"investigate", "assign_engineer", "escalate"}
      /\ ValidActions("acknowledged") = {"investigate", "dispatch", "escalate"}
      /\ ValidActions("investigating") = {"dispatch", "resolve", "escalate", "monitor"}
      /\ ValidActions("resolved") = {"close", "reopen", "monitor"}
      /\ ValidActions("closed") = {"reopen"}
  BY DEF ValidActions
<1>5. /\ "action_without_evidence" \in failures
      /\ "missing_owner_on_action" \in failures <=> action \in NeedOwner
      /\ "invalid_action_for_state" \in failures <=> action \notin ValidActions(inc.state)
      /\ "sla_breach_without_escalation" \in failures <=>
            inc.tags \cap SlaTags /= {} /\ action # "escalate"
  <2>1. PICK p : p = Proposed(action) /\ p.action = action /\ p.owned = FALSE /\ p.evidenced = FALSE
    BY DEF Proposed
  <2>2. failures =
          {f \in {"invalid_action_for_state"} : action \notin ValidActions(inc.state)}
          \cup {f \in {"missing_owner_on_action"} : action \in NeedOwner}
          \cup {f \in {"action_without_evidence"} : TRUE}
          \cup {f \in {"sla_breach_without_escalation"} :
                  inc.tags \cap SlaTags /= {} /\ action /= "escalate"}
    BY <2>1 DEF ActionFailures
  <2> QED BY <2>2
<1>6. action \in NeedOwner <=>
        \/ inc.state = "investigating" /\ (service = "outage" \/ runbook)
        \/ inc.state = "new" /\ ~inc.owned
  BY <1>1, <1>2, <1>3 DEF NeedOwner
<1>7. action \notin ValidActions(inc.state) <=>
        inc.state = "investigating" /\ service # "outage" /\ ~runbook
  BY <1>1, <1>2, <1>3, <1>4
<1>8. action = "escalate" <=> inc.state = "investigating" /\ service = "outage"
  BY <1>1, <1>2, <1>3
<1> QED BY <1>5, <1>6, <1>7, <1>8

\* Every level has an owner the validator knows, and reaches its floor.
LEMMA EscalationValid ==
    ASSUME NEW inc \in ParsedIncident, NEW service
    PROVE  LET level == Escalation(inc, service, FALSE, 0)
           IN EscalationFailures(inc, level, EscalationOwner(level)) /= {} <=>
                inc.state = "closed" /\ level /= NoLevel
<1> DEFINE level == Escalation(inc, service, FALSE, 0)
<1>1. PICK s \in Severities, c \in BOOLEAN, o \in BOOLEAN :
        s = inc.severity /\ (c <=> SeveralCritical(inc)) /\ (o <=> service = "outage")
  BY DEF ParsedIncident, SeveralCritical
<1>2. level = GeneralLevel(s, c, o, FALSE, FALSE)
  <2>1. level = GeneralLevel(inc.severity, SeveralCritical(inc), service = "outage", FALSE, 0 = 3)
    BY EscalationTable
  <2>2. 0 # 3
    OBVIOUS
  <2> HIDE DEF level
  <2> QED BY <1>1, <2>1, <2>2 DEF GeneralLevel
<1> HIDE DEF level
<1>3. level \in {"none", "l2", "l3", "management"}
  BY <1>2 DEF GeneralLevel
<1>4. level # NoLevel => EscalationOwner(level) \in KnownOwners
  BY <1>3 DEF EscalationOwner, KnownOwners, NoLevel
<1>5. LevelOrder(level) >= LevelOrder(MinimumLevel(inc.severity))
  BY <1>1, <1>2, GeneralMonotone
<1>6. LevelOrder(level) \in Nat /\ LevelOrder(MinimumLevel(inc.severity)) \in Nat
  BY DEF LevelOrder
<1>7. EscalationFailures(inc, level, EscalationOwner(level)) /= {} <=>
        inc.state = "closed" /\ level /= NoLevel
  BY <1>4, <1>5, <1>6 DEF EscalationFailures
<1> QED BY <1>7 DEF level

\* A reconciliation fails a check when it found something and recommends nothing.
LEMMA ChecksOfMismatches ==
    ASSUME NEW found
    PROVE  ReconciliationFailures(found) /= {} <=> found /= {} /\ Recommendations(found) = {}
<1>1. found = {} => ReconciliationStatus(found) = "aligned"
  BY DEF ReconciliationStatus
<1> QED BY <1>1 DEF ReconciliationFailures

\* A service's reconciliation without a recommendation found only that the incident
\* does not name the service.
LEMMA ServiceRecommendations ==
    ASSUME NEW inc, NEW service, NEW name, NEW impact,
           NEW found, found = ServiceMismatches(inc, service, name, impact)
    PROVE  ReconciliationFailures(found) /= {} <=>
                found = {Mismatch("affected_services", "error")}
<1>1. found \subseteq {Mismatch("impact_level", "warning"), Mismatch("affected_services", "error"),
                      Mismatch("resolution_state", "critical")}
  BY DEF ServiceMismatches
<1>2. /\ Mismatch("impact_level", "warning").field = "impact_level"
      /\ Mismatch("affected_services", "error").field = "affected_services"
      /\ Mismatch("resolution_state", "critical").field = "resolution_state"
  BY DEF Mismatch
<1> HIDE DEF Mismatch
<1>3. Recommendations(found) = {} <=>
        \A m \in found : m.field \notin {"state", "impact_level", "resolution_state"}
  BY DEF Recommendations
<1>4. Recommendations(found) = {} <=> found \subseteq {Mismatch("affected_services", "error")}
  BY <1>1, <1>2, <1>3
<1> QED BY <1>4, ChecksOfMismatches

\* A work order's, that its state is one the incident's state expects.
LEMMA OrderRecommendations ==
    ASSUME NEW inc, NEW order,
           NEW found, found = WorkOrderMismatches(inc, order)
    PROVE  ReconciliationFailures(found) /= {} <=>
                found /= {} /\ order.state \in ExpectedWorkOrderStates(inc.state)
<1>1. /\ found \subseteq {Mismatch("state", "error"), Mismatch("assigned_to", "warning"),
                         Mismatch("timeline", "warning"), Mismatch("resolution", "info")}
      /\ Mismatch("state", "error") \in found <=>
            order.state \notin ExpectedWorkOrderStates(inc.state)
  <2>1. /\ Mismatch("state", "error") # Mismatch("assigned_to", "warning")
        /\ Mismatch("state", "error") # Mismatch("timeline", "warning")
        /\ Mismatch("state", "error") # Mismatch("resolution", "info")
    BY DEF Mismatch
  <2> QED BY <2>1 DEF WorkOrderMismatches
<1>2. /\ Mismatch("state", "error").field = "state"
      /\ Mismatch("assigned_to", "warning").field = "assigned_to"
      /\ Mismatch("timeline", "warning").field = "timeline"
      /\ Mismatch("resolution", "info").field = "resolution"
  BY DEF Mismatch
<1>3. Recommendations(found) = {} <=>
        \A m \in found : m.field \notin {"state", "impact_level", "resolution_state"}
  BY DEF Recommendations
<1>4. Recommendations(found) = {} <=> Mismatch("state", "error") \notin found
  BY <1>1, <1>2, <1>3
<1> QED BY <1>1, <1>4, ChecksOfMismatches

(***************************************************************************)
(* What the pack's own typed validator finds in the answers of the         *)
(* incident engines, for every incident, service and work order.           *)
(***************************************************************************)
THEOREM AnswersAgainstValidation == Spec => []EnginesAgainstValidators
<1>1. request \in Requests => EnginesAgainstValidators
  <2> SUFFICES ASSUME request \in Requests, request.kind = "incident_dispatch"
               PROVE  EnginesAgainstValidators
    BY DEF EnginesAgainstValidators
  <2>1. request.inc \in ParsedIncident /\ request.runbook \in BOOLEAN
    BY RequestsAssumption DEF WorkflowRequest
  <2>2. PICK inc \in ParsedIncident, runbook \in BOOLEAN, service \in {request.service} :
          inc = request.inc /\ runbook = request.runbook /\ service = request.service
    BY <2>1
  <2>3. PICK d : d = Decision(request)
    OBVIOUS
  <2>4. /\ d.verdict = NextAction(inc.state, service, runbook, inc.owned)
        /\ d.level = Escalation(inc, service, FALSE, 0)
    BY <2>2, <2>3 DEF Decision
  <2>5. PICK failures : failures = ActionFailures(inc, Proposed(d.verdict))
    OBVIOUS
  <2>6. LET outage  == inc.state = "investigating" /\ service = "outage"
            follows == inc.state = "investigating" /\ runbook
        IN /\ "action_without_evidence" \in failures
           /\ "missing_owner_on_action" \in failures <=>
                 outage \/ follows \/ (inc.state = "new" /\ ~inc.owned)
           /\ "invalid_action_for_state" \in failures <=>
                 inc.state = "investigating" /\ ~outage /\ ~follows
           /\ "sla_breach_without_escalation" \in failures <=>
                 inc.tags \cap SlaTags /= {} /\ ~outage
    BY <2>4, <2>5, ActionsChecked
  <2>7. EscalationFailures(inc, d.level, EscalationOwner(d.level)) /= {} <=>
            inc.state = "closed" /\ d.level /= NoLevel
    BY <2>4, EscalationValid
  <2>8. \A name, impact :
            LET found == ServiceMismatches(inc, service, name, impact)
            IN ReconciliationFailures(found) /= {} <=>
                    found = {Mismatch("affected_services", "error")}
    BY ServiceRecommendations
  <2>9. \A order :
            LET found == WorkOrderMismatches(inc, order)
            IN ReconciliationFailures(found) /= {} <=>
                    found /= {} /\ order.state \in ExpectedWorkOrderStates(inc.state)
    BY OrderRecommendations
  <2> QED BY <2>2, <2>3, <2>5, <2>6, <2>7, <2>8, <2>9 DEF EnginesAgainstValidators
<1> QED BY RequestInv, <1>1, PTL

-----------------------------------------------------------------------------
(* The verdict of a margin diagnosis.                                      *)

\* Without a trigger a piece of work shows only the patterns that compare it
\* with an invoice: the others state the condition of a trigger, or ask for a
\* base rate, which a diagnosis does not have.
LEMMA UntriggeredPatterns ==
    ASSUME NEW w \in PieceOfWork, WorkTriggers(w) = {}, NEW x \in WorkPatterns(w, 0)
    PROVE  WorkPatterns(w, 0) \cap {"field_completion_not_billed", "reattendance_incorrectly_billed"} /= {}
<1>1. /\ ~Without(w, "abortive", "abortive_claimed")
      /\ ~Without(w, "permit_cost", "permit_recovered")
      /\ ~Without(w, "escalation_due", "escalation_applied")
      /\ ~Without(w, "variation", "variation_order")
  <2> DEFINE fired ==
               [unbilled_completed_work        |-> Without(w, "completed", "billed"),
                rate_below_contract            |-> Rated(w) /\ w.billed < w.contract,
                scope_creep_detected           |-> Without(w, "change_order_required", "change_order"),
                missing_daywork_sheet          |-> "completed" \in w.facts /\ Without(w, "daywork", "signed"),
                rate_escalation_missed         |-> Without(w, "escalation_due", "escalation_applied"),
                abortive_visit_not_claimed     |-> Without(w, "abortive", "abortive_claimed"),
                variation_work_no_change_order |-> Without(w, "variation", "variation_order"),
                permit_cost_not_recovered      |-> Without(w, "permit_cost", "permit_recovered")]
  <2>1. {c \in DOMAIN fired : fired[c]} = {}
    BY DEF WorkTriggers, Holding
  <2>2. /\ "abortive_visit_not_claimed" \in DOMAIN fired
        /\ "permit_cost_not_recovered" \in DOMAIN fired
        /\ "rate_escalation_missed" \in DOMAIN fired
        /\ "variation_work_no_change_order" \in DOMAIN fired
    OBVIOUS
  <2>3. /\ fired["abortive_visit_not_claimed"] = Without(w, "abortive", "abortive_claimed")
        /\ fired["permit_cost_not_recovered"] = Without(w, "permit_cost", "permit_recovered")
        /\ fired["rate_escalation_missed"] = Without(w, "escalation_due", "escalation_applied")
        /\ fired["variation_work_no_change_order"] = Without(w, "variation", "variation_order")
    OBVIOUS
  <2> HIDE DEF fired
  <2> QED BY <2>1, <2>2, <2>3
<1> DEFINE seen ==
             [field_completion_not_billed          |-> Without(w, "completed", "invoiced"),
              abortive_visit_not_claimed           |-> Without(w, "abortive", "abortive_claimed"),
              emergency_billed_at_base_rate        |-> /\ "emergency" \in w.facts
                                                       /\ w.billed > 0 /\ 0 > 0
                                                       /\ 200 * w.billed < 297 * 0,
              reattendance_incorrectly_billed      |-> {"provider_fault", "reattendance_billed"} \subseteq w.facts,
              permit_cost_not_recovered            |-> Without(w, "permit_cost", "permit_recovered"),
              rate_escalation_not_applied          |-> /\ Without(w, "escalation_due", "escalation_applied")
                                                       /\ "escalation_priced" \in w.facts
                                                       /\ w.contract > 0,
              variation_work_unbilled              |-> Without(w, "variation", "variation_order"),
              incomplete_evidence_prevents_billing |-> {"evidence_missing", "completed"} \subseteq w.facts]
<1>2. WorkPatterns(w, 0) = {c \in DOMAIN seen : seen[c]}
  BY DEF WorkPatterns, Holding
<1>3. "invoiced" \notin w.facts
  BY DEF PieceOfWork
<1>4. ~seen.abortive_visit_not_claimed /\ ~seen.emergency_billed_at_base_rate
      /\ ~seen.permit_cost_not_recovered /\ ~seen.rate_escalation_not_applied
      /\ ~seen.variation_work_unbilled
  BY <1>1
<1>5. seen.incomplete_evidence_prevents_billing => seen.field_completion_not_billed
  BY <1>3 DEF Without
<1>6. DOMAIN seen = {"field_completion_not_billed", "abortive_visit_not_claimed",
                     "emergency_billed_at_base_rate", "reattendance_incorrectly_billed",
                     "permit_cost_not_recovered", "rate_escalation_not_applied",
                     "variation_work_unbilled", "incomplete_evidence_prevents_billing"}
  OBVIOUS
<1> HIDE DEF seen
<1> QED BY <1>2, <1>4, <1>5, <1>6

\* The work order of the documents shows no pattern by itself.
LEMMA DocumentPatterns == \A w \in WorkDocument : WorkPatterns(w, 0) = {}
<1> SUFFICES ASSUME NEW w \in WorkDocument PROVE WorkPatterns(w, 0) = {}
  OBVIOUS
<1>1. w.facts \subseteq {"same_visit"} /\ w.billed = 0 /\ w.contract = 0
  BY DEF WorkDocument
<1> DEFINE seen ==
             [field_completion_not_billed          |-> Without(w, "completed", "invoiced"),
              abortive_visit_not_claimed           |-> Without(w, "abortive", "abortive_claimed"),
              emergency_billed_at_base_rate        |-> /\ "emergency" \in w.facts
                                                       /\ w.billed > 0 /\ 0 > 0
                                                       /\ 200 * w.billed < 297 * 0,
              reattendance_incorrectly_billed      |-> {"provider_fault", "reattendance_billed"} \subseteq w.facts,
              permit_cost_not_recovered            |-> Without(w, "permit_cost", "permit_recovered"),
              rate_escalation_not_applied          |-> /\ Without(w, "escalation_due", "escalation_applied")
                                                       /\ "escalation_priced" \in w.facts
                                                       /\ w.contract > 0,
              variation_work_unbilled              |-> Without(w, "variation", "variation_order"),
              incomplete_evidence_prevents_billing |-> {"evidence_missing", "completed"} \subseteq w.facts]
<1>2. WorkPatterns(w, 0) = {c \in DOMAIN seen : seen[c]}
  BY DEF WorkPatterns, Holding
<1>3. /\ ~seen.field_completion_not_billed /\ ~seen.abortive_visit_not_claimed
      /\ ~seen.emergency_billed_at_base_rate /\ ~seen.reattendance_incorrectly_billed
      /\ ~seen.permit_cost_not_recovered /\ ~seen.rate_escalation_not_applied
      /\ ~seen.variation_work_unbilled /\ ~seen.incomplete_evidence_prevents_billing
  BY <1>1 DEF Without
<1>4. DOMAIN seen = {"field_completion_not_billed", "abortive_visit_not_claimed",
                     "emergency_billed_at_base_rate", "reattendance_incorrectly_billed",
                     "permit_cost_not_recovered", "rate_escalation_not_applied",
                     "variation_work_unbilled", "incomplete_evidence_prevents_billing"}
  OBVIOUS
<1> HIDE DEF seen
<1> QED BY <1>2, <1>3, <1>4

\* The pieces of work a diagnosis reconciles: the work order's and the history's.
Orders == {<<>>} \cup {<<d>> : d \in WorkDocument}
HoldsAll(work, history) ==
    /\ \A i \in DOMAIN work :
        \/ work[i] \in WorkDocument
        \/ \E j \in DOMAIN history : work[i] = history[j]
    /\ \A j \in DOMAIN history : \E i \in DOMAIN work : work[i] = history[j]

LEMMA Reconciled ==
    \A orders \in Orders, history \in Seq(PieceOfWork) : HoldsAll(orders \o history, history)
<1> SUFFICES ASSUME NEW orders \in Orders, NEW history \in Seq(PieceOfWork)
             PROVE  HoldsAll(orders \o history, history)
  OBVIOUS
<1>1. CASE orders = <<>>
  <2>1. orders \o history = history
    BY <1>1
  <2> QED BY <2>1 DEF HoldsAll
<1>2. ASSUME NEW d \in WorkDocument, orders = <<d>>
      PROVE  HoldsAll(orders \o history, history)
  <2> DEFINE work == <<d>> \o history
  <2>1. Len(history) \in Nat /\ DOMAIN history = 1..Len(history)
    OBVIOUS
  <2>2. DOMAIN work = 1..(Len(history) + 1)
    BY <2>1
  <2>3. \A i \in 1..(Len(history) + 1) : work[i] = IF i = 1 THEN d ELSE history[i - 1]
    BY <2>1
  <2> HIDE DEF work
  <2>4. \A i \in DOMAIN work : i # 1 => i - 1 \in DOMAIN history /\ work[i] = history[i - 1]
    BY <2>1, <2>2, <2>3
  <2>5. \A j \in DOMAIN history : j + 1 \in DOMAIN work /\ work[j + 1] = history[j]
    BY <2>1, <2>2, <2>3
  <2>6. 1 \in DOMAIN work => work[1] = d
    BY <2>2, <2>3
  <2>7. HoldsAll(work, history)
    BY <2>4, <2>5, <2>6 DEF HoldsAll
  <2> QED BY <1>2, <2>7 DEF work
<1> QED BY <1>1, <1>2 DEF Orders

\* The verdict of a diagnosis, which sees neither a breach nor a conflict.
LEMMA DiagnosisVerdict ==
    ASSUME NEW r, NEW triggers, triggers = LeakageTriggers(r.history, FALSE),
           NEW patterns, patterns = Patterns(r.orders \o r.history, 0, FALSE)
    PROVE  /\ DiagnoseMargin(r).drivers = triggers
           /\ DiagnoseMargin(r).verdict = "billable" => patterns = {} /\ triggers = {}
           /\ DiagnoseMargin(r).verdict = "under_recovery" => patterns # {} \/ triggers # {}
           /\ DiagnoseMargin(r).verdict = "unknown" => triggers # {}
<1>1. BundleVerdict(patterns, {}, {}) # "penalty_risk"
  BY DEF BundleVerdict
<1>2. PICK bundle : bundle = BundleVerdict(patterns, {}, {})
  OBVIOUS
<1>3. DiagnoseMargin(r).drivers = triggers
      /\ DiagnoseMargin(r).verdict = MarginVerdict(triggers, patterns, {}, bundle)
  BY <1>2 DEF DiagnoseMargin
<1>4. CASE patterns # {}
  <2>1. MarginVerdict(triggers, patterns, {}, bundle) = "under_recovery"
    BY <1>1, <1>2, <1>4 DEF MarginVerdict
  <2> QED BY <1>3, <1>4, <2>1
<1>5. CASE patterns = {}
  <2>1. MarginVerdict(triggers, patterns, {}, bundle) =
            IF triggers = {} THEN "billable"
            ELSE IF "penalty_exposure_unmitigated" \in triggers THEN "penalty_risk"
            ELSE IF triggers \cap {"unbilled_completed_work", "rate_below_contract"} /= {}
                 THEN "under_recovery" ELSE "unknown"
    BY <1>1, <1>2, <1>5 DEF MarginVerdict
  <2> QED BY <1>3, <1>5, <2>1
<1> QED BY <1>4, <1>5

\* A request decides what its engine says, or gives the answer of a failure.
DecidedInv ==
    /\ request \in Requests
    /\ request.kind # "contract_compile" =>
        decision \in {Undecided, Decision(request), FailureAnswer(request.kind)}

LEMMA DecidedInit == Init => DecidedInv
BY DEF Init, DecidedInv

LEMMA DecidedStep == DecidedInv /\ [Next]_vars => DecidedInv'
<1> SUFFICES ASSUME DecidedInv, [Next]_vars PROVE DecidedInv'
  OBVIOUS
<1>1. CASE Decide
  BY <1>1 DEF Decide, DecidedInv
<1>2. CASE Complete
  BY <1>2 DEF Complete, DecidedInv
<1>3. CASE Fail
  BY <1>3 DEF Fail, DecidedInv
<1>4. CASE CreateCase \/ Load \/ Compile \/ Explain \/ Validate \/ Respond \/ Commit \/ Abort
  BY <1>4 DEF CreateCase, Load, Compile, Explain, Validate, Respond, Commit, Abort, DecidedInv
<1>5. CASE UNCHANGED vars
  BY <1>5 DEF vars, DecidedInv
<1> QED BY <1>1, <1>2, <1>3, <1>4, <1>5 DEF Next

(***************************************************************************)
(* Work is called billable only when neither leakage engine saw anything,  *)
(* and under-recovered without a driver only for what the cross-plane      *)
(* engine alone sees, for histories of any length and any facts.           *)
(***************************************************************************)
THEOREM MarginVerdictsSound == Spec => []MarginVerdictSound
<1>1. DecidedInv => MarginVerdictSound
  <2> SUFFICES ASSUME DecidedInv, request.kind = "margin_diagnosis", "drivers" \in DOMAIN decision
               PROVE  MarginVerdictSound
    BY DEF MarginVerdictSound
  <2>1. decision = DiagnoseMargin(request)
    <3>1. "drivers" \notin DOMAIN Undecided /\ "drivers" \notin DOMAIN FailureAnswer("margin_diagnosis")
      BY DEF Undecided, FailureAnswer
    <3>2. Decision(request) = DiagnoseMargin(request)
      BY DEF Decision
    <3> QED BY <3>1, <3>2 DEF DecidedInv
  <2>2. PICK history \in Seq(PieceOfWork), orders \in Orders :
          history = request.history /\ orders = request.orders
    BY RequestsAssumption DEF WorkflowRequest, DecidedInv, Orders
  <2>3. PICK triggers, work, patterns :
          /\ triggers = LeakageTriggers(history, FALSE)
          /\ work = orders \o history
          /\ patterns = Patterns(work, 0, FALSE)
    OBVIOUS
  <2>4. /\ decision.drivers = triggers
        /\ decision.verdict = "billable" => patterns = {} /\ triggers = {}
        /\ decision.verdict = "under_recovery" => patterns # {} \/ triggers # {}
        /\ decision.verdict = "unknown" => triggers # {}
    BY <2>1, <2>2, <2>3, DiagnosisVerdict
  <2>5. /\ \A i \in DOMAIN work :
              \/ work[i] \in WorkDocument
              \/ \E j \in DOMAIN history : work[i] = history[j]
        /\ \A j \in DOMAIN history : \E i \in DOMAIN work : work[i] = history[j]
    <3>1. HoldsAll(orders \o history, history)
      BY Reconciled
    <3>2. HoldsAll(work, history)
      BY <2>3, <3>1
    <3> QED BY <3>2 DEF HoldsAll
  <2>6. \A i \in DOMAIN work : WorkPatterns(work[i], 0) \subseteq patterns
    BY <2>3 DEF Patterns
  <2>7. \A j \in DOMAIN history : WorkTriggers(history[j]) \subseteq triggers
                                  /\ WorkPatterns(history[j], 0) \subseteq patterns
    <3> SUFFICES ASSUME NEW j \in DOMAIN history
                 PROVE  WorkTriggers(history[j]) \subseteq triggers
                        /\ WorkPatterns(history[j], 0) \subseteq patterns
      OBVIOUS
    <3>1. WorkTriggers(history[j]) \subseteq triggers
      BY <2>3 DEF LeakageTriggers
    <3>2. PICK i \in DOMAIN work : work[i] = history[j]
      BY <2>5
    <3> QED BY <2>6, <3>1, <3>2
  <2>8. DuplicateClaim(work) => patterns # {}
    BY <2>3 DEF Patterns
  <2>9. patterns # {} /\ triggers = {} =>
            \/ DuplicateClaim(work)
            \/ \E j \in DOMAIN history :
                WorkPatterns(history[j], 0) \cap
                    {"field_completion_not_billed", "reattendance_incorrectly_billed"} /= {}
    <3> SUFFICES ASSUME patterns # {}, triggers = {}, ~DuplicateClaim(work)
                 PROVE  \E j \in DOMAIN history :
                            WorkPatterns(history[j], 0) \cap
                                {"field_completion_not_billed", "reattendance_incorrectly_billed"} /= {}
      OBVIOUS
    <3>1. PICK i \in DOMAIN work : WorkPatterns(work[i], 0) # {}
      <4> DEFINE own == UNION {WorkPatterns(work[i], 0) : i \in DOMAIN work}
      <4>1. patterns = (own \cup (IF FALSE THEN {"sla_credit_not_deducted"} ELSE {}))
                         \cup (IF DuplicateClaim(work) THEN {"duplicate_claim_risk"} ELSE {})
        BY <2>3, Zenon DEF Patterns
      <4>2. own # {}
        <5> HIDE DEF own
        <5> QED BY <4>1
      <4> QED BY <4>2
    <3>2. PICK j \in DOMAIN history : work[i] = history[j]
      BY <2>5, <3>1, DocumentPatterns
    <3>3. history[j] \in PieceOfWork /\ WorkTriggers(history[j]) = {}
      BY <2>7
    <3> QED BY <3>1, <3>2, <3>3, UntriggeredPatterns
  <2>10. decision.verdict = "billable" =>
            /\ ~DuplicateClaim(work)
            /\ \A j \in DOMAIN history :
                 WorkTriggers(history[j]) = {} /\ WorkPatterns(history[j], 0) = {}
    BY <2>4, <2>7, <2>8
  <2>11. decision.verdict = "under_recovery" /\ decision.drivers = {} =>
            \/ DuplicateClaim(work)
            \/ \E j \in DOMAIN history :
                WorkPatterns(history[j], 0) \cap
                    {"field_completion_not_billed", "reattendance_incorrectly_billed"} /= {}
    BY <2>4, <2>9, Zenon
  <2>12. decision.verdict = "unknown" => decision.drivers /= {}
    BY <2>4, Zenon
  <2>13. history = request.history /\ work = request.orders \o request.history
    BY <2>2, <2>3, Zenon
  <2> HIDE DEF DuplicateClaim, WorkPatterns, WorkTriggers
  <2> QED BY <2>10, <2>11, <2>12, <2>13, Zenon DEF MarginVerdictSound
<1> QED BY DecidedInit, DecidedStep, <1>1, PTL DEF Spec

-----------------------------------------------------------------------------
(* What a visit may be billed.                                             *)

\* A set of numbers that is not empty has a first one.
LEMMA FirstExists ==
    ASSUME NEW s \in SUBSET Nat, s # {}
    PROVE  LET first == CHOOSE i \in s : \A j \in s : i <= j
           IN first \in s /\ \A j \in s : first <= j
<1>1. PICK i \in s : \A j \in s : <<j, i>> \notin OpToRel(<, Nat)
  BY NatLessThanWellFounded, WFMin
<1>2. \A m, n \in Nat : m < n => <<m, n>> \in OpToRel(<, Nat)
  BY Zenon DEF OpToRel
<1>3. \A j \in s : ~(j < i)
  BY <1>1, <1>2, Zenon
<1>4. \A j \in s : i <= j
  BY <1>3
<1> QED BY <1>4

\* BestMatch finds the first of the entries that fit closest, or 0.
LEMMA BestMatchIsClosest ==
    ASSUME NEW card \in Seq(RateCardEntry), NEW i, i = BestMatch(card), i # 0
    PROVE  /\ i \in DOMAIN card /\ Closeness(card[i]) > 0
           /\ \A j \in DOMAIN card :
                \/ Closeness(card[j]) < Closeness(card[i])
                \/ Closeness(card[j]) = Closeness(card[i]) /\ i <= j
<1> DEFINE fitting(kind) == {j \in DOMAIN card : card[j].match = kind}
           first(s) == CHOOSE j \in s : \A k \in s : j <= k
<1>1. ASSUME NEW kind, fitting(kind) # {}
      PROVE  /\ first(fitting(kind)) \in fitting(kind)
             /\ \A j \in fitting(kind) : first(fitting(kind)) <= j
  <2>1. fitting(kind) \in SUBSET Nat
    OBVIOUS
  <2> HIDE DEF fitting
  <2> QED BY <1>1, <2>1, FirstExists
<1>2. i = CASE fitting("exact") /= {} -> first(fitting("exact"))
            [] fitting("exact") = {} /\ fitting("fuzzy") /= {} -> first(fitting("fuzzy"))
            [] fitting("exact") = {} /\ fitting("fuzzy") = {} /\ fitting("category") /= {}
                 -> first(fitting("category"))
            [] OTHER -> 0
  BY DEF BestMatch
<1> HIDE DEF first
<1>3. PICK kind \in {"exact", "fuzzy", "category"} :
        /\ i \in fitting(kind) /\ \A j \in fitting(kind) : i <= j
        /\ kind \in {"fuzzy", "category"} => fitting("exact") = {}
        /\ kind = "category" => fitting("fuzzy") = {}
  <2> HIDE DEF fitting
  <2>1. CASE fitting("exact") # {}
    <3>1. i = first(fitting("exact"))
      BY <1>2, <2>1
    <3>2. i \in fitting("exact") /\ \A j \in fitting("exact") : i <= j
      BY <1>1, <2>1, <3>1
    <3> QED BY <3>2
  <2>2. CASE fitting("exact") = {} /\ fitting("fuzzy") # {}
    <3>1. i = first(fitting("fuzzy"))
      BY <1>2, <2>2
    <3>2. i \in fitting("fuzzy") /\ \A j \in fitting("fuzzy") : i <= j
      BY <1>1, <2>2, <3>1
    <3> QED BY <2>2, <3>2
  <2>3. CASE fitting("exact") = {} /\ fitting("fuzzy") = {}
    <3>1. fitting("category") # {} /\ i = first(fitting("category"))
      BY <1>2, <2>3
    <3>2. i \in fitting("category") /\ \A j \in fitting("category") : i <= j
      BY <1>1, <3>1
    <3> QED BY <2>3, <3>2
  <2> QED BY <2>1, <2>2, <2>3
<1>4. \A j \in DOMAIN card : card[j].match \in {"exact", "fuzzy", "category", "none"}
  <2> SUFFICES ASSUME NEW j \in DOMAIN card
               PROVE  card[j].match \in {"exact", "fuzzy", "category", "none"}
    OBVIOUS
  <2>1. card[j] \in RateCardEntry
    OBVIOUS
  <2> QED BY <2>1 DEF RateCardEntry
<1>5. \A j \in DOMAIN card :
        /\ card[j].match = "exact" => Closeness(card[j]) = 3
        /\ card[j].match = "fuzzy" => Closeness(card[j]) = 2
        /\ card[j].match = "category" => Closeness(card[j]) = 1
        /\ card[j].match = "none" => Closeness(card[j]) = 0
  BY DEF Closeness
<1>6. i \in DOMAIN card /\ card[i].match = kind
  BY <1>3
<1>7. ASSUME NEW j \in DOMAIN card
      PROVE  \/ Closeness(card[j]) < Closeness(card[i])
             \/ Closeness(card[j]) = Closeness(card[i]) /\ i <= j
  <2>1. CASE card[j].match = kind
    <3>1. j \in fitting(kind)
      BY <2>1
    <3> QED BY <1>3, <1>5, <1>6, <2>1, <3>1
  <2>2. CASE card[j].match # kind
    <3>1. /\ kind \in {"fuzzy", "category"} => card[j].match # "exact"
          /\ kind = "category" => card[j].match # "fuzzy"
      BY <1>3
    <3>2. Closeness(card[j]) < Closeness(card[i])
      BY <1>4, <1>5, <1>6, <2>2, <3>1
    <3> QED BY <3>2
  <2> QED BY <2>1, <2>2
<1>8. Closeness(card[i]) > 0
  BY <1>5, <1>6
<1> QED BY <1>6, <1>7, <1>8

\* Work is billable when it fails none of the rules.
LEMMA BillableSays ==
    ASSUME NEW card, NEW gates, NEW visit
    PROVE  LET i == BestMatch(card)
           IN SpenBillable(card, gates, visit) <=>
                /\ i # 0
                /\ \A g \in gates : g.satisfied
                /\ visit \in BillableTriggers \cup {FirstVisit}
                /\ card[i].approval /= NoThreshold /\ SpenRate(card, visit) > card[i].approval =>
                      \E g \in gates : g.type = "prior_approval" /\ g.satisfied
<1> DEFINE i == BestMatch(card)
           rate == SpenRate(card, visit)
           unapproved == IF i = 0 THEN FALSE
                         ELSE /\ card[i].approval /= NoThreshold
                              /\ rate > card[i].approval
                              /\ ~\E g \in gates : g.type = "prior_approval" /\ g.satisfied
           conditions == [has_matching_rate       |-> i = 0,
                          billing_gates_satisfied |-> \E g \in gates : ~g.satisfied,
                          reattendance_check      |-> visit \notin BillableTriggers \cup {FirstVisit},
                          approval_threshold      |-> unapproved]
<1>1. SpenFailures(card, gates, visit) = Holding(conditions)
  BY DEF SpenFailures
<1> HIDE DEF i, rate
<1>2. Holding(conditions) = {} <=>
        /\ ~(i = 0) /\ ~(\E g \in gates : ~g.satisfied)
        /\ ~(visit \notin BillableTriggers \cup {FirstVisit}) /\ ~unapproved
  <2>1. DOMAIN conditions = {"has_matching_rate", "billing_gates_satisfied",
                             "reattendance_check", "approval_threshold"}
    OBVIOUS
  <2>2. /\ conditions.has_matching_rate <=> i = 0
        /\ conditions.billing_gates_satisfied <=> \E g \in gates : ~g.satisfied
        /\ conditions.reattendance_check <=> visit \notin BillableTriggers \cup {FirstVisit}
        /\ conditions.approval_threshold <=> unapproved
    OBVIOUS
  <2> HIDE DEF conditions
  <2> QED BY <2>1, <2>2 DEF Holding
<1> QED BY <1>1, <1>2 DEF SpenBillable, i, rate

(***************************************************************************)
(* A visit is answered billable only at the price of the closest entry of  *)
(* the card, approved where it exceeds that entry's threshold, and one     *)
(* more satisfied gate leaves it billable.  For every card, every set of   *)
(* gates and every visit.                                                  *)
(***************************************************************************)
THEOREM BillableAtTheClosestRate == Spec => []BillingJustified
<1>1. DecidedInv => BillingJustified
  <2> SUFFICES ASSUME DecidedInv, request.kind = "spen_billability",
                      decision.verdict = "billable"
               PROVE  BillingJustified
    BY DEF BillingJustified
  <2>1. PICK card \in Seq(RateCardEntry), gates \in SUBSET BillingGate, visit \in {request.visit} :
          card = request.card /\ gates = request.gates /\ visit = request.visit
    BY RequestsAssumption DEF WorkflowRequest, DecidedInv
  <2>2. decision = Decision(request)
    <3>1. Undecided.verdict # "billable" /\ FailureAnswer("spen_billability").verdict # "billable"
      BY DEF Undecided, FailureAnswer
    <3> QED BY <3>1 DEF DecidedInv
  <2>3. /\ decision.rate = SpenRate(card, visit)
        /\ decision.verdict = IF SpenBillable(card, gates, visit) THEN "billable" ELSE "non_billable"
    BY <2>1, <2>2 DEF Decision
  <2>4. SpenBillable(card, gates, visit)
    BY <2>3
  <2>5. PICK i : i = BestMatch(card)
    OBVIOUS
  <2>6. /\ i # 0
        /\ \A g \in gates : g.satisfied
        /\ visit \in BillableTriggers \cup {FirstVisit}
        /\ card[i].approval /= NoThreshold /\ SpenRate(card, visit) > card[i].approval =>
              \E g \in gates : g.type = "prior_approval" /\ g.satisfied
    BY <2>4, <2>5, BillableSays
  <2>7. /\ i \in DOMAIN card /\ Closeness(card[i]) > 0
        /\ \A j \in DOMAIN card :
             \/ Closeness(card[j]) < Closeness(card[i])
             \/ Closeness(card[j]) = Closeness(card[i]) /\ i <= j
    BY <2>5, <2>6, BestMatchIsClosest
  <2>8. decision.rate = card[i].rate * card[i].multiplier
    <3>1. visit # "provider_fault"
      BY <2>6 DEF BillableTriggers, FirstVisit
    <3>2. SpenRate(card, visit) = card[i].rate * card[i].multiplier
      BY <2>5, <2>6, <3>1 DEF SpenRate
    <3> QED BY <2>3, <3>2
  <2>9. ASSUME card[i].approval /= NoThreshold, decision.rate > card[i].approval
        PROVE  [type |-> "prior_approval", satisfied |-> TRUE] \in gates
    <3>1. PICK g \in gates : g.type = "prior_approval" /\ g.satisfied
      BY <2>3, <2>6, <2>9
    <3>2. g = [type |-> g.type, satisfied |-> g.satisfied] /\ g.satisfied \in BOOLEAN
      BY DEF BillingGate
    <3> QED BY <3>1, <3>2
  <2>10. ASSUME NEW type
         PROVE  SpenBillable(card, gates \cup {[type |-> type, satisfied |-> TRUE]}, visit)
    <3>1. PICK more : more = gates \cup {[type |-> type, satisfied |-> TRUE]}
      OBVIOUS
    <3>2. /\ \A g \in more : g.satisfied
          /\ \A g \in gates : g \in more
      BY <2>6, <3>1
    <3>3. card[i].approval /= NoThreshold /\ SpenRate(card, visit) > card[i].approval =>
              \E g \in more : g.type = "prior_approval" /\ g.satisfied
      BY <2>6, <3>2
    <3>4. SpenBillable(card, more, visit)
      BY <2>5, <2>6, <3>2, <3>3, BillableSays
    <3> QED BY <3>1, <3>4
  <2> QED BY <2>1, <2>7, <2>8, <2>9, <2>10 DEF BillingJustified
<1> QED BY DecidedInit, DecidedStep, <1>1, PTL DEF Spec
=============================================================================
