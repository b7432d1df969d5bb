--------------------------- MODULE DomainWorkflows ---------------------------
(***************************************************************************)
(* The seven workflows of app/workflows/orchestrator.py, one request each, *)
(* on the database session FastAPI opens for it.  A request creates a case,*)
(* loads its documents, compiles control objects, asks a rule engine of a  *)
(* domain pack, asks the model for an explanation, validates the output    *)
(* and completes the case; get_db commits when the handler returns and     *)
(* rolls back when it raises.  The handler catches what its own steps      *)
(* raise and marks the case failed, but an error of the session raises     *)
(* again in the flush that follows, so that nothing of the case remains.   *)
(***************************************************************************)
EXTENDS FieldDecisions, MarginDecisions, OpsDecisions

\* What the request schemas and the parsers admit.
WorkflowRequest ==
    [kind : {"contract_compile"}, clauses : SUBSET STRING]
    \cup [kind : {"work_order_readiness"}, job : GeneralJob]
    \cup [kind : {"incident_dispatch"}, inc : ParsedIncident, service : STRING, runbook : BOOLEAN]
    \cup [kind : {"margin_diagnosis"}, clauses : SUBSET STRING,
          orders : {<<>>} \cup {<<d>> : d \in WorkDocument}, history : Seq(PieceOfWork)]
    \cup [kind : {"spen_readiness"}, job : SpenJob]
    \cup [kind : {"spen_billability"}, card : Seq(RateCardEntry), gates : SUBSET BillingGate,
          visit : STRING]
    \cup [kind : {"vodafone_incident_triage"}, inc : ParsedIncident]

CONSTANT Requests      \* the requests a client may send: records with a "kind"
ASSUME RequestsAssumption == Requests \subseteq WorkflowRequest

VARIABLES
    request,           \* the request being served
    at,                \* how many steps of its flow are done, -1 before the first
    phase,             \* "serving", "returned", "answered", "done" or "aborted"
    session,           \* what the session has written
    db,                \* what is committed
    decision,          \* what the rule engine decided
    answer             \* what the client received

vars == <<request, at, phase, session, db, decision, answer>>

\* The steps of a handler between _create_case and its return.
Flow(kind) ==
    CASE kind = "contract_compile" -> <<"load", "compile", "validate", "complete">>
      [] kind \in {"work_order_readiness", "incident_dispatch", "margin_diagnosis"} ->
             <<"load", "compile", "decide", "explain", "validate", "complete">>
      [] OTHER -> <<"load", "decide", "complete">>

\* The rows of a case: its status, audit events, control objects, validation
\* result and model runs.
Nothing == [case |-> "none", audit |-> {}, objects |-> {}, validation |-> "none", runs |-> 0]
Undecided == [verdict |-> "none"]

Init ==
    /\ request \in Requests
    /\ at = -1 /\ phase = "serving"
    /\ session = Nothing /\ db = Nothing
    /\ decision = Undecided /\ answer = Undecided

AtStep(step) ==
    /\ phase = "serving" /\ at >= 0 /\ at < Len(Flow(request.kind))
    /\ Flow(request.kind)[at + 1] = step
    /\ at' = at + 1

---------------------------------------------------------------------------
(* What the compiler makes of a document, and what each engine decides.    *)

Compiled(r) ==
    CASE r.kind \in {"contract_compile", "margin_diagnosis"} -> r.clauses
      [] r.kind = "work_order_readiness" ->
             {"readiness_check"} \cup {"skill_requirement" : s \in r.job.skills}
      [] r.kind = "incident_dispatch" ->
             {"incident_state"} \cup {"service_state" : s \in ServicesOf(r.inc)}
             \cup {"escalation_rule" : s \in {r.inc.severity} \cap {"p1", "p2"}}

\* Mutant: the triggers of the history alone decide.
MarginVerdictFromTriggers(triggers, patterns, conflicts, bundle) ==
    IF triggers = {} THEN "billable" ELSE "under_recovery"

\* No clause says that a breach was detected, no invoice is ever compiled and
\* the SLA's performance is not passed on; a parsed work order has neither
\* status nor rate nor gates, so that the planes cannot contradict each other.
MarginVerdict(triggers, patterns, conflicts, bundle) ==
    CASE bundle = "penalty_risk" -> "penalty_risk"
      [] bundle /= "penalty_risk" /\ patterns /= {} -> "under_recovery"
      [] bundle /= "penalty_risk" /\ patterns = {} /\ conflicts /= {} -> "unknown"
      [] OTHER ->
             IF triggers = {} THEN "billable"
             ELSE IF "penalty_exposure_unmitigated" \in triggers THEN "penalty_risk"
             ELSE IF triggers \cap {"unbilled_completed_work", "rate_below_contract"} /= {}
                  THEN "under_recovery" ELSE "unknown"

\* The work order of the documents is reconciled with the history, and the
\* leakage engine is given the history alone.
DiagnoseMargin(r) ==
    LET triggers == LeakageTriggers(r.history, FALSE)
        patterns == Patterns(r.orders \o r.history, 0, FALSE)
    IN [verdict  |-> MarginVerdict(triggers, patterns, {}, BundleVerdict(patterns, {}, {})),
        drivers  |-> triggers,
        recovery |-> triggers \cap GraveTriggers]

\* The elapsed time is estimated: a quarter of an hour per timeline entry.
MinutesPerEntry == 15
Triage(inc) ==
    LET sla    == SlaStatus(inc, MinutesPerEntry * inc.timeline)
        domain == IF inc.services = <<>> THEN "" ELSE Head(inc.services)
    IN [verdict  |-> VodafoneAction(inc, inc.state = "investigating"),
        level    |-> VodafoneLevel(inc, sla, domain, 0),
        sla      |-> sla.resolution,
        closable |-> ClosureBlockers(inc, <<>>, NoMajor) = {}]

Decision(r) ==
    CASE r.kind = "work_order_readiness" ->
             [verdict |-> ReadinessStatus(Blockers(r.job)), missing |-> Blockers(r.job)]
      [] r.kind = "spen_readiness" ->
             [verdict |-> ReadinessStatus(SpenBlockers(r.job)), missing |-> SpenBlockers(r.job)]
      [] r.kind = "incident_dispatch" ->
             [verdict |-> NextAction(r.inc.state, r.service, r.runbook, r.inc.owned),
              level   |-> Escalation(r.inc, r.service, FALSE, 0)]
      [] r.kind = "margin_diagnosis" -> DiagnoseMargin(r)
      [] r.kind = "spen_billability" ->
             [verdict |-> IF SpenBillable(r.card, r.gates, r.visit) THEN "billable" ELSE "non_billable",
              rate    |-> SpenRate(r.card, r.visit)]
      [] r.kind = "vodafone_incident_triage" -> Triage(r.inc)

---------------------------------------------------------------------------
(* ValidationService.validate_output.                                      *)

ValidVerdicts(kind) ==
    CASE kind \in {"contract_compile", "margin_diagnosis"} ->
             {"billable", "non_billable", "under_recovery", "penalty_risk", "unknown"}
      [] kind = "work_order_readiness" -> {"ready", "blocked", "warn", "escalate"}
      [] kind = "incident_dispatch" ->
             {"investigate", "escalate", "dispatch", "resolve", "monitor",
              "contact_customer", "assign_engineer", "close", "reopen"}

ValidationStatus(kind, output, evidence) ==
    LET verdict == output.verdict
        errors == \/ verdict \notin ValidVerdicts(kind)
                  \/ verdict = "billable" /\ evidence = {}
                  \/ kind = "work_order_readiness" /\ verdict = "ready" /\ output.missing /= {}
    IN IF errors THEN "blocked" ELSE IF evidence = {} THEN "warned" ELSE "passed"

\* What contract_compile asks the validator about.
CompileOutput == [verdict |-> "approved"]

---------------------------------------------------------------------------
(* The steps of a request.                                                 *)

\* Mutant: the case is committed as soon as it is created.
CreateCaseCommits ==
    /\ phase = "serving" /\ at = -1
    /\ at' = 0
    /\ session' = [session EXCEPT !.case = "running", !.audit = {"workflow_started"}]
    /\ db' = session'
    /\ UNCHANGED <<request, phase, decision, answer>>

\* _create_case: the case is running and the audit trail says it started.
CreateCase ==
    /\ phase = "serving" /\ at = -1
    /\ at' = 0
    /\ session' = [session EXCEPT !.case = "running", !.audit = {"workflow_started"}]
    /\ UNCHANGED <<request, phase, db, decision, answer>>

\* _load_doc and the parsers.
Load ==
    /\ AtStep("load")
    /\ UNCHANGED <<request, phase, session, db, decision, answer>>

\* CompilerService.
Compile ==
    /\ AtStep("compile")
    /\ session' = [session EXCEPT !.objects = Compiled(request),
                                  !.audit = IF request.kind = "margin_diagnosis" THEN @
                                            ELSE @ \cup {"compiled"}]
    /\ UNCHANGED <<request, phase, db, decision, answer>>

Decide ==
    /\ AtStep("decide")
    /\ decision' = Decision(request)
    /\ session' = [session EXCEPT !.audit = IF request.kind = "margin_diagnosis"
                                            THEN @ \cup {"reconciled"} ELSE @]
    /\ UNCHANGED <<request, phase, db, answer>>

\* InferenceGateway.explain / summarize: a run is logged when the provider answered.
Explain ==
    /\ AtStep("explain")
    /\ session' = [session EXCEPT !.runs = @ + 1]
    /\ UNCHANGED <<request, phase, db, decision, answer>>

Validate ==
    /\ AtStep("validate")
    /\ session' = [session EXCEPT
            !.validation = ValidationStatus(request.kind,
                               IF request.kind = "contract_compile" THEN CompileOutput ELSE decision,
                               session.objects)]
    /\ UNCHANGED <<request, phase, db, decision, answer>>

\* A contract is approved when its validation passed; only it looks at the result.
CompileVerdict(validation) ==
    [verdict |-> IF validation = "passed" THEN "approved" ELSE "needs_review"]

AuditsCompletion == {"spen_readiness", "spen_billability", "vodafone_incident_triage"}
Complete ==
    /\ AtStep("complete")
    /\ phase' = "returned"
    /\ session' = [session EXCEPT !.case = "completed",
                                  !.audit = IF request.kind \in AuditsCompletion
                                            THEN @ \cup {"completed"} ELSE @]
    /\ decision' = IF request.kind = "contract_compile"
                   THEN CompileVerdict(session.validation) ELSE decision
    /\ UNCHANGED <<request, db, answer>>

\* What the handler returns from its except branch.
FailureAnswer(kind) ==
    CASE kind \in {"work_order_readiness", "spen_readiness", "incident_dispatch"} ->
             [verdict |-> "escalate"]
      [] kind = "margin_diagnosis" -> [verdict |-> "unknown"]
      [] kind = "spen_billability" -> [verdict |-> "non_billable"]
      [] OTHER                     -> [verdict |-> "failed"]

\* A document is missing, a payload cannot be parsed, compiled or checked, the
\* provider does not answer, the summary's template raises: the case is marked
\* failed, and not every workflow says so in the trail.  The compiler has added
\* some of the objects to the session when it raises.
AuditsFailure == AuditsCompletion \cup {"contract_compile"}
Fail ==
    /\ phase = "serving" /\ at >= 0 /\ at < Len(Flow(request.kind))
    /\ LET step == Flow(request.kind)[at + 1]
       IN /\ step = "complete" => request.kind = "contract_compile"
          /\ \E objects \in IF step = "compile" THEN SUBSET Compiled(request)
                                                ELSE {session.objects} :
                session' = [session EXCEPT !.case = "failed", !.objects = objects,
                                           !.audit = IF request.kind \in AuditsFailure
                                                     THEN @ \cup {"workflow_failed"} ELSE @]
    /\ phase' = "returned"
    /\ decision' = FailureAnswer(request.kind)
    /\ UNCHANGED <<request, at, db, answer>>

\* The response is sent before the dependency's exit code runs.
Respond ==
    /\ phase = "returned"
    /\ phase' = "answered"
    /\ answer' = decision
    /\ UNCHANGED <<request, at, session, db, decision>>

\* get_db: commit when the handler returned.
Commit ==
    /\ phase = "answered"
    /\ phase' = "done"
    /\ db' = session
    /\ UNCHANGED <<request, at, session, decision, answer>>

\* The session fails in a flush or in the commit, or the process dies: get_db
\* rolls everything back.
Abort ==
    /\ phase \in {"serving", "returned", "answered"}
    /\ phase' = "aborted"
    /\ session' = Nothing
    /\ UNCHANGED <<request, at, db, decision, answer>>

Next ==
    \/ CreateCase \/ Load \/ Compile \/ Decide \/ Explain \/ Validate \/ Complete
    \/ Fail \/ Respond \/ Commit \/ Abort

Spec == Init /\ [][Next]_vars

---------------------------------------------------------------------------
(* Properties.                                                             *)

\* A request's rows are committed together or not at all (get_db commits once,
\* after the handler): a committed case has ended, its trail says that it
\* started, and a completed one has every row its workflow writes.  A case of
\* which the trail tells nothing but its start failed, in one of the three
\* workflows that audit no failure, before the model was asked.
CasesWhole ==
    db /= Nothing =>
        /\ db.case \in {"completed", "failed"}
        /\ "workflow_started" \in db.audit
        /\ db.case = "completed" =>
            \A i \in DOMAIN Flow(request.kind) :
                LET step == Flow(request.kind)[i]
                IN /\ step = "compile" => db.objects = Compiled(request)
                   /\ step = "validate" => db.validation /= "none"
                   /\ step = "explain" => db.runs = 1
        /\ db.audit = {"workflow_started"} =>
            /\ db.case = "failed" /\ db.runs = 0
            /\ request.kind \in {"work_order_readiness", "incident_dispatch", "margin_diagnosis"}

Rank(status) == CASE status = "blocked" -> 0 [] status = "conditional" -> 1 [] status = "ready" -> 2

\* What an engineer or a crew can do to make a job less of a problem.
Eased(job) ==
    {[job EXCEPT !.held = @ \cup {a}] : a \in
        (UNION {CategoryAccreditations[c] : c \in Categories})
        \cup {"confined_space_certification", "hot_works_certification", "general_competency"}}
    \cup {[job EXCEPT !.permits = (@ \ {p}) \cup {[p EXCEPT !.obtained = TRUE]}] : p \in job.permits}

\* One more accreditation, one more permit obtained or a traffic plan never
\* makes a job less ready, for both readiness engines.
ReadinessMonotone ==
    /\ request.kind = "work_order_readiness" =>
        \A j \in Eased(request.job) :
            Rank(ReadinessStatus(Blockers(j))) >= Rank(ReadinessStatus(Blockers(request.job)))
    /\ request.kind = "spen_readiness" =>
        \A j \in Eased(request.job) \cup {[request.job EXCEPT !.traffic = TRUE],
                                          [request.job EXCEPT !.confirmed = TRUE]} :
            Rank(ReadinessStatus(SpenBlockers(j))) >= Rank(ReadinessStatus(SpenBlockers(request.job)))

Graver(severity) ==
    CASE severity = "p4" -> "p3" [] severity = "p3" -> "p2" [] OTHER -> "p1"

\* A graver severity, a breached SLA or a repeated incident never lowers the
\* level of escalation, and no level is below the validator's floor.  The one
\* exception of the general engine: its rule for an outage overwrites the level
\* a breached SLA had raised, so that a P1 ends below a P2.
EscalationMonotone ==
    /\ request.kind = "incident_dispatch" =>
        LET level(inc, b, n) == LevelOrder(Escalation(inc, request.service, b, n))
        IN \A b \in BOOLEAN, n \in {0, 3} :
            /\ level(request.inc, b, n) >= LevelOrder(MinimumLevel(request.inc.severity))
            /\ level(request.inc, b, n) >= level(request.inc, FALSE, 0)
            /\ \/ level([request.inc EXCEPT !.severity = Graver(@)], b, n) >= level(request.inc, b, n)
               \/ b /\ request.service = "outage"
    /\ request.kind = "vodafone_incident_triage" =>
        LET level(inc, n, d) ==
                LevelOrder(VodafoneLevel(inc, SlaStatus(inc, MinutesPerEntry * inc.timeline), d, n))
        IN \A n \in {0, 3}, d \in {"", "core_network"} :
            /\ level(request.inc, n, d) >= LevelOrder(MinimumLevel(request.inc.severity))
            /\ level(request.inc, n, d) >= level(request.inc, 0, "")
            /\ level([request.inc EXCEPT !.severity = Graver(@)], n, d) >= level(request.inc, n, d)

ImpactLevels == {"critical", "major", "minor", "negligible"}
OrderStates == [state : {"open", "assigned", "in_progress", "completed", "closed"},
                owner : {"same", "other"}, early : BOOLEAN, other : BOOLEAN]

\* What the pack's own typed validator finds in the answers of its engines.  None
\* of ActionRuleEngine's passes: they carry no evidence; nor an owner, where they
\* hand the incident to somebody; an incident under investigation without runbook
\* is told to investigate, which is no action of that state; and of the incidents
\* with an SLA tag only the outages under investigation are escalated.  The level
\* of escalation fails on closed incidents alone; a reconciliation, where all that
\* is wrong is a service the incident does not name, or less than the state.
EnginesAgainstValidators ==
    request.kind = "incident_dispatch" =>
        LET inc      == request.inc
            d        == Decision(request)
            failures == ActionFailures(inc, Proposed(d.verdict))
            outage   == inc.state = "investigating" /\ request.service = "outage"
            runbook  == inc.state = "investigating" /\ request.runbook
        IN /\ "action_without_evidence" \in failures
           /\ "missing_owner_on_action" \in failures <=>
                outage \/ runbook \/ (inc.state = "new" /\ ~inc.owned)
           /\ "invalid_action_for_state" \in failures <=>
                inc.state = "investigating" /\ ~outage /\ ~runbook
           /\ "sla_breach_without_escalation" \in failures <=>
                inc.tags \cap SlaTags /= {} /\ ~outage
           /\ EscalationFailures(inc, d.level, EscalationOwner(d.level)) /= {} <=>
                inc.state = "closed" /\ d.level /= NoLevel
           /\ \A name \in CriticalServices, impact \in ImpactLevels :
                LET found == ServiceMismatches(inc, request.service, name, impact)
                IN ReconciliationFailures(found) /= {} <=>
                        found = {Mismatch("affected_services", "error")}
           /\ \A order \in OrderStates :
                LET found == WorkOrderMismatches(inc, order)
                IN ReconciliationFailures(found) /= {} <=>
                        found /= {} /\ order.state \in ExpectedWorkOrderStates(inc.state)

\* Work is called billable only when neither leakage engine saw anything in the
\* history or in the work order of the documents; a diagnosis of under-recovery
\* that names no driver (which the validator of margin diagnoses refuses) comes
\* from what only the cross-plane engine sees: work completed without an invoice,
\* a revisit billed against the provider's fault, or one visit twice, of which
\* the work order of the documents may be one.
MarginVerdictSound ==
    request.kind = "margin_diagnosis" /\ "drivers" \in DOMAIN decision =>
        /\ decision.verdict = "billable" =>
            /\ ~DuplicateClaim(request.orders \o request.history)
            /\ \A i \in DOMAIN request.history :
                WorkTriggers(request.history[i]) = {} /\ WorkPatterns(request.history[i], 0) = {}
        /\ decision.verdict = "under_recovery" /\ decision.drivers = {} =>
            \/ DuplicateClaim(request.orders \o request.history)
            \/ \E i \in DOMAIN request.history :
                WorkPatterns(request.history[i], 0) \cap
                    {"field_completion_not_billed", "reattendance_incorrectly_billed"} /= {}
        /\ decision.verdict = "unknown" => decision.drivers /= {}

Closeness(entry) ==
    CASE entry.match = "exact" -> 3 [] entry.match = "fuzzy" -> 2
      [] entry.match = "category" -> 1 [] entry.match = "none" -> 0

\* A visit is answered billable only at the price of the entry of the card that fits
\* closest, the first of its kind, and a price that exceeds that entry's threshold,
\* its multiplier included, was approved.  No later gate takes the answer back:
\* one more satisfied gate, an approval among them, leaves a billable visit billable.
BillingJustified ==
    request.kind = "spen_billability" /\ decision.verdict = "billable" =>
        /\ \E i \in DOMAIN request.card :
            LET e == request.card[i]
            IN /\ Closeness(e) > 0
               /\ \A j \in DOMAIN request.card :
                    \/ Closeness(request.card[j]) < Closeness(e)
                    \/ Closeness(request.card[j]) = Closeness(e) /\ i <= j
               /\ decision.rate = e.rate * e.multiplier
               /\ e.approval /= NoThreshold /\ decision.rate > e.approval
                    => [type |-> "prior_approval", satisfied |-> TRUE] \in request.gates
        /\ \A type \in {"prior_approval", "sign_off"} :
             SpenBillable(request.card, request.gates \cup {[type |-> type, satisfied |-> TRUE]},
                          request.visit)
=============================================================================
