--------------------------- MODULE MarginDecisions ---------------------------
(***************************************************************************)
(* Commercial decisions: the rule engines of                               *)
(* app/domain_packs/contract_margin/rules.py and the cross-pack linkers of *)
(* app/domain_packs/reconciliation.py as operators.  A piece of work is a  *)
(* record [facts, billed, contract]: the facts its dictionary states, the  *)
(* rate it was billed at and the contract's rate, 0 when there is none.    *)
(***************************************************************************)
EXTENDS FiniteSets, Integers, Sequences

\* "escalation_priced": the escalation's percentage and the volume are above 0.
WorkFacts ==
    {"completed", "billed", "change_order_required", "change_order", "daywork", "signed",
     "escalation_due", "escalation_priced", "escalation_applied", "abortive",
     "abortive_claimed", "variation", "variation_order", "permit_cost", "permit_recovered",
     "out_of_hours", "emergency", "materials", "materials_billed", "subcontractor_loss", "mobilisation",
     "mobilisation_billed", "warranty_rework", "invoiced", "provider_fault",
     "reattendance_billed", "evidence_missing", "gates_open", "same_visit"}

\* What the schemas admit, for amounts that are whole and not negative (they are
\* floats).  The clauses and orders of a diagnosis hold no invoice.
PieceOfWork == [facts : SUBSET (WorkFacts \ {"invoiced"}), billed : Nat, contract : Nat]

\* A work order of the documents states where and when it is done and, of what the
\* engines ask about, nothing else.
WorkDocument == [facts : SUBSET {"same_visit"}, billed : {0}, contract : {0}]
NoThreshold == -1
RateCardEntry == [match : {"exact", "fuzzy", "category", "none"}, rate : Nat, multiplier : Nat,
                  approval : Nat \cup {NoThreshold}]
BillingGate == [type : STRING, satisfied : BOOLEAN]

\* The names of the fields of a record of conditions that hold.
Holding(conditions) == {c \in DOMAIN conditions : conditions[c]}
Without(w, fact, settled) == fact \in w.facts /\ settled \notin w.facts
NoRate == -1
Rated(w) == w.billed > 0 /\ w.contract > 0

---------------------------------------------------------------------------
(* LeakageRuleEngine.evaluate: what each piece of work triggers.           *)

WorkTriggers(w) == Holding([
    unbilled_completed_work        |-> Without(w, "completed", "billed"),
    rate_below_contract            |-> Rated(w) /\ w.billed < w.contract,
    scope_creep_detected           |-> Without(w, "change_order_required", "change_order"),
    missing_daywork_sheet          |-> "completed" \in w.facts /\ Without(w, "daywork", "signed"),
    rate_escalation_missed         |-> Without(w, "escalation_due", "escalation_applied"),
    abortive_visit_not_claimed     |-> Without(w, "abortive", "abortive_claimed"),
    variation_work_no_change_order |-> Without(w, "variation", "variation_order"),
    permit_cost_not_recovered      |-> Without(w, "permit_cost", "permit_recovered")])

\* The five checks that are methods of their own.
CostTriggers(w) == Holding([
    time_rate_mismatch        |-> "out_of_hours" \in w.facts /\ Rated(w) /\ w.billed <= w.contract,
    material_cost_not_billed  |-> Without(w, "materials", "materials_billed"),
    subcontractor_margin_leak |-> "subcontractor_loss" \in w.facts,
    mobilisation_not_charged  |-> Without(w, "mobilisation", "mobilisation_billed"),
    warranty_rework_billed    |-> {"warranty_rework", "billed"} \subseteq w.facts])

\* "breach" is a penalty clause whose payload says that a breach was detected.
LeakageTriggers(history, breach) ==
    (UNION {WorkTriggers(history[i]) \cup CostTriggers(history[i]) : i \in DOMAIN history})
    \cup (IF breach THEN {"penalty_exposure_unmitigated"} ELSE {})

\* Triggers of severity "error" or "critical": the ones recommended to recover.
GraveTriggers == {"unbilled_completed_work", "scope_creep_detected", "missing_daywork_sheet",
                  "variation_work_no_change_order", "subcontractor_margin_leak",
                  "warranty_rework_billed", "penalty_exposure_unmitigated"}

---------------------------------------------------------------------------
(* MarginLeakageReconciler.reconcile: the patterns of the three planes.    *)

\* An emergency is billed at one and a half times the rate card's base rate.
WorkPatterns(w, base) == Holding([
    field_completion_not_billed          |-> Without(w, "completed", "invoiced"),
    abortive_visit_not_claimed           |-> Without(w, "abortive", "abortive_claimed"),
    emergency_billed_at_base_rate        |-> /\ "emergency" \in w.facts
                                             /\ w.billed > 0 /\ base > 0
                                             /\ 200 * w.billed < 297 * base,
    reattendance_incorrectly_billed      |->
        {"provider_fault", "reattendance_billed"} \subseteq w.facts,
    permit_cost_not_recovered            |-> Without(w, "permit_cost", "permit_recovered"),
    rate_escalation_not_applied          |-> /\ Without(w, "escalation_due", "escalation_applied")
                                             /\ "escalation_priced" \in w.facts
                                             /\ w.contract > 0,
    variation_work_unbilled              |-> Without(w, "variation", "variation_order"),
    incomplete_evidence_prevents_billing |-> {"evidence_missing", "completed"} \subseteq w.facts])

\* Two pieces of work with the same activity, place and day.
DuplicateClaim(work) ==
    Cardinality({i \in DOMAIN work : "same_visit" \in work[i].facts}) > 1

Patterns(work, base, uncredited) ==
    (UNION {WorkPatterns(work[i], base) : i \in DOMAIN work})
    \cup (IF uncredited THEN {"sla_credit_not_deducted"} ELSE {})
    \cup (IF DuplicateClaim(work) THEN {"duplicate_claim_risk"} ELSE {})

GravePatterns == {"field_completion_not_billed", "emergency_billed_at_base_rate",
                  "reattendance_incorrectly_billed", "variation_work_unbilled",
                  "incomplete_evidence_prevents_billing"}

---------------------------------------------------------------------------
(* FieldCompletionBillabilityLinker.evaluate: the blockers its rules raise, *)
(* which is what the reconciler reads of its answer.                       *)

\* Mutant: the billing gates are not looked at.
BillingBlockersNoGates(w) == Holding([
    missing_completion_evidence |-> "evidence_missing" \in w.facts,
    reattendance_provider_fault |-> "provider_fault" \in w.facts,
    daywork_sheet_not_signed    |-> Without(w, "daywork", "signed"),
    variation_no_change_order   |-> Without(w, "variation", "variation_order")])
BillingBlockers(w) == Holding([
    missing_completion_evidence |-> "evidence_missing" \in w.facts,
    billing_gate_unsatisfied    |-> "gates_open" \in w.facts,
    reattendance_provider_fault |-> "provider_fault" \in w.facts,
    daywork_sheet_not_signed    |-> Without(w, "daywork", "signed"),
    variation_no_change_order   |-> Without(w, "variation", "variation_order")])

---------------------------------------------------------------------------
(* ContradictionDetector, SLAAccountabilityLinker, the verdict.            *)

Conflict(field, severity) == [field |-> field, severity |-> severity]

\* "contract" is [in, out, rate, approval, penalised]: whether the activities of
\* the order meet those in or out of scope, the rate of a similar activity;
\* "order" is [status, scope, rate, approved]; "state" the state of the incident.
Contradictions(contract, order, state) ==
    {c \in {Conflict("scope", "error")} :
        \/ contract.in /\ order.scope = "out_of_scope"
        \/ contract.out /\ order.scope = "in_scope"}
    \cup {c \in {Conflict("completion_vs_incident", "error")} :
            order.status = "completed" /\ state \in {"new", "investigating", "in_progress"}}
    \cup {c \in {Conflict("completion_vs_incident", "warning")} :
            order.status \in {"pending", "in_progress", "assigned"}
            /\ state \in {"resolved", "closed"}}
    \cup {Conflict("rate", s) : s \in
            IF order.rate = 0 \/ contract.rate = 0 THEN {}
            ELSE LET diff == IF order.rate > contract.rate THEN order.rate - contract.rate
                             ELSE contract.rate - order.rate
                 IN CASE 10 * diff > contract.rate -> {"critical"}
                      [] 10 * diff <= contract.rate /\ 100 * diff > contract.rate -> {"warning"}
                      [] OTHER -> {}}
    \cup {c \in {Conflict("approval", "error")} : contract.approval /\ ~order.approved}
    \cup {c \in {Conflict("sla_penalty", "error")} : contract.penalised}

\* The field blockers that mitigate a breach, and whether the provider still answers for it.
Mitigation == [
    customer_access             |-> FALSE,
    local_authority_permit      |-> FALSE,
    weather_force_majeure       |-> FALSE,
    customer_nominated_supplier |-> FALSE,
    third_party_dependency      |-> TRUE]
\* The places in the list of blockers where one mitigates.
Mitigating(blockers) == {i \in DOMAIN blockers : blockers[i] \in DOMAIN Mitigation}
\* Mutant: the last blocker decides.
AccountableByLast(blockers) ==
    \A i \in Mitigating(blockers) :
        (\A j \in Mitigating(blockers) : j <= i) => Mitigation[blockers[i]]
Accountable(blockers) ==
    \A i \in Mitigating(blockers) : Mitigation[blockers[i]]

SlaConflicts(status, blockers) ==
    {c \in {Conflict("sla_accountability", "critical")} :
        status = "breached" /\ Accountable(blockers)}
    \cup {c \in {Conflict("sla_mitigation", "warning")} : Mitigating(blockers) /= {}}

\* _determine_verdict.
BundleVerdict(patterns, conflicts, slaConflicts) ==
    IF Conflict("sla_accountability", "critical") \in slaConflicts THEN "penalty_risk"
    ELSE IF patterns /= {}
         THEN IF patterns \cap GravePatterns /= {} THEN "under_recovery" ELSE "leakage_detected"
    ELSE IF conflicts = {} THEN "healthy"
    ELSE IF \E c \in conflicts : c.severity \in {"error", "critical"}
         THEN "under_recovery" ELSE "leakage_detected"

\* Mutant: the work order's state is not compared with the incident's.
HandoverBlockersUnaligned(inc, status, provided, gates) == Holding([
    missing_completion_evidence |-> inc.state \in {"resolved", "closed"} /\ ~provided,
    rca_not_submitted           |-> /\ inc.severity \in {"p1", "p2"}
                                    /\ ~\E g \in gates : g.prerequisite = "rca_submitted" /\ g.satisfied])

\* TicketClosureHandoverLinker; "status" is the order's, a gate is
\* [prerequisite, satisfied].
HandoverBlockers(inc, status, provided, gates) == Holding([
    missing_completion_evidence |-> inc.state \in {"resolved", "closed"} /\ ~provided,
    state_alignment             |-> inc.state = "resolved" /\ status \notin {"", "completed"},
    rca_not_submitted           |-> /\ inc.severity \in {"p1", "p2"}
                                    /\ ~\E g \in gates : g.prerequisite = "rca_submitted" /\ g.satisfied,
    open_permits                |-> \E g \in gates : g.prerequisite = "permit_closed_out" /\ ~g.satisfied,
    customer_sign_off_missing   |-> /\ \E g \in gates : g.prerequisite = "customer_sign_off"
                                    /\ ~\E g \in gates : g.prerequisite = "customer_sign_off" /\ g.satisfied])

---------------------------------------------------------------------------
(* SPENBillabilityEngine.  A rate card entry is [match, rate, multiplier,  *)
(* approval]: "match" is how well it fits the activity, "multiplier" the   *)
(* one for the time of day asked for, "approval" the value above which a   *)
(* prior approval is needed, or NoThreshold.  A gate is [type, satisfied]. *)

BestMatch(card) ==
    LET fitting(kind) == {i \in DOMAIN card : card[i].match = kind}
        first(s) == CHOOSE i \in s : \A j \in s : i <= j
    IN CASE fitting("exact") /= {} -> first(fitting("exact"))
         [] fitting("exact") = {} /\ fitting("fuzzy") /= {} -> first(fitting("fuzzy"))
         [] fitting("exact") = {} /\ fitting("fuzzy") = {} /\ fitting("category") /= {}
              -> first(fitting("category"))
         [] OTHER -> 0

BillableTriggers == {"customer_fault", "dno_fault", "third_party", "weather"}
FirstVisit == "first_visit"

SpenRate(card, visit) ==
    LET i == BestMatch(card)
    IN CASE visit = "provider_fault" -> 0
         [] visit /= "provider_fault" /\ i = 0 -> NoRate
         [] OTHER -> card[i].rate * card[i].multiplier

\* Mutant: the threshold is compared with the rate before its multiplier.
SpenFailuresBaseRate(card, gates, visit) ==
    LET i == BestMatch(card)
    IN Holding([
        has_matching_rate       |-> i = 0,
        billing_gates_satisfied |-> \E g \in gates : ~g.satisfied,
        reattendance_check      |-> visit \notin BillableTriggers \cup {FirstVisit},
        approval_threshold      |-> IF i = 0 THEN FALSE
                                    ELSE /\ card[i].approval /= NoThreshold
                                         /\ card[i].rate > card[i].approval
                                         /\ ~\E g \in gates : g.type = "prior_approval" /\ g.satisfied])

\* Rule 5 asks for an approval above the threshold, and a threshold of 0 is one.
SpenFailures(card, gates, visit) ==
    LET i == BestMatch(card)
    IN Holding([
        has_matching_rate       |-> i = 0,
        billing_gates_satisfied |-> \E g \in gates : ~g.satisfied,
        reattendance_check      |-> visit \notin BillableTriggers \cup {FirstVisit},
        approval_threshold      |-> IF i = 0 THEN FALSE
                                    ELSE /\ card[i].approval /= NoThreshold
                                         /\ SpenRate(card, visit) > card[i].approval
                                         /\ ~\E g \in gates : g.type = "prior_approval" /\ g.satisfied])
SpenBillable(card, gates, visit) == SpenFailures(card, gates, visit) = {}

=============================================================================
