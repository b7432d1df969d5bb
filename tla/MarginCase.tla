----------------------------- MODULE MarginCase -----------------------------
(***************************************************************************)
(* One job seen by the three planes: its contract, its work order and the  *)
(* incident it repairs, each updated by its own people.  The updates are   *)
(* the callers' (the engines are given dictionaries); what the engines of  *)
(* app/domain_packs/reconciliation.py make of them at any moment is the    *)
(* code's: MarginDiagnosisReconciler.reconcile keeps no state, so that a   *)
(* diagnosis is an operator and the properties ask it in every state.      *)
(***************************************************************************)
EXTENDS MarginDecisions, OpsDecisions

CONSTANTS
    Jobs,         \* [contract, order, incident, gates, field, major] as the job begins
    Blockers,     \* the kinds of field blocker that may be recorded
    MaxBlockers   \* bound: how many are recorded

WorkStates == {"assigned", "in_progress", "completed"}
\* Amounts are whole and not negative here, 0 when there is none.
Contract == [scope : {"in", "out", "none"}, rate : Nat, approval : BOOLEAN]
WorkOrder == [facts : SUBSET WorkFacts, billed : Nat, contract : Nat, status : WorkStates,
              scope : {"in_scope", "out_of_scope"}, approved : BOOLEAN]
Incident == [severity : Severities, owned : BOOLEAN, state : IncidentStates]
\* The gates of the ticket are of the schema's ClosurePrerequisite; the handover of
\* the field has two of its own, which only the handover linker is given.
ClosurePrerequisites ==
    {"root_cause_identified", "workaround_documented", "permanent_fix_planned",
     "customer_notified", "service_restored", "rca_submitted", "problem_record_created",
     "change_request_raised"}
ClosureGate == [prerequisite : ClosurePrerequisites, mandatory : BOOLEAN, satisfied : BOOLEAN]
FieldPrerequisites == {"permit_closed_out", "customer_sign_off"}
FieldGate == [prerequisite : FieldPrerequisites, satisfied : BOOLEAN]
MajorRecord == [present : BOOLEAN, rca : BOOLEAN, problem : BOOLEAN, bridge : BOOLEAN,
                comms : BOOLEAN]

ASSUME JobsAssumption ==
    \A j \in Jobs :
        /\ j.contract \in Contract /\ j.order \in WorkOrder /\ j.incident \in Incident
        /\ j.gates \in Seq(ClosureGate) /\ j.field \subseteq FieldGate
        /\ j.major \in MajorRecord

VARIABLES
    contract,     \* [scope, rate, approval]: scope is "in", "out" or "none"
    order,        \* its work order: [facts, billed, contract, status, scope, approved]
    incident,     \* [severity, owned, state]
    sla,          \* [status, blockers, uncredited]
    gates,        \* the closure gates of the ticket, in their order
    field,        \* the gates of the field's handover
    major         \* the record of the major incident, or NoMajor

vars == <<contract, order, incident, sla, gates, field, major>>

Init ==
    /\ \E j \in Jobs : /\ contract = j.contract /\ order = j.order
                      /\ incident = j.incident /\ gates = j.gates
                      /\ field = j.field /\ major = j.major
    /\ sla = [status |-> "within", blockers |-> <<>>, uncredited |-> FALSE]

---------------------------------------------------------------------------
(* MarginDiagnosisReconciler.reconcile for one work order.                 *)

\* _build_contract_data keeps the lists of clauses, and neither the need for an
\* approval nor the SLA's penalty, which the contradiction detector asks for.
ContractData(c) ==
    [in |-> c.scope = "in", out |-> c.scope = "out", rate |-> c.rate,
     approval |-> FALSE, penalised |-> FALSE]

Diagnose(c, o, inc, s) ==
    LET billing   == {Conflict(b, "error") : b \in BillingBlockers(o)}
        liability == SlaConflicts(s.status, s.blockers)
        patterns  == Patterns(<<o>>, c.rate, s.uncredited)
        conflicts == billing \cup liability
                     \cup Contradictions(ContractData(c),
                              [status |-> o.status, scope |-> o.scope, rate |-> o.billed,
                               approved |-> o.approved], inc.state)
    IN [verdict |-> BundleVerdict(patterns, conflicts, liability),
        conflicts |-> conflicts, patterns |-> patterns]

---------------------------------------------------------------------------
(* What the planes' own people record.                                     *)

Perform ==
    \E s \in WorkStates :
        /\ <<order.status, s>> \in {<<"assigned", "in_progress">>, <<"in_progress", "completed">>}
        /\ order' = [order EXCEPT !.status = s,
                                  !.facts = IF s = "completed" THEN @ \cup {s} ELSE @]
        /\ UNCHANGED <<contract, incident, sla, gates, field, major>>

\* The fact that answers an open one; the open evidence and gates just end.
Answers == [daywork |-> "signed", variation |-> "variation_order",
            permit_cost |-> "permit_recovered", abortive |-> "abortive_claimed",
            completed |-> "invoiced", escalation_due |-> "escalation_applied"]
Settled(o, fact) ==
    IF fact \in {"evidence_missing", "gates_open"} THEN [o EXCEPT !.facts = @ \ {fact}]
    ELSE [o EXCEPT !.facts = @ \cup {Answers[fact]}]
Settle(fact) ==
    /\ fact \in order.facts /\ order' = Settled(order, fact) /\ order' /= order
    /\ UNCHANGED <<contract, incident, sla, gates, field, major>>

MoveIncident ==
    \E s \in IncidentStates :
        /\ <<incident.state, s>> \in
             {<<"new", "acknowledged">>, <<"acknowledged", "investigating">>,
              <<"investigating", "resolved">>, <<"resolved", "closed">>}
        /\ incident' = [incident EXCEPT !.state = s]
        /\ UNCHANGED <<contract, order, sla, gates, field, major>>

BreachSla ==
    /\ sla.status = "within"
    /\ sla' = [sla EXCEPT !.status = "breached", !.uncredited = TRUE]
    /\ UNCHANGED <<contract, order, incident, gates, field, major>>

CreditSla ==
    /\ sla.uncredited
    /\ sla' = [sla EXCEPT !.uncredited = FALSE]
    /\ UNCHANGED <<contract, order, incident, gates, field, major>>

RecordBlocker(b) ==
    /\ Len(sla.blockers) < MaxBlockers
    /\ sla' = [sla EXCEPT !.blockers = Append(@, b)]
    /\ UNCHANGED <<contract, order, incident, gates, field, major>>

SatisfyGate(i) ==
    /\ i \in DOMAIN gates /\ ~gates[i].satisfied
    /\ gates' = [gates EXCEPT ![i].satisfied = TRUE]
    /\ UNCHANGED <<contract, order, incident, sla, field, major>>

SatisfyFieldGate(g) ==
    /\ g \in field /\ ~g.satisfied
    /\ field' = (field \ {g}) \cup {[g EXCEPT !.satisfied = TRUE]}
    /\ UNCHANGED <<contract, order, incident, sla, gates, major>>

\* The major incident's analysis starts, its problem record is opened, its bridge
\* is called, its customers are told.
ManageMajor(step) ==
    /\ major.present /\ ~major[step]
    /\ major' = [major EXCEPT ![step] = TRUE]
    /\ UNCHANGED <<contract, order, incident, sla, gates, field>>

Settling ==
    \/ \E fact \in DOMAIN Answers \cup {"evidence_missing", "gates_open"} : Settle(fact)
    \/ CreditSla

Next ==
    \/ Perform \/ Settling \/ MoveIncident \/ BreachSla
    \/ \E b \in Blockers : RecordBlocker(b)
    \/ \E i \in DOMAIN gates : SatisfyGate(i)
    \/ \E g \in field : SatisfyFieldGate(g)
    \/ \E step \in {"rca", "problem", "bridge", "comms"} : ManageMajor(step)

Spec == Init /\ [][Next]_vars

---------------------------------------------------------------------------
(* Properties.                                                             *)

Diagnosis == Diagnose(contract, order, incident, sla)

\* A diagnosis is "healthy" only for a job that can be invoiced and that the
\* planes tell the same story of: nothing open on the work order but an escalation
\* the order gives no price for, done work invoiced, the rate within a hundredth of
\* the contract's where it names one, no incident still running after the work
\* ended, and no SLA breach left to the provider.
HealthyMeansSettled ==
    Diagnosis.verdict = "healthy" =>
        /\ order.facts \cap {"evidence_missing", "gates_open", "provider_fault"} = {}
        /\ \A fact \in order.facts \cap DOMAIN Answers :
             \/ Answers[fact] \in order.facts
             \/ fact = "escalation_due"
                /\ (order.contract = 0 \/ "escalation_priced" \notin order.facts)
        /\ order.billed > 0 /\ contract.rate > 0 =>
             /\ 100 * (contract.rate - order.billed) <= contract.rate
             /\ 100 * (order.billed - contract.rate) <= contract.rate
        /\ order.status = "completed" => incident.state \in {"acknowledged", "resolved", "closed"}
        /\ sla.status = "breached" => ~Accountable(sla.blockers)
        /\ {contract.scope, order.scope} \notin {{"in", "out_of_scope"}, {"out", "in_scope"}}

Gravity(verdict) ==
    CASE verdict = "healthy" -> 0 [] verdict = "leakage_detected" -> 1
      [] verdict = "under_recovery" -> 2 [] verdict = "penalty_risk" -> 3

\* Settling an open matter, or recording one more field blocker, never makes
\* the diagnosis graver, with two exceptions.  The code's order of tests has one: a
\* mild leakage pattern hides grave conflicts, which its settlement uncovers.  The
\* other is a new blocker that turns a healthy diagnosis into a mild one.
SettlingOnlyUncovers ==
    [][ /\ Settling \/ \E b \in Blockers : RecordBlocker(b)
        /\ Gravity(Diagnosis'.verdict) > Gravity(Diagnosis.verdict)
        => \/ Diagnosis.verdict = "leakage_detected" /\ Diagnosis'.patterns = {}
              /\ \E c \in Diagnosis.conflicts : c.severity \in {"error", "critical"}
           \/ Diagnosis.verdict = "healthy" /\ Diagnosis'.verdict = "leakage_detected"
              /\ sla'.blockers /= sla.blockers ]_vars

\* The gates a caller of the handover linker has: the ticket's and the field's.
HandoverGates == {gates[i] : i \in DOMAIN gates} \cup field
Handover == HandoverBlockers(incident, order.status, "evidence_missing" \notin order.facts,
                             HandoverGates)
Closure == ClosureBlockers(incident, gates, major)
Repeated(p) == \E i, j \in DOMAIN gates : i < j /\ gates[i].prerequisite = p
                                          /\ gates[j].prerequisite = p

\* Two engines judge a work order against its incident and two judge whether the
\* ticket may close; they disagree only where known.  The detector passes any order
\* of an acknowledged incident and an unfinished one of a new incident; the handover
\* linker looks at the order of a resolved incident only.  A ticket the closure engine
\* passes is held by the linker for evidence, for the order's state, for the field's
\* own gates, or because a major incident's analysis is under way and not submitted;
\* and the two judge the analysis differently in that case alone, or where the
\* ticket asks for it in two gates, of which the closure engine reads the last.
EnginesAgree ==
    LET told == \E c \in Contradictions(ContractData(contract),
                        [status |-> order.status, scope |-> order.scope, rate |-> 0,
                         approved |-> order.approved], incident.state) :
                    c.field = "completion_vs_incident"
        seen == WorkOrderMismatches(incident, [state |-> order.status, owner |-> "same",
                                               early |-> FALSE, other |-> FALSE]) /= {}
    IN /\ told => seen
       /\ seen /\ ~told => \/ incident.state = "acknowledged"
                           \/ incident.state = "new" /\ order.status /= "completed"
       /\ Handover = {} /\ told => incident.state /= "resolved"
       /\ Closure = {} =>
            Handover \subseteq {"missing_completion_evidence", "state_alignment"}
                \cup {b \in {"open_permits", "customer_sign_off_missing"} :
                        \E g \in field : ~g.satisfied}
                \cup {b \in {"rca_not_submitted"} : major.rca}
       /\ ("rca_submitted" \in Closure) /= ("rca_not_submitted" \in Handover) =>
            major.rca \/ Repeated("rca_submitted")
=============================================================================
