-------------------------- MODULE MarginCaseProofs --------------------------
(***************************************************************************)
(* What a margin diagnosis says of a job, for every contract, work order,  *)
(* incident and list of blockers, proved.                                  *)
(***************************************************************************)
EXTENDS MarginCase, FiniteSetTheorems, TLAPS

SlaRecord == [status : {"within", "breached"}, blockers : Seq(Blockers), uncredited : BOOLEAN]

\* The records keep their shape.
CaseInv ==
    /\ contract \in Contract
    /\ order \in WorkOrder
    /\ incident \in Incident
    /\ sla \in SlaRecord
    /\ gates \in Seq(ClosureGate)
    /\ field \in SUBSET FieldGate
    /\ major \in MajorRecord

-----------------------------------------------------------------------------
(* The operators, by what belongs to their answers.                        *)

\* The blockers of a piece of work, one by one.
LEMMA BillingBlockersAre ==
    ASSUME NEW w
    PROVE  /\ "evidence_missing" \in w.facts <=> "missing_completion_evidence" \in BillingBlockers(w)
           /\ "gates_open" \in w.facts <=> "billing_gate_unsatisfied" \in BillingBlockers(w)
           /\ "provider_fault" \in w.facts <=> "reattendance_provider_fault" \in BillingBlockers(w)
           /\ Without(w, "daywork", "signed") <=> "daywork_sheet_not_signed" \in BillingBlockers(w)
           /\ Without(w, "variation", "variation_order")
                <=> "variation_no_change_order" \in BillingBlockers(w)
           /\ \A b \in BillingBlockers(w) :
                b \in {"missing_completion_evidence", "billing_gate_unsatisfied",
                       "reattendance_provider_fault", "daywork_sheet_not_signed",
                       "variation_no_change_order"}
<1> DEFINE fired ==
             [missing_completion_evidence |-> "evidence_missing" \in w.facts,
              billing_gate_unsatisfied    |-> "gates_open" \in w.facts,
              reattendance_provider_fault |-> "provider_fault" \in w.facts,
              daywork_sheet_not_signed    |-> Without(w, "daywork", "signed"),
              variation_no_change_order   |-> Without(w, "variation", "variation_order")]
<1>1. BillingBlockers(w) = {c \in DOMAIN fired : fired[c]}
  BY DEF BillingBlockers, Holding
<1>2. DOMAIN fired = {"missing_completion_evidence", "billing_gate_unsatisfied",
                      "reattendance_provider_fault", "daywork_sheet_not_signed",
                      "variation_no_change_order"}
  OBVIOUS
<1>3. /\ fired["missing_completion_evidence"] = ("evidence_missing" \in w.facts)
      /\ fired["billing_gate_unsatisfied"] = ("gates_open" \in w.facts)
      /\ fired["reattendance_provider_fault"] = ("provider_fault" \in w.facts)
      /\ fired["daywork_sheet_not_signed"] = Without(w, "daywork", "signed")
      /\ fired["variation_no_change_order"] = Without(w, "variation", "variation_order")
  OBVIOUS
<1> HIDE DEF fired
<1> QED BY <1>1, <1>2, <1>3

\* The leakage patterns of a piece of work, one by one.
LEMMA WorkPatternsAre ==
    ASSUME NEW w, NEW base
    PROVE  /\ Without(w, "completed", "invoiced")
                <=> "field_completion_not_billed" \in WorkPatterns(w, base)
           /\ Without(w, "abortive", "abortive_claimed")
                <=> "abortive_visit_not_claimed" \in WorkPatterns(w, base)
           /\ ("emergency" \in w.facts /\ w.billed > 0 /\ base > 0 /\ 200 * w.billed < 297 * base)
                <=> "emergency_billed_at_base_rate" \in WorkPatterns(w, base)
           /\ {"provider_fault", "reattendance_billed"} \subseteq w.facts
                <=> "reattendance_incorrectly_billed" \in WorkPatterns(w, base)
           /\ Without(w, "permit_cost", "permit_recovered")
                <=> "permit_cost_not_recovered" \in WorkPatterns(w, base)
           /\ (/\ Without(w, "escalation_due", "escalation_applied")
               /\ "escalation_priced" \in w.facts /\ w.contract > 0)
                <=> "rate_escalation_not_applied" \in WorkPatterns(w, base)
           /\ Without(w, "variation", "variation_order")
                <=> "variation_work_unbilled" \in WorkPatterns(w, base)
           /\ {"evidence_missing", "completed"} \subseteq w.facts
                <=> "incomplete_evidence_prevents_billing" \in WorkPatterns(w, base)
           /\ \A b \in WorkPatterns(w, base) :
                b \in {"field_completion_not_billed", "abortive_visit_not_claimed",
                       "emergency_billed_at_base_rate", "reattendance_incorrectly_billed",
                       "permit_cost_not_recovered", "rate_escalation_not_applied",
                       "variation_work_unbilled", "incomplete_evidence_prevents_billing"}
<1> DEFINE seen ==
             [field_completion_not_billed          |-> Without(w, "completed", "invoiced"),
              abortive_visit_not_claimed           |-> Without(w, "abortive", "abortive_claimed"),
              emergency_billed_at_base_rate        |-> /\ "emergency" \in w.facts
                                                       /\ w.billed > 0 /\ base > 0
                                                       /\ 200 * w.billed < 297 * base,
              reattendance_incorrectly_billed      |-> {"provider_fault", "reattendance_billed"} \subseteq w.facts,
              permit_cost_not_recovered            |-> Without(w, "permit_cost", "permit_recovered"),
              rate_escalation_not_applied          |-> /\ Without(w, "escalation_due", "escalation_applied")
                                                       /\ "escalation_priced" \in w.facts
                                                       /\ w.contract > 0,
              variation_work_unbilled              |-> Without(w, "variation", "variation_order"),
              incomplete_evidence_prevents_billing |-> {"evidence_missing", "completed"} \subseteq w.facts]
<1>1. WorkPatterns(w, base) = {c \in DOMAIN seen : seen[c]}
  BY DEF WorkPatterns, Holding
<1>2. DOMAIN seen = {"field_completion_not_billed", "abortive_visit_not_claimed",
                     "emergency_billed_at_base_rate", "reattendance_incorrectly_billed",
                     "permit_cost_not_recovered", "rate_escalation_not_applied",
                     "variation_work_unbilled", "incomplete_evidence_prevents_billing"}
  OBVIOUS
<1>3. /\ seen["field_completion_not_billed"] = Without(w, "completed", "invoiced")
      /\ seen["abortive_visit_not_claimed"] = Without(w, "abortive", "abortive_claimed")
      /\ seen["emergency_billed_at_base_rate"] =
           ("emergency" \in w.facts /\ w.billed > 0 /\ base > 0 /\ 200 * w.billed < 297 * base)
      /\ seen["reattendance_incorrectly_billed"] =
           ({"provider_fault", "reattendance_billed"} \subseteq w.facts)
      /\ seen["permit_cost_not_recovered"] = Without(w, "permit_cost", "permit_recovered")
      /\ seen["rate_escalation_not_applied"] =
           (/\ Without(w, "escalation_due", "escalation_applied")
            /\ "escalation_priced" \in w.facts /\ w.contract > 0)
      /\ seen["variation_work_unbilled"] = Without(w, "variation", "variation_order")
      /\ seen["incomplete_evidence_prevents_billing"] =
           ({"evidence_missing", "completed"} \subseteq w.facts)
  OBVIOUS
<1> HIDE DEF seen
<1>4. \A c : c \in WorkPatterns(w, base) <=> c \in DOMAIN seen /\ seen[c]
  BY <1>1
<1>5. /\ Without(w, "completed", "invoiced")
           <=> "field_completion_not_billed" \in WorkPatterns(w, base)
      /\ Without(w, "abortive", "abortive_claimed")
           <=> "abortive_visit_not_claimed" \in WorkPatterns(w, base)
      /\ ("emergency" \in w.facts /\ w.billed > 0 /\ base > 0 /\ 200 * w.billed < 297 * base)
           <=> "emergency_billed_at_base_rate" \in WorkPatterns(w, base)
      /\ {"provider_fault", "reattendance_billed"} \subseteq w.facts
           <=> "reattendance_incorrectly_billed" \in WorkPatterns(w, base)
  BY <1>2, <1>3, <1>4
<1>6. /\ Without(w, "permit_cost", "permit_recovered")
           <=> "permit_cost_not_recovered" \in WorkPatterns(w, base)
      /\ (/\ Without(w, "escalation_due", "escalation_applied")
          /\ "escalation_priced" \in w.facts /\ w.contract > 0)
           <=> "rate_escalation_not_applied" \in WorkPatterns(w, base)
      /\ Without(w, "variation", "variation_order")
           <=> "variation_work_unbilled" \in WorkPatterns(w, base)
      /\ {"evidence_missing", "completed"} \subseteq w.facts
           <=> "incomplete_evidence_prevents_billing" \in WorkPatterns(w, base)
  BY <1>2, <1>3, <1>4
<1>7. \A b \in WorkPatterns(w, base) :
        b \in {"field_completion_not_billed", "abortive_visit_not_claimed",
               "emergency_billed_at_base_rate", "reattendance_incorrectly_billed",
               "permit_cost_not_recovered", "rate_escalation_not_applied",
               "variation_work_unbilled", "incomplete_evidence_prevents_billing"}
  BY <1>2, <1>4, Zenon
<1> QED BY <1>5, <1>6, <1>7, Zenon

\* One piece of work is no duplicate claim.
LEMMA PatternsOfOne ==
    ASSUME NEW w, NEW base, NEW uncredited \in BOOLEAN
    PROVE  Patterns(<<w>>, base, uncredited) =
             WorkPatterns(w, base) \cup (IF uncredited THEN {"sla_credit_not_deducted"} ELSE {})
<1>1. PICK work : work = <<w>>
  OBVIOUS
<1>2. DOMAIN work = {1} /\ work[1] = w
  BY <1>1
<1>3. UNION {WorkPatterns(work[i], base) : i \in DOMAIN work} = WorkPatterns(w, base)
  BY <1>2
<1>4. ~DuplicateClaim(work)
  <2>1. PICK same : same = {i \in DOMAIN work : "same_visit" \in work[i].facts}
    OBVIOUS
  <2>2. same = {} \/ same = {1}
    BY <1>2, <2>1
  <2>3. Cardinality({}) = 0 /\ Cardinality({1}) = 1
    BY FS_EmptySet, FS_Singleton
  <2>4. ~(Cardinality(same) > 1)
    BY <2>2, <2>3
  <2> QED BY <2>1, <2>4 DEF DuplicateClaim
<1>5. Patterns(work, base, uncredited) =
        WorkPatterns(w, base) \cup (IF uncredited THEN {"sla_credit_not_deducted"} ELSE {})
  <2>1. (IF DuplicateClaim(work) THEN {"duplicate_claim_risk"} ELSE {}) = {}
    BY <1>4, Zenon
  <2> DEFINE own == UNION {WorkPatterns(work[i], base) : i \in DOMAIN work}
             credit == IF uncredited THEN {"sla_credit_not_deducted"} ELSE {}
             twice == IF DuplicateClaim(work) THEN {"duplicate_claim_risk"} ELSE {}
  <2>2. Patterns(work, base, uncredited) = own \cup credit \cup twice
    BY Zenon DEF Patterns
  <2>3. own = WorkPatterns(w, base) /\ twice = {}
    BY <1>3, <2>1, Zenon
  <2>4. own \cup credit \cup twice = WorkPatterns(w, base) \cup credit
    <3> HIDE DEF own, credit, twice
    <3> QED BY <2>3
  <2> QED BY <2>2, <2>4, Zenon
<1> QED BY <1>1, <1>5

\* The verdict says whether a pattern or a conflict was found, and how grave.
LEMMA VerdictSays ==
    ASSUME NEW patterns, NEW conflicts, NEW liability
    PROVE  LET accountable == Conflict("sla_accountability", "critical") \in liability
               grave == \E c \in conflicts : c.severity \in {"error", "critical"}
               v == BundleVerdict(patterns, conflicts, liability)
           IN /\ v = "healthy" <=> ~accountable /\ patterns = {} /\ conflicts = {}
              /\ v = "penalty_risk" <=> accountable
              /\ v = "under_recovery" <=>
                   /\ ~accountable
                   /\ \/ patterns \cap GravePatterns /= {}
                      \/ patterns = {} /\ grave
              /\ v \in {"healthy", "penalty_risk", "under_recovery", "leakage_detected"}
BY DEF BundleVerdict

-----------------------------------------------------------------------------
(* The records keep their shape.                                           *)

\* A job begins with records of the shape its schemas give.
LEMMA CaseInvInit == Init => CaseInv
<1> SUFFICES ASSUME Init PROVE CaseInv
  OBVIOUS
<1>1. PICK j \in Jobs : /\ contract = j.contract /\ order = j.order
                        /\ incident = j.incident /\ gates = j.gates
                        /\ field = j.field /\ major = j.major
  BY DEF Init
<1>2. sla \in SlaRecord
  BY DEF Init, SlaRecord
<1> QED BY <1>1, <1>2, JobsAssumption DEF CaseInv

\* What settling a matter writes is one of the facts.
LEMMA SettledIsWorkOrder ==
    ASSUME NEW o \in WorkOrder,
           NEW fact \in DOMAIN Answers \cup {"evidence_missing", "gates_open"}
    PROVE  /\ Settled(o, fact) \in WorkOrder
           /\ Settled(o, fact) = [o EXCEPT !.facts = Settled(o, fact).facts]
           /\ fact \in {"evidence_missing", "gates_open"} =>
                Settled(o, fact).facts = o.facts \ {fact}
           /\ fact \notin {"evidence_missing", "gates_open"} =>
                /\ fact \in DOMAIN Answers
                /\ Settled(o, fact).facts = o.facts \cup {Answers[fact]}
<1>1. DOMAIN Answers = {"daywork", "variation", "permit_cost", "abortive", "completed",
                        "escalation_due"}
      /\ \A f \in DOMAIN Answers : Answers[f] \in WorkFacts
  BY DEF Answers, WorkFacts
<1>2. CASE fact \in {"evidence_missing", "gates_open"}
  BY <1>2 DEF Settled, WorkOrder
<1>3. CASE fact \notin {"evidence_missing", "gates_open"}
  <2>1. fact \in DOMAIN Answers /\ Answers[fact] \in WorkFacts
    BY <1>1, <1>3
  <2> QED BY <1>3, <2>1 DEF Settled, WorkOrder
<1> QED BY <1>2, <1>3

\* No update takes a record out of its shape.
LEMMA CaseInvStep == CaseInv /\ [Next]_vars => CaseInv'
<1> SUFFICES ASSUME CaseInv, [Next]_vars PROVE CaseInv'
  OBVIOUS
<1> USE DEF CaseInv
<1>1. CASE Perform
  <2>1. PICK s \in WorkStates :
          order' = [order EXCEPT !.status = s,
                                 !.facts = IF s = "completed" THEN @ \cup {s} ELSE @]
    BY <1>1 DEF Perform
  <2>2. (IF s = "completed" THEN order.facts \cup {s} ELSE order.facts) \in SUBSET WorkFacts
    BY DEF WorkOrder, WorkFacts
  <2>3. order' \in WorkOrder
    BY <2>1, <2>2 DEF WorkOrder
  <2> QED BY <1>1, <2>3 DEF Perform
<1>2. ASSUME NEW fact \in DOMAIN Answers \cup {"evidence_missing", "gates_open"}, Settle(fact)
      PROVE  CaseInv'
  BY <1>2, SettledIsWorkOrder DEF Settle
<1>3. CASE CreditSla
  BY <1>3 DEF CreditSla, SlaRecord
<1>4. CASE MoveIncident
  BY <1>4 DEF MoveIncident, Incident
<1>5. CASE BreachSla
  BY <1>5 DEF BreachSla, SlaRecord
<1>6. ASSUME NEW b \in Blockers, RecordBlocker(b)
      PROVE  CaseInv'
  <2>1. sla.blockers \in Seq(Blockers)
    BY DEF SlaRecord
  <2>2. Append(sla.blockers, b) \in Seq(Blockers)
    BY <2>1
  <2>3. sla' \in SlaRecord
    BY <1>6, <2>2 DEF RecordBlocker, SlaRecord
  <2> QED BY <1>6, <2>3 DEF RecordBlocker
<1>7. ASSUME NEW i \in DOMAIN gates, SatisfyGate(i)
      PROVE  CaseInv'
  <2>1. gates[i] \in ClosureGate
    OBVIOUS
  <2>2. [gates[i] EXCEPT !.satisfied = TRUE] \in ClosureGate
    BY <2>1 DEF ClosureGate
  <2>3. gates' = [gates EXCEPT ![i] = [gates[i] EXCEPT !.satisfied = TRUE]]
    BY <1>7 DEF SatisfyGate
  <2>4. gates' \in Seq(ClosureGate)
    <3> HIDE DEF CaseInv
    <3>1. gates \in Seq(ClosureGate)
      BY DEF CaseInv
    <3> QED BY <2>2, <2>3, <3>1
  <2> QED BY <1>7, <2>4 DEF SatisfyGate
<1>8. ASSUME NEW g \in field, SatisfyFieldGate(g)
      PROVE  CaseInv'
  <2>1. [g EXCEPT !.satisfied = TRUE] \in FieldGate
    BY DEF FieldGate
  <2> QED BY <1>8, <2>1 DEF SatisfyFieldGate
<1>9. ASSUME NEW step \in {"rca", "problem", "bridge", "comms"}, ManageMajor(step)
      PROVE  CaseInv'
  <2>1. major' \in MajorRecord
    BY <1>9 DEF ManageMajor, MajorRecord
  <2> QED BY <1>9, <2>1 DEF ManageMajor
<1>10. CASE UNCHANGED vars
  BY <1>10 DEF vars
<1> QED BY <1>1, <1>2, <1>3, <1>4, <1>5, <1>6, <1>7, <1>8, <1>9, <1>10 DEF Next, Settling

\* In every state.
LEMMA CaseAlways == Spec => []CaseInv
BY CaseInvInit, CaseInvStep, PTL DEF Spec

-----------------------------------------------------------------------------
(* A healthy diagnosis.                                                    *)

\* Two plans without a contradiction tell the same story.
LEMMA NoContradiction ==
    ASSUME NEW c, NEW o, NEW state, c.rate \in Nat, o.rate \in Nat, Contradictions(c, o, state) = {}
    PROVE  /\ ~(c.in /\ o.scope = "out_of_scope")
           /\ ~(c.out /\ o.scope = "in_scope")
           /\ ~(o.status = "completed" /\ state \in {"new", "investigating", "in_progress"})
           /\ o.rate > 0 /\ c.rate > 0 =>
                100 * (c.rate - o.rate) <= c.rate /\ 100 * (o.rate - c.rate) <= c.rate
<1> DEFINE apart == IF o.rate > c.rate THEN o.rate - c.rate ELSE c.rate - o.rate
           told == IF o.rate = 0 \/ c.rate = 0 THEN {}
                   ELSE LET diff == IF o.rate > c.rate THEN o.rate - c.rate ELSE c.rate - o.rate
                        IN CASE 10 * diff > c.rate -> {"critical"}
                             [] 10 * diff <= c.rate /\ 100 * diff > c.rate -> {"warning"}
                             [] OTHER -> {}
<1>1. {Conflict("rate", s) : s \in told} = {}
  BY DEF Contradictions
<1>2. told = {}
  <2> HIDE DEF told
  <2> QED BY <1>1
<1>3. ~(c.in /\ o.scope = "out_of_scope") /\ ~(c.out /\ o.scope = "in_scope")
  BY DEF Contradictions
<1>4. ~(o.status = "completed" /\ state \in {"new", "investigating", "in_progress"})
  BY DEF Contradictions
<1>5. o.rate > 0 /\ c.rate > 0 => 100 * apart <= c.rate
  <2> SUFFICES ASSUME o.rate > 0, c.rate > 0 PROVE 100 * apart <= c.rate
    OBVIOUS
  <2>1. apart \in Nat
    OBVIOUS
  <2>2. told = CASE 10 * apart > c.rate -> {"critical"}
                 [] 10 * apart <= c.rate /\ 100 * apart > c.rate -> {"warning"}
                 [] OTHER -> {}
    OBVIOUS
  <2> HIDE DEF told, apart
  <2>3. ~(10 * apart > c.rate)
    BY <1>2, <2>2
  <2>4. ~(10 * apart <= c.rate /\ 100 * apart > c.rate)
    BY <1>2, <2>2, <2>3
  <2> QED BY <2>1, <2>3, <2>4
<1>6. o.rate > 0 /\ c.rate > 0 =>
        100 * (c.rate - o.rate) <= c.rate /\ 100 * (o.rate - c.rate) <= c.rate
  BY <1>5
<1> QED BY <1>3, <1>4, <1>6

\* The parts of a diagnosis.
Billing(o) == {Conflict(b, "error") : b \in BillingBlockers(o)}
Told(c, o, inc) ==
    Contradictions(ContractData(c), [status |-> o.status, scope |-> o.scope, rate |-> o.billed,
                                     approved |-> o.approved], inc.state)

Liability(s) == SlaConflicts(s.status, s.blockers)
AllConflicts(c, o, inc, s) == Billing(o) \cup Liability(s) \cup Told(c, o, inc)
AllPatterns(c, o, s) ==
    WorkPatterns(o, c.rate) \cup (IF s.uncredited THEN {"sla_credit_not_deducted"} ELSE {})

\* A diagnosis is made of them: a job has one work order, which is no duplicate claim.
LEMMA DiagnosisParts ==
    ASSUME NEW c, NEW o, NEW inc, NEW s, s.uncredited \in BOOLEAN
    PROVE  /\ Diagnose(c, o, inc, s).conflicts = AllConflicts(c, o, inc, s)
           /\ Diagnose(c, o, inc, s).patterns = AllPatterns(c, o, s)
           /\ Diagnose(c, o, inc, s).verdict =
                BundleVerdict(AllPatterns(c, o, s), AllConflicts(c, o, inc, s), Liability(s))
<1>1. PICK patterns : patterns = Patterns(<<o>>, c.rate, s.uncredited)
  OBVIOUS
<1>2. PICK conflicts : conflicts = AllConflicts(c, o, inc, s)
  OBVIOUS
<1>3. Diagnose(c, o, inc, s) = [verdict |-> BundleVerdict(patterns, conflicts, Liability(s)),
                                conflicts |-> conflicts, patterns |-> patterns]
  BY <1>1, <1>2, Zenon DEF Diagnose, AllConflicts, Liability, Billing, Told
<1>4. patterns = AllPatterns(c, o, s)
  BY <1>1, PatternsOfOne, Zenon DEF AllPatterns
<1> QED BY <1>2, <1>3, <1>4

\* The provider answers for a breach that nothing excuses.
LEMMA LiabilitySays ==
    ASSUME NEW status, NEW blockers
    PROVE  /\ Conflict("sla_accountability", "critical") \in SlaConflicts(status, blockers)
                <=> status = "breached" /\ Accountable(blockers)
           /\ \A c \in SlaConflicts(status, blockers) :
                \/ c = Conflict("sla_accountability", "critical")
                \/ c = Conflict("sla_mitigation", "warning")
           /\ Conflict("sla_mitigation", "warning") \in SlaConflicts(status, blockers)
                <=> Mitigating(blockers) # {}
<1>1. Conflict("sla_accountability", "critical") # Conflict("sla_mitigation", "warning")
  BY DEF Conflict
<1> QED BY <1>1, Zenon DEF SlaConflicts

\* "healthy" is what HealthyMeansSettled says it is, whatever the records hold.
LEMMA HealthyCase == CaseInv => HealthyMeansSettled
<1> SUFFICES ASSUME CaseInv, Diagnosis.verdict = "healthy"
             PROVE  HealthyMeansSettled
  BY DEF HealthyMeansSettled
<1>1. sla.uncredited \in BOOLEAN /\ contract.rate \in Nat /\ order.billed \in Nat
      /\ order.contract \in Nat /\ order.facts \in SUBSET WorkFacts
      /\ incident.state \in IncidentStates
  BY DEF CaseInv, SlaRecord, Contract, WorkOrder, Incident
<1>2. BundleVerdict(AllPatterns(contract, order, sla),
                    AllConflicts(contract, order, incident, sla), Liability(sla)) = "healthy"
  BY <1>1, DiagnosisParts DEF Diagnosis
<1>3. /\ Conflict("sla_accountability", "critical") \notin Liability(sla)
      /\ AllPatterns(contract, order, sla) = {}
      /\ AllConflicts(contract, order, incident, sla) = {}
  BY <1>2, VerdictSays
<1>4. BillingBlockers(order) = {}
  BY <1>3 DEF AllConflicts, Billing
<1>5. WorkPatterns(order, contract.rate) = {}
  BY <1>3 DEF AllPatterns
<1>6. Told(contract, order, incident) = {}
  BY <1>3 DEF AllConflicts
<1>7. order.facts \cap {"evidence_missing", "gates_open", "provider_fault"} = {}
  BY <1>4, BillingBlockersAre
<1>8. \A fact \in order.facts \cap DOMAIN Answers :
         \/ Answers[fact] \in order.facts
         \/ fact = "escalation_due"
            /\ (order.contract = 0 \/ "escalation_priced" \notin order.facts)
  <2>1. DOMAIN Answers = {"daywork", "variation", "permit_cost", "abortive", "completed",
                          "escalation_due"}
        /\ Answers["daywork"] = "signed" /\ Answers["variation"] = "variation_order"
        /\ Answers["permit_cost"] = "permit_recovered" /\ Answers["abortive"] = "abortive_claimed"
        /\ Answers["completed"] = "invoiced" /\ Answers["escalation_due"] = "escalation_applied"
    BY DEF Answers
  <2>2. ~Without(order, "daywork", "signed") /\ ~Without(order, "variation", "variation_order")
    BY <1>4, BillingBlockersAre
  <2>3. /\ ~Without(order, "permit_cost", "permit_recovered")
        /\ ~Without(order, "abortive", "abortive_claimed")
        /\ ~Without(order, "completed", "invoiced")
        /\ ~(/\ Without(order, "escalation_due", "escalation_applied")
             /\ "escalation_priced" \in order.facts /\ order.contract > 0)
    BY <1>5, WorkPatternsAre
  <2>4. order.contract = 0 \/ order.contract > 0
    BY <1>1
  <2> QED BY <2>1, <2>2, <2>3, <2>4 DEF Without
<1>9. sla.status = "breached" => ~Accountable(sla.blockers)
  BY <1>3, LiabilitySays DEF Liability
<1> DEFINE c == ContractData(contract)
           o == [status |-> order.status, scope |-> order.scope, rate |-> order.billed,
                 approved |-> order.approved]
<1>10. /\ c.rate = contract.rate /\ o.rate = order.billed /\ o.status = order.status
       /\ o.scope = order.scope /\ c.in = (contract.scope = "in") /\ c.out = (contract.scope = "out")
  BY DEF ContractData
<1>11. Contradictions(c, o, incident.state) = {}
  BY <1>6 DEF Told
<1> HIDE DEF c, o
<1>12. /\ ~(contract.scope = "in" /\ order.scope = "out_of_scope")
       /\ ~(contract.scope = "out" /\ order.scope = "in_scope")
       /\ ~(order.status = "completed" /\ incident.state \in {"new", "investigating", "in_progress"})
       /\ order.billed > 0 /\ contract.rate > 0 =>
            /\ 100 * (contract.rate - order.billed) <= contract.rate
            /\ 100 * (order.billed - contract.rate) <= contract.rate
  <2>1. c.rate \in Nat /\ o.rate \in Nat
    BY <1>1, <1>10
  <2>2. /\ ~(c.in /\ o.scope = "out_of_scope")
        /\ ~(c.out /\ o.scope = "in_scope")
        /\ ~(o.status = "completed" /\ incident.state \in {"new", "investigating", "in_progress"})
        /\ o.rate > 0 /\ c.rate > 0 =>
             100 * (c.rate - o.rate) <= c.rate /\ 100 * (o.rate - c.rate) <= c.rate
    BY <1>11, <2>1, NoContradiction, Zenon
  <2>3. ~((contract.scope = "in") /\ order.scope = "out_of_scope")
        /\ ~((contract.scope = "out") /\ order.scope = "in_scope")
    BY <1>10, <2>2, Zenon
  <2>4. /\ ~(order.status = "completed" /\ incident.state \in {"new", "investigating", "in_progress"})
        /\ order.billed > 0 /\ contract.rate > 0 =>
             /\ 100 * (contract.rate - order.billed) <= contract.rate
             /\ 100 * (order.billed - contract.rate) <= contract.rate
    <3>1. c.rate = contract.rate /\ o.rate = order.billed /\ o.status = order.status
      BY <1>10
    <3> QED BY <2>2, <3>1, Zenon
  <2> QED BY <2>3, <2>4
<1>13. order.status = "completed" => incident.state \in {"acknowledged", "resolved", "closed"}
  BY <1>1, <1>12 DEF IncidentStates
<1>14. {contract.scope, order.scope} \notin {{"in", "out_of_scope"}, {"out", "in_scope"}}
  <2>1. contract.scope \in {"in", "out", "none"} /\ order.scope \in {"in_scope", "out_of_scope"}
    BY DEF CaseInv, Contract, WorkOrder
  <2> QED BY <1>12, <2>1
<1> QED BY <1>7, <1>8, <1>9, <1>12, <1>13, <1>14, Zenon DEF HealthyMeansSettled

\* HealthyMeansSettled, for every job: a diagnosis that the billing, liability, leakage
\* and contradiction engines reach apart is "healthy" only for a job without open matter,
\* but for an escalation that the order gives no price for.
THEOREM HealthyIsSettled == Spec => []HealthyMeansSettled
BY CaseAlways, HealthyCase, PTL

-----------------------------------------------------------------------------
(* Two engines on one matter.                                              *)

\* When the detector tells of a work order that does not fit its incident.
LEMMA CompletionTold ==
    ASSUME NEW c, NEW o, NEW state
    PROVE  (\E x \in Contradictions(c, o, state) : x.field = "completion_vs_incident")
             <=> \/ o.status = "completed" /\ state \in {"new", "investigating", "in_progress"}
                 \/ o.status \in {"pending", "in_progress", "assigned"} /\ state \in {"resolved", "closed"}
<1> DEFINE rates == IF o.rate = 0 \/ c.rate = 0 THEN {}
                    ELSE LET diff == IF o.rate > c.rate THEN o.rate - c.rate ELSE c.rate - o.rate
                         IN CASE 10 * diff > c.rate -> {"critical"}
                              [] 10 * diff <= c.rate /\ 100 * diff > c.rate -> {"warning"}
                              [] OTHER -> {}
           scope == {x \in {Conflict("scope", "error")} :
                       \/ c.in /\ o.scope = "out_of_scope"
                       \/ c.out /\ o.scope = "in_scope"}
           early == {x \in {Conflict("completion_vs_incident", "error")} :
                       o.status = "completed" /\ state \in {"new", "investigating", "in_progress"}}
           late == {x \in {Conflict("completion_vs_incident", "warning")} :
                      o.status \in {"pending", "in_progress", "assigned"}
                      /\ state \in {"resolved", "closed"}}
           rate == {Conflict("rate", s) : s \in rates}
           approval == {x \in {Conflict("approval", "error")} : c.approval /\ ~o.approved}
           penalty == {x \in {Conflict("sla_penalty", "error")} : c.penalised}
<1>1. Contradictions(c, o, state) = scope \cup early \cup late \cup rate \cup approval \cup penalty
  BY Zenon DEF Contradictions
<1>2. \A f, s : Conflict(f, s).field = f
  BY DEF Conflict
<1>3. /\ \A x \in scope : x.field = "scope"
      /\ \A x \in rate : x.field = "rate"
      /\ \A x \in approval : x.field = "approval"
      /\ \A x \in penalty : x.field = "sla_penalty"
      /\ \A x \in early \cup late : x.field = "completion_vs_incident"
  BY <1>2, Zenon
<1>4. /\ early # {} <=> o.status = "completed" /\ state \in {"new", "investigating", "in_progress"}
      /\ late # {} <=> o.status \in {"pending", "in_progress", "assigned"} /\ state \in {"resolved", "closed"}
  BY Zenon
<1> HIDE DEF scope, early, late, rate, approval, penalty
<1> QED BY <1>1, <1>3, <1>4

\* When the rule engine sees one, its owner and times being no matter.
LEMMA StateMismatchSeen ==
    ASSUME NEW inc, NEW o, o.owner = "same", o.early = FALSE, o.other = FALSE
    PROVE  WorkOrderMismatches(inc, o) # {} <=> o.state \notin ExpectedWorkOrderStates(inc.state)
<1>1. /\ ~(inc.owned /\ o.owner = "other") /\ ~o.early
      /\ ~(inc.state = "resolved" /\ o.state \in {"completed", "done"} /\ o.other)
  OBVIOUS
<1> QED BY <1>1, Zenon DEF WorkOrderMismatches

\* What keeps a ticket from being handed over, one by one.
HoldsTicket(blockers, inc, status, gs) ==
    /\ blockers \subseteq {"missing_completion_evidence", "state_alignment",
                           "rca_not_submitted", "open_permits", "customer_sign_off_missing"}
    /\ "state_alignment" \in blockers
         <=> inc.state = "resolved" /\ status \notin {"", "completed"}
    /\ "rca_not_submitted" \in blockers
         <=> /\ inc.severity \in {"p1", "p2"}
             /\ ~\E g \in gs : g.prerequisite = "rca_submitted" /\ g.satisfied
    /\ "open_permits" \in blockers
         => \E g \in gs : g.prerequisite = "permit_closed_out" /\ ~g.satisfied
    /\ "customer_sign_off_missing" \in blockers
         => \E g \in gs : g.prerequisite = "customer_sign_off" /\ ~g.satisfied

LEMMA HandoverBlockersAre ==
    \A inc, status, provided, gs :
        HoldsTicket(HandoverBlockers(inc, status, provided, gs), inc, status, gs)
<1> TAKE inc, status, provided, gs
<1> DEFINE analysed == \E g \in gs : g.prerequisite = "rca_submitted" /\ g.satisfied
           permits == \E g \in gs : g.prerequisite = "permit_closed_out" /\ ~g.satisfied
           signing == \E g \in gs : g.prerequisite = "customer_sign_off"
           signed == \E g \in gs : g.prerequisite = "customer_sign_off" /\ g.satisfied
           kept ==
             [missing_completion_evidence |-> inc.state \in {"resolved", "closed"} /\ ~provided,
              state_alignment             |-> inc.state = "resolved" /\ status \notin {"", "completed"},
              rca_not_submitted           |-> inc.severity \in {"p1", "p2"} /\ ~analysed,
              open_permits                |-> permits,
              customer_sign_off_missing   |-> signing /\ ~signed]
<1>1. HandoverBlockers(inc, status, provided, gs) = {c \in DOMAIN kept : kept[c]}
  BY Zenon DEF HandoverBlockers, Holding
<1>2. signing /\ ~signed => \E g \in gs : g.prerequisite = "customer_sign_off" /\ ~g.satisfied
  BY Zenon
<1>3. permits => \E g \in gs : g.prerequisite = "permit_closed_out" /\ ~g.satisfied
  BY Zenon
<1>4. analysed <=> \E g \in gs : g.prerequisite = "rca_submitted" /\ g.satisfied
  BY Zenon
<1> HIDE DEF analysed, permits, signing, signed
<1>5. DOMAIN kept = {"missing_completion_evidence", "state_alignment", "rca_not_submitted",
                     "open_permits", "customer_sign_off_missing"}
  OBVIOUS
<1>6. /\ kept["state_alignment"] = (inc.state = "resolved" /\ status \notin {"", "completed"})
      /\ kept["rca_not_submitted"] = (inc.severity \in {"p1", "p2"} /\ ~analysed)
      /\ kept["open_permits"] = permits
      /\ kept["customer_sign_off_missing"] = (signing /\ ~signed)
  OBVIOUS
<1> HIDE DEF kept
<1> DEFINE blockers == HandoverBlockers(inc, status, provided, gs)
<1>7. blockers \subseteq {"missing_completion_evidence", "state_alignment", "rca_not_submitted",
                          "open_permits", "customer_sign_off_missing"}
  BY <1>1, <1>5, Zenon
<1>8. /\ "state_alignment" \in blockers
            <=> inc.state = "resolved" /\ status \notin {"", "completed"}
      /\ "rca_not_submitted" \in blockers <=> inc.severity \in {"p1", "p2"} /\ ~analysed
      /\ "open_permits" \in blockers => permits
      /\ "customer_sign_off_missing" \in blockers => signing /\ ~signed
  BY <1>1, <1>5, <1>6
<1> HIDE DEF blockers
<1>9. HoldsTicket(blockers, inc, status, gs)
  <2>1. "rca_not_submitted" \in blockers
          <=> /\ inc.severity \in {"p1", "p2"}
              /\ ~\E g \in gs : g.prerequisite = "rca_submitted" /\ g.satisfied
    BY <1>4, <1>8, Zenon
  <2>2. "open_permits" \in blockers
          => \E g \in gs : g.prerequisite = "permit_closed_out" /\ ~g.satisfied
    BY <1>3, <1>8, Zenon
  <2>3. "customer_sign_off_missing" \in blockers
          => \E g \in gs : g.prerequisite = "customer_sign_off" /\ ~g.satisfied
    BY <1>2, <1>8, Zenon
  <2>4. "state_alignment" \in blockers
          <=> inc.state = "resolved" /\ status \notin {"", "completed"}
    BY <1>8, Zenon
  <2> QED BY <1>7, <2>1, <2>2, <2>3, <2>4, Zenon DEF HoldsTicket
<1> QED BY <1>9, Zenon DEF blockers

\* The blockers of the job's own handover.
LEMMA HandoverSays == HoldsTicket(Handover, incident, order.status, HandoverGates)
<1>1. PICK z : z = ("evidence_missing" \notin order.facts)
  OBVIOUS
<1>2. PICK blockers : blockers = HandoverBlockers(incident, order.status, z, HandoverGates)
  OBVIOUS
<1>3. HoldsTicket(blockers, incident, order.status, HandoverGates)
  BY <1>2, HandoverBlockersAre, Zenon
<1>4. Handover = blockers
  BY <1>1, <1>2, Zenon DEF Handover
<1> QED BY <1>3, <1>4, Zenon

\* The gates that the two engines read: the ticket's ask for no permit and no sign-off,
\* the field's for no analysis.
LEMMA GatesOfEach ==
    ASSUME CaseInv
    PROVE  /\ \A g \in HandoverGates :
                g.prerequisite \in {"permit_closed_out", "customer_sign_off"} => g \in field
           /\ \A g \in HandoverGates :
                g.prerequisite = "rca_submitted" => \E i \in DOMAIN gates : g = gates[i]
           /\ \A i \in DOMAIN gates : gates[i] \in HandoverGates
<1>1. \A i \in DOMAIN gates : gates[i] \in ClosureGate
  BY DEF CaseInv
<1>2. \A g \in ClosureGate : g.prerequisite \notin {"permit_closed_out", "customer_sign_off"}
  BY DEF ClosureGate, ClosurePrerequisites
<1>3. \A g \in field : g.prerequisite # "rca_submitted"
  BY DEF CaseInv, FieldGate, FieldPrerequisites
<1> QED BY <1>1, <1>2, <1>3 DEF HandoverGates

\* Where the analysis of a grave incident keeps a ticket, for either engine.
LEMMA AnalysisMissing ==
    ASSUME CaseInv
    PROVE  /\ "rca_submitted" \in Closure
                <=> /\ incident.severity \in {"p1", "p2"}
                    /\ ~Satisfied(gates, "rca_submitted") /\ ~major.rca
           /\ "rca_not_submitted" \in Handover
                <=> /\ incident.severity \in {"p1", "p2"}
                    /\ ~\E i \in DOMAIN gates :
                          gates[i].prerequisite = "rca_submitted" /\ gates[i].satisfied
<1>1. "rca_submitted" \in Closure
        <=> /\ incident.severity \in {"p1", "p2"}
            /\ ~Satisfied(gates, "rca_submitted") /\ ~major.rca
  BY DEF Closure, ClosureBlockers
<1>2. (\E g \in HandoverGates : g.prerequisite = "rca_submitted" /\ g.satisfied)
        <=> \E i \in DOMAIN gates :
              gates[i].prerequisite = "rca_submitted" /\ gates[i].satisfied
  <2>1. ASSUME NEW g \in HandoverGates, g.prerequisite = "rca_submitted", g.satisfied
        PROVE  \E i \in DOMAIN gates :
                 gates[i].prerequisite = "rca_submitted" /\ gates[i].satisfied
    <3>1. PICK i \in DOMAIN gates : g = gates[i]
      BY <2>1, GatesOfEach
    <3> QED BY <2>1, <3>1
  <2>2. ASSUME NEW i \in DOMAIN gates, gates[i].prerequisite = "rca_submitted",
               gates[i].satisfied
        PROVE  \E g \in HandoverGates : g.prerequisite = "rca_submitted" /\ g.satisfied
    <3>1. gates[i] \in HandoverGates
      BY GatesOfEach
    <3> QED BY <2>2, <3>1
  <2> QED BY <2>1, <2>2, Zenon
<1>3. "rca_not_submitted" \in Handover
        <=> /\ incident.severity \in {"p1", "p2"}
            /\ ~\E g \in HandoverGates : g.prerequisite = "rca_submitted" /\ g.satisfied
  BY HandoverSays, Zenon DEF HoldsTicket
<1> QED BY <1>1, <1>2, <1>3, Zenon

\* The two judge it alike, but for an analysis under way and for one asked for twice.
LEMMA AnalysisJudgedApart ==
    ASSUME CaseInv, ~major.rca, ~Repeated("rca_submitted")
    PROVE  "rca_submitted" \in Closure <=> "rca_not_submitted" \in Handover
<1>1. \A i \in DOMAIN gates : i \in Nat
  BY DEF CaseInv
<1>2. ASSUME NEW i \in DOMAIN gates, NEW j \in DOMAIN gates, j > i,
             gates[i].prerequisite = "rca_submitted"
      PROVE  gates[j].prerequisite # "rca_submitted"
  <2>1. i < j
    BY <1>1, <1>2
  <2> QED BY <1>2, <2>1 DEF Repeated
<1>3. Satisfied(gates, "rca_submitted")
        <=> \E i \in DOMAIN gates :
              gates[i].prerequisite = "rca_submitted" /\ gates[i].satisfied
  BY <1>2, Zenon DEF Satisfied
<1> QED BY <1>3, AnalysisMissing, Zenon

\* What still holds a ticket that the closure engine passes.
LEMMA ClosedButHeld ==
    ASSUME CaseInv, Closure = {}
    PROVE  Handover \subseteq {"missing_completion_evidence", "state_alignment"}
             \cup {b \in {"open_permits", "customer_sign_off_missing"} :
                     \E g \in field : ~g.satisfied}
             \cup {b \in {"rca_not_submitted"} : major.rca}
<1>1. "rca_not_submitted" \in Handover => major.rca
  <2>1. Satisfied(gates, "rca_submitted")
          => \E i \in DOMAIN gates :
               gates[i].prerequisite = "rca_submitted" /\ gates[i].satisfied
    BY Zenon DEF Satisfied
  <2> QED BY <2>1, AnalysisMissing, Zenon
<1>2. Handover \subseteq {"missing_completion_evidence", "state_alignment", "rca_not_submitted",
                          "open_permits", "customer_sign_off_missing"}
  BY HandoverSays, Zenon DEF HoldsTicket
<1>3. "open_permits" \in Handover => \E g \in field : ~g.satisfied
  <2>1. "open_permits" \in Handover
          => \E g \in HandoverGates : g.prerequisite = "permit_closed_out" /\ ~g.satisfied
    BY HandoverSays, Zenon DEF HoldsTicket
  <2> QED BY <2>1, GatesOfEach
<1>4. "customer_sign_off_missing" \in Handover => \E g \in field : ~g.satisfied
  <2>1. "customer_sign_off_missing" \in Handover
          => \E g \in HandoverGates : g.prerequisite = "customer_sign_off" /\ ~g.satisfied
    BY HandoverSays, Zenon DEF HoldsTicket
  <2> QED BY <2>1, GatesOfEach
<1> QED BY <1>1, <1>2, <1>3, <1>4

\* EnginesAgree holds of any records of the right shape.
LEMMA EnginesCase == CaseInv => EnginesAgree
<1> SUFFICES ASSUME CaseInv PROVE EnginesAgree
  OBVIOUS
<1> DEFINE told == \E c \in Contradictions(ContractData(contract),
                        [status |-> order.status, scope |-> order.scope, rate |-> 0,
                         approved |-> order.approved], incident.state) :
                      c.field = "completion_vs_incident"
           seen == WorkOrderMismatches(incident, [state |-> order.status, owner |-> "same",
                                                  early |-> FALSE, other |-> FALSE]) /= {}
<1>1. order.status \in WorkStates /\ incident.state \in IncidentStates
  BY DEF CaseInv, WorkOrder, Incident
<1>2. told <=> \/ order.status = "completed" /\ incident.state \in {"new", "investigating", "in_progress"}
               \/ /\ order.status \in {"pending", "in_progress", "assigned"}
                  /\ incident.state \in {"resolved", "closed"}
  <2>1. PICK o : o = [status |-> order.status, scope |-> order.scope, rate |-> 0,
                      approved |-> order.approved]
    OBVIOUS
  <2>2. o.status = order.status
    BY <2>1
  <2>3. (\E c \in Contradictions(ContractData(contract), o, incident.state) :
            c.field = "completion_vs_incident")
          <=> \/ o.status = "completed" /\ incident.state \in {"new", "investigating", "in_progress"}
              \/ /\ o.status \in {"pending", "in_progress", "assigned"}
                 /\ incident.state \in {"resolved", "closed"}
    BY CompletionTold
  <2> QED BY <2>1, <2>2, <2>3, Zenon
<1>3. seen <=> order.status \notin ExpectedWorkOrderStates(incident.state)
  <2>1. PICK o : o = [state |-> order.status, owner |-> "same", early |-> FALSE, other |-> FALSE]
    OBVIOUS
  <2>2. o.state = order.status /\ o.owner = "same" /\ o.early = FALSE /\ o.other = FALSE
    BY <2>1
  <2> QED BY <2>1, <2>2, StateMismatchSeen, Zenon
<1>4. ExpectedWorkOrderStates(incident.state) =
        CASE incident.state = "new"           -> {"open", "new", "pending"}
          [] incident.state = "acknowledged"  -> {"open", "assigned", "in_progress"}
          [] incident.state = "investigating" -> {"in_progress", "assigned"}
          [] incident.state = "resolved"      -> {"completed", "resolved", "done"}
          [] incident.state = "closed"        -> {"completed", "closed", "done"}
  BY DEF ExpectedWorkOrderStates
<1>5. Handover = {} => ~(incident.state = "resolved" /\ order.status \notin {"", "completed"})
  BY HandoverSays, Zenon DEF HoldsTicket
<1> HIDE DEF told, seen
<1>6. told => seen
  BY <1>1, <1>2, <1>3, <1>4 DEF WorkStates, IncidentStates
<1>7. seen /\ ~told => \/ incident.state = "acknowledged"
                       \/ incident.state = "new" /\ order.status /= "completed"
  BY <1>1, <1>2, <1>3, <1>4 DEF WorkStates, IncidentStates
<1>8. Handover = {} /\ told => incident.state /= "resolved"
  <2> SUFFICES ASSUME Handover = {}, told, incident.state = "resolved" PROVE FALSE
    OBVIOUS
  <2>1. order.status \in {"in_progress", "assigned"}
    BY <1>1, <1>2 DEF WorkStates
  <2>2. order.status \notin {"", "completed"}
    BY <2>1
  <2> QED BY <1>5, <2>2
<1>9. Closure = {} =>
        Handover \subseteq {"missing_completion_evidence", "state_alignment"}
            \cup {b \in {"open_permits", "customer_sign_off_missing"} :
                    \E g \in field : ~g.satisfied}
            \cup {b \in {"rca_not_submitted"} : major.rca}
  BY ClosedButHeld
<1>10. ("rca_submitted" \in Closure) /= ("rca_not_submitted" \in Handover) =>
         major.rca \/ Repeated("rca_submitted")
  <2> SUFFICES ASSUME ~major.rca, ~Repeated("rca_submitted")
               PROVE  ("rca_submitted" \in Closure) = ("rca_not_submitted" \in Handover)
    BY Zenon
  <2>1. "rca_submitted" \in Closure <=> "rca_not_submitted" \in Handover
    BY AnalysisJudgedApart
  <2> QED BY <2>1
<1> QED BY <1>6, <1>7, <1>8, <1>9, <1>10, Zenon DEF EnginesAgree, told, seen

\* EnginesAgree, for every job: the contradiction detector and the rule engine, and the
\* handover and the closure engine, disagree only where the property says they do.
THEOREM EnginesAgreeAlways == Spec => []EnginesAgree
BY CaseAlways, EnginesCase, PTL

-----------------------------------------------------------------------------
(* Settling a matter.                                                      *)

Verdicts == {"healthy", "leakage_detected", "under_recovery", "penalty_risk"}

LEMMA GravityOrder ==
    /\ Gravity("healthy") = 0 /\ Gravity("leakage_detected") = 1
    /\ Gravity("under_recovery") = 2 /\ Gravity("penalty_risk") = 3
BY DEF Gravity

\* Fewer patterns and fewer conflicts make a verdict graver in one way only: the last
\* pattern, which decided, is gone and a grave conflict is there.
LEMMA FewerMatters ==
    ASSUME NEW patterns, NEW conflicts, NEW liability,
           NEW fewer \in SUBSET patterns, NEW less \in SUBSET conflicts,
           Gravity(BundleVerdict(fewer, less, liability))
             > Gravity(BundleVerdict(patterns, conflicts, liability))
    PROVE  /\ BundleVerdict(patterns, conflicts, liability) = "leakage_detected"
           /\ fewer = {}
           /\ \E c \in conflicts : c.severity \in {"error", "critical"}
<1> DEFINE accountable == Conflict("sla_accountability", "critical") \in liability
           grave(cs) == \E c \in cs : c.severity \in {"error", "critical"}
<1>1. PICK v : v = BundleVerdict(patterns, conflicts, liability)
  OBVIOUS
<1>2. PICK w : w = BundleVerdict(fewer, less, liability)
  OBVIOUS
<1>3. /\ v = "healthy" <=> ~accountable /\ patterns = {} /\ conflicts = {}
      /\ v = "penalty_risk" <=> accountable
      /\ v = "under_recovery" <=> /\ ~accountable
                                  /\ \/ patterns \cap GravePatterns /= {}
                                     \/ patterns = {} /\ grave(conflicts)
      /\ v \in Verdicts
  BY <1>1, VerdictSays DEF Verdicts
<1>4. /\ w = "healthy" <=> ~accountable /\ fewer = {} /\ less = {}
      /\ w = "penalty_risk" <=> accountable
      /\ w = "under_recovery" <=> /\ ~accountable
                                  /\ \/ fewer \cap GravePatterns /= {}
                                     \/ fewer = {} /\ grave(less)
      /\ w \in Verdicts
  BY <1>2, VerdictSays DEF Verdicts
<1>5. grave(less) => grave(conflicts)
  OBVIOUS
<1>6. Gravity(w) > Gravity(v)
  BY <1>1, <1>2
<1> HIDE DEF accountable, grave
<1>7. ~accountable
  BY <1>3, <1>4, <1>6, GravityOrder DEF Verdicts
<1>8. v # "healthy"
  <2>1. v = "healthy" => w = "healthy"
    BY <1>3, <1>4, <1>7
  <2> QED BY <1>6, <2>1, GravityOrder
<1>9. v # "under_recovery" /\ v # "penalty_risk"
  BY <1>3, <1>4, <1>6, <1>7, GravityOrder DEF Verdicts
<1>10. v = "leakage_detected"
  BY <1>3, <1>8, <1>9 DEF Verdicts
<1>11. w = "under_recovery"
  BY <1>4, <1>6, <1>7, <1>10, GravityOrder DEF Verdicts
<1>12. fewer = {} /\ grave(less)
  BY <1>3, <1>4, <1>7, <1>9, <1>11
<1> QED BY <1>1, <1>5, <1>10, <1>12 DEF grave

\* Settling a matter adds neither a blocker nor a pattern, nor touches what the
\* detector compares.
LEMMA SettledHasLess ==
    ASSUME NEW o \in WorkOrder, NEW base,
           NEW fact \in DOMAIN Answers \cup {"evidence_missing", "gates_open"}
    PROVE  /\ BillingBlockers(Settled(o, fact)) \subseteq BillingBlockers(o)
           /\ WorkPatterns(Settled(o, fact), base) \subseteq WorkPatterns(o, base)
           /\ Settled(o, fact).status = o.status /\ Settled(o, fact).scope = o.scope
           /\ Settled(o, fact).billed = o.billed /\ Settled(o, fact).approved = o.approved
<1>1. PICK p : p = Settled(o, fact)
  OBVIOUS
<1>2. p \in WorkOrder /\ p = [o EXCEPT !.facts = p.facts]
  BY <1>1, SettledIsWorkOrder
<1>3. /\ p.status = o.status /\ p.scope = o.scope /\ p.billed = o.billed
      /\ p.approved = o.approved /\ p.contract = o.contract
  BY <1>2 DEF WorkOrder
<1> DEFINE answering == {"signed", "variation_order", "permit_recovered", "abortive_claimed",
                         "invoiced", "escalation_applied"}
<1>4. \A f \in DOMAIN Answers : Answers[f] \in answering
  BY DEF Answers
<1>5. /\ \A f : f \notin answering => (f \in p.facts => f \in o.facts)
      /\ \A f \in answering : f \in o.facts => f \in p.facts
  <2>1. CASE fact \in {"evidence_missing", "gates_open"}
    <3>1. p.facts = o.facts \ {fact}
      BY <1>1, <2>1, SettledIsWorkOrder
    <3> QED BY <2>1, <3>1
  <2>2. CASE fact \notin {"evidence_missing", "gates_open"}
    <3>1. p.facts = o.facts \cup {Answers[fact]} /\ Answers[fact] \in answering
      BY <1>1, <1>4, <2>2, SettledIsWorkOrder
    <3> QED BY <3>1
  <2> QED BY <2>1, <2>2
<1>6. /\ "evidence_missing" \in p.facts => "evidence_missing" \in o.facts
      /\ "gates_open" \in p.facts => "gates_open" \in o.facts
      /\ "provider_fault" \in p.facts => "provider_fault" \in o.facts
      /\ "emergency" \in p.facts => "emergency" \in o.facts
      /\ "completed" \in p.facts => "completed" \in o.facts
      /\ "reattendance_billed" \in p.facts => "reattendance_billed" \in o.facts
      /\ "escalation_priced" \in p.facts => "escalation_priced" \in o.facts
      /\ Without(p, "daywork", "signed") => Without(o, "daywork", "signed")
      /\ Without(p, "variation", "variation_order") => Without(o, "variation", "variation_order")
      /\ Without(p, "completed", "invoiced") => Without(o, "completed", "invoiced")
      /\ Without(p, "abortive", "abortive_claimed") => Without(o, "abortive", "abortive_claimed")
      /\ Without(p, "permit_cost", "permit_recovered") => Without(o, "permit_cost", "permit_recovered")
      /\ Without(p, "escalation_due", "escalation_applied")
           => Without(o, "escalation_due", "escalation_applied")
  BY <1>5 DEF Without
<1>7. BillingBlockers(p) \subseteq BillingBlockers(o)
  BY <1>6, BillingBlockersAre
<1>8. WorkPatterns(p, base) \subseteq WorkPatterns(o, base)
  BY <1>3, <1>6, WorkPatternsAre
<1> QED BY <1>1, <1>3, <1>7, <1>8

\* One more blocker excuses a breach or leaves it as it was: it never makes the
\* provider answer again, and all it adds is a warning.
LEMMA OneMoreBlocker ==
    ASSUME NEW blockers \in Seq(Blockers), NEW b \in Blockers, NEW status
    PROVE  /\ Accountable(Append(blockers, b)) => Accountable(blockers)
           /\ \A c \in SlaConflicts(status, Append(blockers, b)) :
                \/ c \in SlaConflicts(status, blockers)
                \/ c = Conflict("sla_mitigation", "warning")
<1>1. PICK more : more = Append(blockers, b)
  OBVIOUS
<1>2. DOMAIN blockers \subseteq DOMAIN more /\ \A i \in DOMAIN blockers : more[i] = blockers[i]
  BY <1>1
<1>3. Mitigating(blockers) \subseteq Mitigating(more)
  BY <1>2 DEF Mitigating
<1>4. Accountable(more) => Accountable(blockers)
  <2> SUFFICES ASSUME Accountable(more), NEW i \in Mitigating(blockers)
               PROVE  Mitigation[blockers[i]]
    BY DEF Accountable
  <2>1. i \in Mitigating(more) /\ more[i] = blockers[i]
    BY <1>2, <1>3 DEF Mitigating
  <2> QED BY <2>1, Zenon DEF Accountable
<1>5. \A c \in SlaConflicts(status, more) :
        \/ c \in SlaConflicts(status, blockers)
        \/ c = Conflict("sla_mitigation", "warning")
  <2> SUFFICES ASSUME NEW c \in SlaConflicts(status, more),
                      c # Conflict("sla_mitigation", "warning")
               PROVE  c \in SlaConflicts(status, blockers)
    OBVIOUS
  <2>1. c = Conflict("sla_accountability", "critical")
    BY LiabilitySays
  <2>2. status = "breached" /\ Accountable(more)
    BY <2>1, LiabilitySays
  <2> QED BY <1>4, <2>1, <2>2, LiabilitySays
<1> QED BY <1>1, <1>4, <1>5

\* The conflicts of a breach with one more blocker, compared with those without it.
Excused(liability, more) ==
    /\ Conflict("sla_accountability", "critical") \in more =>
         Conflict("sla_accountability", "critical") \in liability
    /\ \A c \in more : c \in liability \/ c = Conflict("sla_mitigation", "warning")

\* Recording a blocker makes a verdict graver only from "healthy" to "leakage_detected".
LEMMA BlockerUncovers ==
    ASSUME NEW patterns, NEW others, NEW liability, NEW more, Excused(liability, more),
           Gravity(BundleVerdict(patterns, others \cup more, more))
             > Gravity(BundleVerdict(patterns, others \cup liability, liability))
    PROVE  /\ BundleVerdict(patterns, others \cup liability, liability) = "healthy"
           /\ BundleVerdict(patterns, others \cup more, more) = "leakage_detected"
<1> DEFINE answers(l) == Conflict("sla_accountability", "critical") \in l
           grave(cs) == \E c \in cs : c.severity \in {"error", "critical"}
<1>1. PICK v : v = BundleVerdict(patterns, others \cup liability, liability)
  OBVIOUS
<1>2. PICK w : w = BundleVerdict(patterns, others \cup more, more)
  OBVIOUS
<1>3. /\ v = "healthy" <=> ~answers(liability) /\ patterns = {} /\ others \cup liability = {}
      /\ v = "penalty_risk" <=> answers(liability)
      /\ v = "under_recovery" <=> /\ ~answers(liability)
                                  /\ \/ patterns \cap GravePatterns /= {}
                                     \/ patterns = {} /\ grave(others \cup liability)
      /\ v \in Verdicts
  BY <1>1, VerdictSays DEF Verdicts
<1>4. /\ w = "healthy" <=> ~answers(more) /\ patterns = {} /\ others \cup more = {}
      /\ w = "penalty_risk" <=> answers(more)
      /\ w = "under_recovery" <=> /\ ~answers(more)
                                  /\ \/ patterns \cap GravePatterns /= {}
                                     \/ patterns = {} /\ grave(others \cup more)
      /\ w \in Verdicts
  BY <1>2, VerdictSays DEF Verdicts
<1>5. Gravity(w) > Gravity(v)
  BY <1>1, <1>2
<1>6. Conflict("sla_mitigation", "warning").severity = "warning"
  BY DEF Conflict
<1>7. grave(others \cup more) => grave(others \cup liability)
  BY <1>6 DEF Excused
<1>8. answers(more) => answers(liability)
  BY DEF Excused
<1> HIDE DEF answers, grave
<1>9. ~answers(liability) /\ ~answers(more)
  BY <1>3, <1>4, <1>5, <1>8, GravityOrder DEF Verdicts
<1>10. w = "under_recovery" => v = "under_recovery"
  BY <1>3, <1>4, <1>7, <1>9
<1>11. w # "under_recovery" /\ w # "penalty_risk" /\ w # "healthy"
  <2>1. w # "under_recovery"
    BY <1>5, <1>10, GravityOrder
  <2>2. w # "penalty_risk"
    BY <1>4, <1>9
  <2>3. w # "healthy"
    BY <1>3, <1>5, GravityOrder DEF Verdicts
  <2> QED BY <2>1, <2>2, <2>3
<1>12. w = "leakage_detected"
  BY <1>4, <1>11 DEF Verdicts
<1>13. v = "healthy"
  BY <1>3, <1>5, <1>12, GravityOrder DEF Verdicts
<1> QED BY <1>1, <1>2, <1>12, <1>13

\* The step of SettlingOnlyUncovers.
UncoversStep ==
    /\ Settling \/ \E b \in Blockers : RecordBlocker(b)
    /\ Gravity(Diagnosis'.verdict) > Gravity(Diagnosis.verdict)
    => \/ Diagnosis.verdict = "leakage_detected" /\ Diagnosis'.patterns = {}
          /\ \E c \in Diagnosis.conflicts : c.severity \in {"error", "critical"}
       \/ Diagnosis.verdict = "healthy" /\ Diagnosis'.verdict = "leakage_detected"
          /\ sla'.blockers /= sla.blockers

LEMMA UncoversCase == CaseInv /\ CaseInv' => UncoversStep
<1> SUFFICES ASSUME CaseInv, CaseInv',
                    Settling \/ \E b \in Blockers : RecordBlocker(b),
                    Gravity(Diagnosis'.verdict) > Gravity(Diagnosis.verdict)
             PROVE  \/ Diagnosis.verdict = "leakage_detected" /\ Diagnosis'.patterns = {}
                       /\ \E c \in Diagnosis.conflicts : c.severity \in {"error", "critical"}
                    \/ Diagnosis.verdict = "healthy" /\ Diagnosis'.verdict = "leakage_detected"
                       /\ sla'.blockers /= sla.blockers
  BY DEF UncoversStep
<1>1. sla.uncredited \in BOOLEAN /\ sla'.uncredited \in BOOLEAN
      /\ sla.blockers \in Seq(Blockers) /\ order \in WorkOrder
  BY DEF CaseInv, SlaRecord
<1>2. PICK p, f, l : /\ p = AllPatterns(contract, order, sla)
                     /\ f = AllConflicts(contract, order, incident, sla)
                     /\ l = Liability(sla)
  OBVIOUS
<1>3. PICK pp, ff, ll : /\ pp = AllPatterns(contract', order', sla')
                        /\ ff = AllConflicts(contract', order', incident', sla')
                        /\ ll = Liability(sla')
  OBVIOUS
<1>4. /\ Diagnosis.verdict = BundleVerdict(p, f, l)
      /\ Diagnosis.conflicts = f
  BY <1>1, <1>2, DiagnosisParts DEF Diagnosis
<1>5. /\ Diagnosis'.verdict = BundleVerdict(pp, ff, ll)
      /\ Diagnosis'.patterns = pp
  <2>1. Diagnosis' = Diagnose(contract', order', incident', sla')
    BY DEF Diagnosis
  <2> QED BY <1>1, <1>3, <2>1, DiagnosisParts
<1>6. Gravity(BundleVerdict(pp, ff, ll)) > Gravity(BundleVerdict(p, f, l))
  BY <1>4, <1>5
<1>7. ASSUME pp \subseteq p, ff \subseteq f, ll = l
      PROVE  /\ Diagnosis.verdict = "leakage_detected" /\ Diagnosis'.patterns = {}
             /\ \E c \in Diagnosis.conflicts : c.severity \in {"error", "critical"}
  BY <1>4, <1>5, <1>6, <1>7, FewerMatters
<1>8. ASSUME NEW fact \in DOMAIN Answers \cup {"evidence_missing", "gates_open"}, Settle(fact)
      PROVE  pp \subseteq p /\ ff \subseteq f /\ ll = l
  <2>1. order' = Settled(order, fact) /\ contract' = contract /\ incident' = incident /\ sla' = sla
    BY <1>8 DEF Settle
  <2>2. /\ BillingBlockers(order') \subseteq BillingBlockers(order)
        /\ WorkPatterns(order', contract.rate) \subseteq WorkPatterns(order, contract.rate)
        /\ order'.status = order.status /\ order'.scope = order.scope
        /\ order'.billed = order.billed /\ order'.approved = order.approved
    BY <1>1, <2>1, SettledHasLess
  <2>3. Billing(order') \subseteq Billing(order)
    BY <2>2 DEF Billing
  <2>4. Told(contract', order', incident') = Told(contract, order, incident)
    BY <2>1, <2>2 DEF Told
  <2>5. pp \subseteq p
    BY <1>2, <1>3, <2>1, <2>2 DEF AllPatterns
  <2> QED BY <1>2, <1>3, <2>1, <2>3, <2>4, <2>5 DEF AllConflicts
<1>9. CASE CreditSla
  <2>1. /\ order' = order /\ contract' = contract /\ incident' = incident
        /\ sla'.status = sla.status /\ sla'.blockers = sla.blockers /\ ~sla'.uncredited
    BY <1>9 DEF CreditSla, CaseInv, SlaRecord
  <2>2. ll = l
    BY <1>2, <1>3, <2>1 DEF Liability
  <2>3. pp \subseteq p
    BY <1>2, <1>3, <2>1 DEF AllPatterns
  <2>4. ff = f
    BY <1>2, <1>3, <2>1, <2>2 DEF AllConflicts
  <2> QED BY <1>7, <2>2, <2>3, <2>4
<1>10. ASSUME NEW b \in Blockers, RecordBlocker(b)
       PROVE  Diagnosis.verdict = "healthy" /\ Diagnosis'.verdict = "leakage_detected"
              /\ sla'.blockers /= sla.blockers
  <2>1. /\ order' = order /\ contract' = contract /\ incident' = incident
        /\ sla'.status = sla.status /\ sla'.blockers = Append(sla.blockers, b)
        /\ sla'.uncredited = sla.uncredited
    BY <1>10 DEF RecordBlocker, CaseInv, SlaRecord
  <2>2. sla'.blockers /= sla.blockers
    <3>1. Len(Append(sla.blockers, b)) # Len(sla.blockers)
      BY <1>1
    <3> QED BY <2>1, <3>1
  <2>3. pp = p
    BY <1>2, <1>3, <2>1 DEF AllPatterns
  <2>4. PICK others : others = Billing(order) \cup Told(contract, order, incident)
    OBVIOUS
  <2>5. f = others \cup l /\ ff = others \cup ll
    BY <1>2, <1>3, <2>1, <2>4 DEF AllConflicts
  <2>6. Excused(l, ll)
    <3>1. l = SlaConflicts(sla.status, sla.blockers)
          /\ ll = SlaConflicts(sla.status, Append(sla.blockers, b))
      BY <1>2, <1>3, <2>1 DEF Liability
    <3> QED BY <1>1, <3>1, OneMoreBlocker, LiabilitySays DEF Excused
  <2>7. Gravity(BundleVerdict(p, others \cup ll, ll)) > Gravity(BundleVerdict(p, others \cup l, l))
    BY <1>6, <2>3, <2>5
  <2>8. BundleVerdict(p, others \cup l, l) = "healthy"
        /\ BundleVerdict(p, others \cup ll, ll) = "leakage_detected"
    BY <2>6, <2>7, BlockerUncovers
  <2> QED BY <1>4, <1>5, <2>2, <2>3, <2>5, <2>8
<1> QED BY <1>7, <1>8, <1>9, <1>10 DEF Settling

\* SettlingOnlyUncovers, for every job and list of blockers: settling a matter makes a
\* diagnosis graver only by uncovering the conflicts a mild pattern hid, and recording a
\* blocker only from "healthy" to "leakage_detected".
THEOREM SettlingUncovers == Spec => SettlingOnlyUncovers
<1>1. CaseInv /\ [Next]_vars => CaseInv'
  BY CaseInvStep
<1>2. CaseInv /\ CaseInv' => [UncoversStep]_vars
  BY UncoversCase
<1> QED BY CaseInvInit, <1>1, <1>2, PTL DEF Spec, SettlingOnlyUncovers, UncoversStep

=============================================================================
