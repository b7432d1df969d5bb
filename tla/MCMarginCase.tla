---------------------------- MODULE MCMarginCase ----------------------------
(* Jobs with up to two open matters and two rates above the contract's, by  *)
(* less and by more than the tolerance, one of the contracts naming none;   *)
(* jobs with no open matter but the evidence whose ticket has the gates the *)
(* closure asks for, and major incidents whose analysis is asked for twice. *)
EXTENDS MarginCase

OpenMatters == {"evidence_missing", "gates_open", "daywork", "variation", "permit_cost",
                "abortive", "provider_fault", "escalation_due"}
Open == {{a, b} : a, b \in OpenMatters} \cup {{"escalation_due", "escalation_priced"}}
Order(facts, billed, scopes) ==
    [facts : facts, billed : billed, contract : {100}, status : {"assigned"}, scope : scopes,
     approved : {FALSE}]
ContractOf(scope, rates) == [scope : {scope}, rate : rates, approval : {TRUE}]
IncidentOf(severities) == [severity : severities, owned : {TRUE}, state : {"new"}]
Rich(contractScope, rates, scope) ==
    [contract : ContractOf(contractScope, rates),
     order : Order(Open, {0, 101, 104}, {scope}),
     incident : IncidentOf({"p2"}), gates : {<<>>}, field : {{}}, major : {NoMajor}]
Gate(p, satisfied) ==
    [prerequisite |-> p, mandatory |-> p /= "rca_submitted", satisfied |-> satisfied]
Closing(severities, ticket, handover, record) ==
    [contract : ContractOf("none", {100}),
     order : Order({{}, {"evidence_missing"}}, {0}, {"in_scope"}),
     incident : IncidentOf(severities), gates : {ticket}, field : {handover}, major : {record}]
MCJobs ==
    Rich("in", {100}, "out_of_scope") \cup Rich("out", {100}, "in_scope")
    \cup Rich("none", {0, 100}, "in_scope")
    \cup Closing({"p1", "p3"},
             <<Gate("service_restored", FALSE), Gate("customer_notified", FALSE),
               Gate("rca_submitted", FALSE), Gate("problem_record_created", FALSE)>>,
             {[prerequisite |-> p, satisfied |-> FALSE] : p \in FieldPrerequisites}, NoMajor)
    \cup Closing({"p1"},
             <<Gate("service_restored", TRUE), Gate("customer_notified", TRUE),
               Gate("rca_submitted", FALSE), Gate("rca_submitted", FALSE)>>,
             {}, [NoMajor EXCEPT !.present = TRUE])
=============================================================================
