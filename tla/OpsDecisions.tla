---------------------------- MODULE OpsDecisions ----------------------------
(***************************************************************************)
(* Incident decisions: the rule engines and the validators of              *)
(* app/domain_packs/telco_ops as operators.  An incident is a record       *)
(* [severity, state, services, tags, words, owned, timeline]: "services"   *)
(* is a sequence, "words" the kinds of fault whose keywords its text       *)
(* contains, "timeline" the length of its timeline.                        *)
(***************************************************************************)
EXTENDS FiniteSets, Integers, Sequences

Severities == {"p1", "p2", "p3", "p4"}
IncidentStates == {"new", "acknowledged", "investigating", "resolved", "closed"}
CriticalServices == {"core_network", "voice_platform", "billing", "hss", "mme"}
CriticalDomains == {"core_network", "billing_mediation"}
NoLevel == "none"
LevelOrder(level) ==
    CASE level = "l1" -> 1 [] level = "l2" -> 2 [] level = "l3" -> 3
      [] level = "management" -> 4 [] OTHER -> 0

\* What the schema admits.
ParsedIncident == [severity : Severities, state : IncidentStates, services : Seq(STRING),
                   tags : SUBSET STRING, words : SUBSET STRING, owned : BOOLEAN, timeline : Nat]

ServicesOf(inc) == {inc.services[i] : i \in DOMAIN inc.services}

---------------------------------------------------------------------------
(* EscalationRuleEngine.evaluate: six rules, each overwriting the level    *)
(* the previous ones chose.  The third one compares the names of levels,   *)
(* "management" being the greatest of them.                                *)

BySeverity(inc) ==
    CASE inc.severity = "p1" -> "l3" [] inc.severity = "p2" -> "l2" [] OTHER -> NoLevel
BySlaBreach(level) == IF level = "l3" THEN "management" ELSE "l3"
\* Mutant: a repeated incident is set to the floor, whatever was decided.
AtLeastOverwrites(level, floor) == floor
AtLeast(level, floor) ==
    IF LevelOrder(level) < LevelOrder(floor) THEN floor ELSE level

Escalation(inc, service, breached, repeat) ==
    LET l1 == BySeverity(inc)
        l2 == IF breached THEN BySlaBreach(l1) ELSE l1
        l3 == IF repeat >= 3 THEN AtLeast(l2, "l2") ELSE l2
        l4 == IF service = "outage" THEN "l3" ELSE l3
        l5 == IF Cardinality(ServicesOf(inc) \cap CriticalServices) >= 2
              THEN "management" ELSE l4
    IN IF inc.severity = "p2" /\ breached THEN "management" ELSE l5

EscalationOwner(level) ==
    CASE level = "l1" -> "service_desk"
      [] level = "l2" -> "engineering_team"
      [] level = "l3" -> "senior_engineering"
      [] level = "management" -> "service_delivery_manager"
      [] OTHER -> ""

---------------------------------------------------------------------------
(* ActionRuleEngine.evaluate and the table of actions valid in a state.    *)

ValidActions(state) ==
    CASE state = "new"           -> {"investigate", "assign_engineer", "escalate"}
      [] state = "acknowledged"  -> {"investigate", "dispatch", "escalate"}
      [] state = "investigating" -> {"dispatch", "resolve", "escalate", "monitor"}
      [] state = "resolved"      -> {"close", "reopen", "monitor"}
      [] state = "closed"        -> {"reopen"}

\* Mutant: a runbook is followed whatever the state of the incident.
NextActionRunbookFirst(state, service, runbook, owned) ==
    IF runbook THEN "dispatch" ELSE IF state = "closed" THEN "reopen" ELSE "escalate"
NextAction(state, service, runbook, owned) ==
    CASE state = "new" -> IF owned THEN "investigate" ELSE "assign_engineer"
      [] state = "investigating" /\ service = "outage" -> "escalate"
      [] state = "investigating" /\ service /= "outage" ->
             IF runbook THEN "dispatch" ELSE "investigate"
      [] state = "resolved" -> "close"
      [] state = "acknowledged" -> "investigate"
      [] state = "closed" -> "reopen"

\* The answer the validator sees names neither owner nor evidence.
Proposed(action) == [action |-> action, owned |-> FALSE, evidenced |-> FALSE]

---------------------------------------------------------------------------
(* ReconciliationRuleEngine: the state of an incident against the state of *)
(* its work order and of its service.  A mismatch is [field, severity]; a  *)
(* recommendation is the field it is about.                                *)

ExpectedWorkOrderStates(state) ==
    CASE state = "new"           -> {"open", "new", "pending"}
      [] state = "acknowledged"  -> {"open", "assigned", "in_progress"}
      [] state = "investigating" -> {"in_progress", "assigned"}
      [] state = "resolved"      -> {"completed", "resolved", "done"}
      [] state = "closed"        -> {"completed", "closed", "done"}

Mismatch(field, severity) == [field |-> field, severity |-> severity]

\* A work order is [state, owner, early, other]: "owner" is "same" or "other",
\* "early" that it is older than the acknowledgement of the incident, "other"
\* that it names another cause.
WorkOrderMismatches(inc, order) ==
    {m \in {Mismatch("state", "error")} :
        order.state \notin ExpectedWorkOrderStates(inc.state)}
    \cup {m \in {Mismatch("assigned_to", "warning")} : inc.owned /\ order.owner = "other"}
    \cup {m \in {Mismatch("timeline", "warning")} : order.early}
    \cup {m \in {Mismatch("resolution", "info")} :
            inc.state = "resolved" /\ order.state \in {"completed", "done"} /\ order.other}

ServiceMismatches(inc, service, name, impact) ==
    LET impacts == CASE inc.severity \in {"p1", "p2"} -> {"critical", "major"}
                     [] inc.severity = "p3" -> {"minor", "major"}
                     [] inc.severity = "p4" -> {"negligible", "minor"}
    IN {m \in {Mismatch("impact_level", "warning")} : impact \notin impacts}
       \cup {m \in {Mismatch("affected_services", "error")} :
                inc.services /= <<>> /\ name \notin ServicesOf(inc)}
       \cup {m \in {Mismatch("resolution_state", "critical")} :
                \/ inc.state = "resolved" /\ service = "outage"
                \/ inc.state = "closed" /\ service \in {"outage", "degraded"}}

Recommendations(mismatches) ==
    {m.field : m \in {n \in mismatches : n.field \in {"state", "impact_level", "resolution_state"}}}

ReconciliationStatus(mismatches) ==
    IF mismatches = {} THEN "aligned"
    ELSE IF \E m \in mismatches : m.severity \in {"critical", "error"}
         THEN "mismatched" ELSE "partial"

---------------------------------------------------------------------------
(* The Vodafone engines: SLA status, escalation, closure and dispatch.     *)

Sla == [p1 |-> [response |-> 15,  resolution |-> 240,  update |-> 15,   bridge |-> TRUE],
        p2 |-> [response |-> 30,  resolution |-> 480,  update |-> 30,   bridge |-> TRUE],
        p3 |-> [response |-> 240, resolution |-> 1440, update |-> 240,  bridge |-> FALSE],
        p4 |-> [response |-> 480, resolution |-> 7200, update |-> 1440, bridge |-> FALSE]]

ThresholdStatus(elapsed, limit) ==
    CASE elapsed >= limit -> "breached"
      [] elapsed < limit /\ elapsed * 100 >= 80 * limit -> "warning"
      [] OTHER -> "within"

SlaStatus(inc, elapsed) ==
    LET d == Sla[inc.severity]
    IN [response   |-> ThresholdStatus(elapsed, d.response),
        resolution |-> ThresholdStatus(elapsed, d.resolution),
        overdue    |-> elapsed > 0 /\ (elapsed % d.update = 0 \/ elapsed > d.update),
        bridge     |-> d.bridge]

\* An SLA definition that asks for a bridge call counts as an outage.
IsOutage(inc, sla) == "outage" \in inc.tags \/ sla.bridge

VodafoneBySeverity(inc, sla) ==
    CASE inc.severity = "p1" -> "l3"
      [] inc.severity = "p2" -> IF IsOutage(inc, sla) THEN "l3" ELSE "l2"
      [] inc.severity = "p3" -> IF sla.resolution = "warning" THEN "l2" ELSE "l1"
      [] inc.severity = "p4" -> NoLevel

Elevated(level) ==
    CASE level = "l1" -> "l2" [] level = "l2" -> "l3" [] level = "l3" -> "management"
      [] OTHER -> level

VodafoneLevel(inc, sla, domain, repeat) ==
    LET l1 == VodafoneBySeverity(inc, sla)
        l2 == IF domain \in CriticalDomains THEN Elevated(l1) ELSE l1
        l3 == IF sla.resolution = "breached" THEN "management" ELSE l2
    IN IF repeat >= 3 THEN AtLeast(l3, "l3") ELSE l3

\* The prerequisites that fail; a gate is [prerequisite, mandatory, satisfied],
\* "major" the record of the major incident, or NoMajor: its "rca" is an analysis
\* that is under way or submitted.  The last gate of a prerequisite counts.
NoMajor == [present |-> FALSE, rca |-> FALSE, problem |-> FALSE, bridge |-> FALSE,
            comms |-> FALSE]
Satisfied(gates, p) ==
    \E i \in DOMAIN gates :
        /\ gates[i].prerequisite = p /\ gates[i].satisfied
        /\ \A j \in DOMAIN gates : j > i => gates[j].prerequisite /= p
ClosureBlockers(inc, gates, major) ==
    {p \in {"service_restored", "customer_notified"} : ~Satisfied(gates, p)}
    \cup {p \in {"rca_submitted"} : /\ inc.severity \in {"p1", "p2"}
                                    /\ ~Satisfied(gates, p) /\ ~major.rca}
    \cup {p \in {"problem_record_created"} : /\ inc.severity \in {"p1", "p2"}
                                             /\ ~Satisfied(gates, p) /\ ~major.problem}
    \cup {p \in {"bridge_call"} : major.present /\ ~major.bridge}
    \cup {p \in {"customer_comms"} : major.present /\ ~major.comms}
    \cup {p \in {"mandatory_gates"} : \E i \in DOMAIN gates : gates[i].mandatory /\ ~gates[i].satisfied}

\* The first kind of fault the text names decides.
FieldFaults == {"hardware", "power", "fibre"}
VodafoneAction(inc, attempted) ==
    CASE inc.words \cap FieldFaults /= {} -> "dispatch"
      [] inc.words \cap FieldFaults = {} /\ "security" \in inc.words ->
             IF attempted THEN "dispatch" ELSE "isolate"
      [] OTHER -> IF attempted THEN "dispatch" ELSE "remote_remediation"

---------------------------------------------------------------------------
(* TelcoOpsValidator: the checks on the engines' answers.                  *)

MinimumLevel(severity) ==
    CASE severity = "p1" -> "l3" [] severity = "p2" -> "l2" [] OTHER -> NoLevel
KnownOwners == {"service_desk", "engineering_team", "senior_engineering",
                "service_delivery_manager", "on_call_engineer", "noc"}

EscalationFailures(inc, level, owner) ==
    {f \in {"unsupported_owner"} : level /= NoLevel /\ owner \notin KnownOwners}
    \cup {f \in {"wrong_level"} :
            level /= NoLevel /\ LevelOrder(level) < LevelOrder(MinimumLevel(inc.severity))}
    \cup {f \in {"closed_incident"} : level /= NoLevel /\ inc.state = "closed"}

NeedOwner == {"dispatch", "assign_engineer", "escalate", "resolve"}
SlaTags == {"sla_breach", "sla-breach", "sla_warning"}
\* "action" is [action, owned, evidenced]: whether it names an owner and evidence.
ActionFailures(inc, action) ==
    {f \in {"invalid_action_for_state"} : action.action \notin ValidActions(inc.state)}
    \cup {f \in {"missing_owner_on_action"} : action.action \in NeedOwner /\ ~action.owned}
    \cup {f \in {"action_without_evidence"} : ~action.evidenced}
    \cup {f \in {"sla_breach_without_escalation"} :
            inc.tags \cap SlaTags /= {} /\ action.action /= "escalate"}

\* The check of a typed result and the one of a result's dictionary; the others
\* look at what the engine gives every result.
ReconciliationFailures(mismatches) ==
    {f \in {"mismatches_without_recommendations"} :
        mismatches /= {} /\ Recommendations(mismatches) = {}}
    \cup {f \in {"reconciliation_recommendations_present"} :
        ReconciliationStatus(mismatches) = "mismatched" /\ Recommendations(mismatches) = {}}
=============================================================================
