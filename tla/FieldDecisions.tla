--------------------------- MODULE FieldDecisions ---------------------------
(***************************************************************************)
(* Dispatch readiness of field work: the rule engines of                   *)
(* app/domain_packs/utilities_field/rules.py as operators on a job.  A     *)
(* general job is a record [type, skills, gas, permits, held, known]; a    *)
(* SPEN job is [category, held, crew, permits, design, confirmed,          *)
(* materials, traffic, gates].  Names are compared for equality or looked  *)
(* for as substrings; the tables below say which names contain which word. *)
(***************************************************************************)
EXTENDS FiniteSets, Integers

PermitTypes == {"street_works", "confined_space", "hot_works", "height_works"}
Permits == [type : PermitTypes, required : BOOLEAN, obtained : BOOLEAN]

\* What the schemas admit: names are any text.
PermitRequirement == [type : STRING, required : BOOLEAN, obtained : BOOLEAN]
ReadinessGate == [required : BOOLEAN, satisfied : BOOLEAN, blocking : BOOLEAN]
GeneralJob == [type : STRING, skills : SUBSET STRING, gas : BOOLEAN,
               permits : SUBSET PermitRequirement, held : SUBSET STRING, known : SUBSET STRING]
SpenJob == [category : STRING, held : SUBSET STRING, crew : Nat,
            permits : SUBSET PermitRequirement, design : BOOLEAN, confirmed : BOOLEAN,
            materials : BOOLEAN, traffic : BOOLEAN, gates : SUBSET ReadinessGate]

Blocker(kind, what, severity) ==
    [kind |-> kind, what |-> what, severity |-> severity]

\* Mutant: a warning is looked for first.
ReadinessStatusWarningFirst(blockers) ==
    IF \E b \in blockers : b.severity = "warning" THEN "conditional"
    ELSE IF \E b \in blockers : b.severity = "error" THEN "blocked"
    ELSE "ready"

\* Errors block, warnings only make the dispatch conditional.
ReadinessStatus(blockers) ==
    IF \E b \in blockers : b.severity = "error" THEN "blocked"
    ELSE IF \E b \in blockers : b.severity = "warning" THEN "conditional"
    ELSE "ready"

---------------------------------------------------------------------------
(* ReadinessRuleEngine: the general engine.                                *)

\* The valid accreditations a name of which contains the word: the word for
\* hot works is written with a blank, the certificate's name without one.
Mentions(word) ==
    CASE word = "confined" -> {"confined_space_certification"}
      [] word = "height"   -> {"working at height"}
      [] word = "hot work" -> {"hot work permit holder"}
      [] word = "gas safe" -> {"gas safe register"}

SafetyWord(permit) ==
    CASE permit = "confined_space" -> {"confined"}
      [] permit = "height_works"   -> {"height"}
      [] permit = "hot_works"      -> {"hot work"}
      [] OTHER                     -> {}

\* SafetyRuleEngine.evaluate.
SafetyBlockers(job) ==
    LET words == (UNION {SafetyWord(p.type) : p \in job.permits})
                    \cup (IF job.gas THEN {"gas safe"} ELSE {})
    IN {Blocker("safety", w, "error") :
            w \in {v \in words : Mentions(v) \cap job.held = {}}}

RequiredAccreditations(job) ==
    (IF job.type \in {"installation", "repair"} THEN {"general_competency"} ELSE {})
    \cup {"confined_space_certification" : p \in {q \in job.permits : q.type = "confined_space"}}
    \cup {"hot_works_certification" : p \in {q \in job.permits : q.type = "hot_works"}}

OpenPermits(permits) ==
    {Blocker("permit", p.type, "error") :
        p \in {q \in permits : q.required /\ ~q.obtained}}

MissingAccreditations(required, held) ==
    {Blocker("accreditation", a, "error") : a \in required \ held}

Blockers(job) ==
    {Blocker("skill", s, "error") : s \in job.skills \ job.known}
    \cup OpenPermits(job.permits)
    \cup SafetyBlockers(job)
    \cup MissingAccreditations(RequiredAccreditations(job), job.held)

---------------------------------------------------------------------------
(* SPENReadinessEngine: the tables and the eight checks.                   *)

CategoryAccreditations == [
    hv_switching             |-> {"hv_authorized_person", "ecs_card", "first_aid_at_work"},
    lv_fault_repair          |-> {"lv_authorized_person", "ecs_card", "eighteen_edition"},
    cable_jointing           |-> {"cable_jointer_approved", "cscs_card", "cat_and_genny"},
    overhead_lines           |-> {"working_at_height", "ipaf_mewp", "ecs_card"},
    substation_maintenance   |-> {"hv_authorized_person", "ecs_card", "confined_space_entry"},
    metering_installation    |-> {"eighteen_edition", "ecs_card"},
    metering_exchange        |-> {"eighteen_edition", "ecs_card"},
    new_connection           |-> {"lv_authorized_person", "ecs_card", "eighteen_edition",
                                  "cat_and_genny"},
    service_alteration       |-> {"lv_authorized_person", "ecs_card", "eighteen_edition"},
    civils_excavation        |-> {"cscs_card", "cat_and_genny", "nrswa_operative"},
    reinstatement            |-> {"cscs_card", "nrswa_operative"},
    tree_cutting             |-> {"cscs_card", "working_at_height"},
    pole_erection            |-> {"working_at_height", "cscs_card", "cat_and_genny"},
    cable_laying             |-> {"cscs_card", "cat_and_genny", "nrswa_operative"},
    transformer_installation |-> {"hv_authorized_person", "ecs_card", "first_aid_at_work"}]
Categories == DOMAIN CategoryAccreditations

\* A category the table does not know asks for nothing.
AccreditationsFor(category) ==
    IF category \in Categories THEN CategoryAccreditations[category] ELSE {}

TwoPersonCategories ==
    {"hv_switching", "overhead_lines", "substation_maintenance", "pole_erection",
     "transformer_installation"}
StreetWorks ==
    {"civils_excavation", "reinstatement", "cable_laying", "cable_jointing",
     "new_connection"}
DesignApproval == {"new_connection", "service_alteration"}
OutageNotification ==
    {"hv_switching", "transformer_installation", "substation_maintenance"}
MinimumCrew == 2

When(condition, blocker) == IF condition THEN {blocker} ELSE {}

\* A crew of size 0 is an unknown crew, which is not checked.
CrewCheck(job) ==
    When(job.category \in TwoPersonCategories /\ job.crew > 0 /\ job.crew < MinimumCrew,
         Blocker("safety", "crew", "error"))

HasObtained(permits, t) == \E p \in permits : p.type = t /\ p.obtained

PermitCheck(job) ==
    When(job.category \in StreetWorks /\ ~HasObtained(job.permits, "street_works"),
         Blocker("permit", "nrswa", "error"))
    \cup When(job.category = "substation_maintenance"
                    /\ ~HasObtained(job.permits, "confined_space"),
              Blocker("permit", "confined", "warning"))
    \cup OpenPermits(job.permits)

\* A gate is [required, satisfied, blocking].
GateCheck(gates) ==
    {Blocker("gate", g, IF g.blocking THEN "error" ELSE "warning") :
        g \in {h \in gates : h.required /\ ~h.satisfied}}

DesignApprovalCheck(job) ==
    When(job.category \in DesignApproval /\ ~job.design, Blocker("access", "design", "error"))

CustomerNotificationCheck(job) ==
    When(job.category \in OutageNotification /\ ~job.confirmed,
         Blocker("safety", "notification", "error"))

MaterialsCheck(job) == When(~job.materials, Blocker("safety", "materials", "error"))

TrafficManagementCheck(job) ==
    When(job.category \in StreetWorks /\ ~job.traffic, Blocker("permit", "traffic", "warning"))

SpenBlockers(job) ==
    MissingAccreditations(AccreditationsFor(job.category), job.held)
    \cup CrewCheck(job)
    \cup PermitCheck(job)
    \cup DesignApprovalCheck(job)
    \cup CustomerNotificationCheck(job)
    \cup MaterialsCheck(job)
    \cup TrafficManagementCheck(job)
    \cup GateCheck(job.gates)

=============================================================================
