------------------------- MODULE MCDomainWorkflows -------------------------
(* One request of each kind, its input from small sets: jobs with up to two *)
(* permits, incidents of every severity and state, histories of one piece  *)
(* of work with up to two facts or of two with up to one.                  *)
EXTENDS DomainWorkflows

UpToOne(S) == {{}} \cup {{a} : a \in S}
UpToTwo(S) == {{}} \cup {{a, b} : a, b \in S}

Jobs == [type : {"repair", "maintenance"}, skills : {{}, {"jointing"}}, gas : BOOLEAN,
         permits : {{}} \cup {{p} : p \in Permits},
         held : UpToTwo({"confined_space_certification", "hot_works_certification",
                             "hot work permit holder", "gas safe register", "general_competency"}),
         known : {{}, {"jointing"}}]

Gates == [required : {TRUE}, satisfied : BOOLEAN, blocking : BOOLEAN]
SpenJobs == {j \in [category : {"hv_switching", "substation_maintenance", "civils_excavation",
                                "new_connection", "unlisted"},
                    held : {{}} \cup {CategoryAccreditations[c] : c \in Categories},
                    crew : {0, 1, 2}, permits : {{}} \cup {{p} : p \in Permits},
                    design : BOOLEAN, confirmed : BOOLEAN, materials : {TRUE},
                    traffic : BOOLEAN, gates : {{}}] :
                j.held \in {{}, AccreditationsFor(j.category)}}

Incidents == [severity : Severities, state : IncidentStates,
              services : {<<>>, <<"billing">>, <<"core_network", "billing">>},
              tags : {{}, {"sla_breach"}}, words : {{}, {"hardware"}, {"security"}},
              owned : BOOLEAN, timeline : {0, 14, 40}]

Work(facts, billed, contract) == [facts : facts, billed : billed, contract : contract]
Stated == WorkFacts \ {"invoiced"}
Histories == {<<>>} \cup {<<w>> : w \in Work(UpToTwo(Stated), 0..2, {0, 2})}
             \cup {<<v, w>> : v, w \in Work(UpToOne(Stated), {0}, {0})}

Cards == {<<>>} \cup {<<e>> : e \in [match : {"exact", "fuzzy", "category", "none"}, rate : {0, 1, 3},
                                     multiplier : {1, 2}, approval : {NoThreshold, 0, 4}]}
MCRequests ==
    [kind : {"contract_compile"}, clauses : SUBSET {"obligation", "penalty_condition"}]
    \cup [kind : {"work_order_readiness"}, job : Jobs]
    \cup [kind : {"incident_dispatch"},
          inc : {i \in Incidents : i.timeline = 0 /\ "security" \notin i.words},
          service : {"", "active", "degraded", "outage"}, runbook : BOOLEAN]
    \cup [kind : {"margin_diagnosis"}, clauses : {{}, {"obligation"}},
          orders : {<<>>} \cup {<<d>> : d \in WorkDocument}, history : Histories]
    \cup [kind : {"spen_readiness"}, job : SpenJobs]
    \cup [kind : {"spen_billability"}, card : Cards,
          gates : UpToTwo([type : {"prior_approval", "sign_off"}, satisfied : BOOLEAN]),
          visit : {FirstVisit, "provider_fault", "weather", "other"}]
    \cup [kind : {"vodafone_incident_triage"}, inc : {i \in Incidents : ~i.owned}]
=============================================================================
