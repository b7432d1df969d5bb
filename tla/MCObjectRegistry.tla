-------------------------- MODULE MCObjectRegistry --------------------------
EXTENDS ObjectRegistry

CONSTANTS c1, c2, o1

\* A blocked action, one that only people may ask for, and transitions without a policy.
MCRequiredOrigins == [a \in {"production_release"} |-> {"human_operator"}]

\* One that the chain certifies, and one that its policy rejects.
MCSubmission ==
    [action_type : {"production_release"}, origin : {"human_operator", "scheduled_task"},
     requested_by : {TRUE}, payload : {TRUE}, evidence : {FALSE}]
=============================================================================
