---------------------------- MODULE ControlTypes ----------------------------
(***************************************************************************)
(* The lifecycle of a control object (app/core/types.py): its states and   *)
(* the transitions between them, as pairs.                                 *)
(***************************************************************************)

State == {"draft", "active", "enriched", "frozen", "reconciled",
          "disputed", "actioned", "superseded", "deprecated"}

\* Mutant: DEPRECATED objects can be brought back
DeprecatedIsNotFinal ==
    {<<"draft", "active">>,
     <<"active", "enriched">>, <<"active", "frozen">>,
     <<"active", "superseded">>, <<"active", "deprecated">>,
     <<"enriched", "frozen">>, <<"enriched", "active">>,
     <<"enriched", "superseded">>, <<"enriched", "deprecated">>,
     <<"frozen", "reconciled">>, <<"frozen", "disputed">>, <<"frozen", "active">>,
     <<"reconciled", "actioned">>, <<"reconciled", "disputed">>, <<"reconciled", "active">>,
     <<"disputed", "active">>, <<"disputed", "frozen">>, <<"disputed", "deprecated">>,
     <<"actioned", "superseded">>, <<"actioned", "deprecated">>,
     <<"deprecated", "active">>}

VALID_STATE_TRANSITIONS ==
    {<<"draft", "active">>,
     <<"active", "enriched">>, <<"active", "frozen">>,
     <<"active", "superseded">>, <<"active", "deprecated">>,
     <<"enriched", "frozen">>, <<"enriched", "active">>,
     <<"enriched", "superseded">>, <<"enriched", "deprecated">>,
     <<"frozen", "reconciled">>, <<"frozen", "disputed">>, <<"frozen", "active">>,
     <<"reconciled", "actioned">>, <<"reconciled", "disputed">>, <<"reconciled", "active">>,
     <<"disputed", "active">>, <<"disputed", "frozen">>, <<"disputed", "deprecated">>,
     <<"actioned", "superseded">>, <<"actioned", "deprecated">>}
=============================================================================
