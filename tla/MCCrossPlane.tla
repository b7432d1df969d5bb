---------------------------- MODULE MCCrossPlane ----------------------------
EXTENDS CrossPlane, TLC

CONSTANTS c1, o1, o2, e1

\* No action type is restricted to some origins.
MCNoRequiredOrigins == [a \in {} |-> {}]

MCArtefactType == (o1 :> "risk_control") @@ (o2 :> "vulnerability")

\* Rule CORE-001, with the two types and the plane it names.
MCRule == {[source_type |-> "risk_control", target_type |-> "vulnerability",
            target_plane |-> "risk", relationship |-> "mitigates"]}
=============================================================================
