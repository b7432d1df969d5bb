---------------------------- MODULE MCPilotCase -----------------------------
(* One case: the services keep their entries per case id and nothing else  *)
(* is shared.                                                              *)
EXTENDS PilotCase
=============================================================================
