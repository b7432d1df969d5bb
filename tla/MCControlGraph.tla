--------------------------- MODULE MCControlGraph ---------------------------
EXTENDS ControlGraph, TLC

CONSTANTS o1, o2, o3

MCObjectId == {o1, o2, o3}
MCPlane == {"commercial", "service"}
\* o3 is of another plane and another type than o1 and o2
MCPlaneOf == (o1 :> "commercial") @@ (o2 :> "commercial") @@ (o3 :> "service")
MCTypeOf == (o1 :> "t1") @@ (o2 :> "t1") @@ (o3 :> "t2")
MCLinkType == {"supercedes", "bills_for", "contradicts"}
\* one registered link policy rejects contradicts from o1 to o2
MCRegistryForbids == {<<o1, o2, "contradicts">>}
=============================================================================
