--------------------------- MODULE MCActionEngine ---------------------------
EXTENDS ActionEngine, TLC

CONSTANTS o1, o2, p1, w1, w2

MCPlane == {"commercial"}
MCPlaneOf == [o \in ObjectId |-> "commercial"]
MCTypeOf == [o \in ObjectId |-> "t1"]
MCLinkType == {"supercedes", "contradicts"}
\* supersession links are made by supersede_object only
MCRegistryForbids == ObjectId \X ObjectId \X {"supercedes"}
\* every object is confident enough to be acted upon
MCConfident == ObjectId

\* neither objects nor workers are told apart by the safety properties
MCSymmetry == Permutations({o1, o2}) \cup Permutations({w1, w2})
=============================================================================
