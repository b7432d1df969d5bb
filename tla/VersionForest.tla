---------------------------- MODULE VersionForest ----------------------------
(***************************************************************************)
(* The abstract promise of versioned control objects: a growing forest in  *)
(* which an object is either alive or retired, only a living object can be *)
(* replaced, and being replaced retires it for good.                       *)
(***************************************************************************)
CONSTANT Id

VARIABLES
    nodes,    \* objects that exist
    succ,     \* <<o, n>>: n is the version that replaced o
    retired   \* objects that were replaced or withdrawn

forestVars == <<nodes, succ, retired>>

Init ==
    /\ nodes = {}
    /\ succ = {}
    /\ retired = {}

\* a first version appears
Plant(n) ==
    /\ n \notin nodes
    /\ nodes' = nodes \cup {n}
    /\ UNCHANGED <<succ, retired>>

\* o is replaced by n
Grow(o, n) ==
    /\ o \in nodes \ retired
    /\ n \notin nodes
    /\ nodes' = nodes \cup {n}
    /\ succ' = succ \cup {<<o, n>>}
    /\ retired' = retired \cup {o}

\* o is withdrawn without a replacement
Retire(o) ==
    /\ o \in nodes \ retired
    /\ retired' = retired \cup {o}
    /\ UNCHANGED <<nodes, succ>>

Next == \/ \E n \in Id : Plant(n) \/ Retire(n)
        \/ \E o, n \in Id : Grow(o, n)

Spec == Init /\ [][Next]_forestVars
=============================================================================
