----------------------------- MODULE CrossPlane -----------------------------
(***************************************************************************)
(* Ingestion, the relationship graph and cross-plane reconciliation.  The  *)
(* pipeline asks the gate, writes the registry and then the graph store,   *)
(* which keeps its own copy of each object: callers carry later versions   *)
(* over (registry.get, then update_object), and a copy they got may be old *)
(* by then.  The reconciliation engine reads the store only, and finds the *)
(* objects of a type in an index that update_object does not maintain.     *)
(*                                                                         *)
(* Relationships have a validity window; the engine asks for it when it    *)
(* looks for links and not when it looks for conflicts.                    *)
(***************************************************************************)
EXTENDS ObjectRegistry

CONSTANTS
    ArtefactType,      \* the object type that is inferred for each object when it is built
    EdgeId,            \* edge_id
    RelationshipType,  \* the relationship types in use
    Rule,              \* enabled rules: [source_type, target_type, target_plane, relationship]
    TargetState,       \* bound: the states callers move objects to
    MaxRuns,           \* bound: reconciliations
    MaxResolved,       \* bound: resolved cases
    MaxTime            \* bound: the clock

\* the normaliser infers one of the object types, states are object states, and the
\* action types of pipeline, store and engine exist
ASSUME PlaneAssumption ==
    /\ \A o \in ObjectId : ArtefactType[o] \in ObjectType
    /\ TargetState \subseteq ControlObjectState
    /\ {"ingest_control_object", "graph_link_creation", "reconciliation_case_resolution"}
           \subseteq ActionType
    /\ MaxTime \in Nat

STATE_SEMANTIC_TYPES == {"violates", "conflicts", "satisfies", "supersedes"}

\* the types of a conflict: conflict_rels
ConflictType == {"conflicts", "violates"}

Forever == MaxTime + 1
Edge == [source : ObjectId, target : ObjectId, type : RelationshipType,
         valid_from : 0..Forever, valid_until : 0..Forever, is_active : BOOLEAN]
NoEdge == [type |-> "none"]

\* what a case is about: a rule and an object, an edge, or an object
Defect == [case_type : {"gap"}, object : ObjectId, rule : Rule]
              \cup [case_type : {"conflict"}, edge : EdgeId]
              \cup [case_type : {"orphan"}, object : ObjectId]

VARIABLES
    nodes,    \* ControlGraphStore._nodes
    by_type,  \* ControlGraphStore._type_index
    edges,    \* ControlGraphStore._edges
    now,      \* the time the store's queries read
    cases,    \* the engine's cases: the defect, the run and the time it was found
    resolved, \* the cases whose status is RESOLVED
    counted   \* the reconciliation_run and reconciliation_case events metered

storeVars == <<nodes, by_type, edges>>
engineVars == <<cases, resolved, counted>>
planeVars == <<vars, storeVars, engineVars, now>>

PlaneInit ==
    /\ Init
    /\ nodes = [o \in ObjectId |-> NotRegistered]
    /\ by_type = [t \in ObjectType |-> {}]
    /\ edges = [e \in EdgeId |-> NoEdge]
    /\ now = 0
    /\ cases = {}
    /\ resolved = {}
    /\ counted = [runs |-> 0, cases |-> 0]

Runs == counted.runs

InStore == {o \in ObjectId : nodes[o] # NotRegistered}

\* the platform's own requests name a payload and evidence; the requester may be empty
PlatformRequest(action, origin, by) ==
    [action_type |-> action, origin |-> origin, requested_by |-> by,
     payload |-> TRUE, evidence |-> TRUE]

-----------------------------------------------------------------------------
(* The pipeline.  Each object it builds has a new id, so neither register   *)
(* nor add_object refuses it.                                               *)

\* add_object
StoreObject(o, obj) ==
    /\ nodes' = [nodes EXCEPT ![o] = obj]
    /\ by_type' = [by_type EXCEPT ![obj.type] = @ \cup {o}]

Ingested(o, plane, type) ==
    LET obj == [version |-> 1, state |-> "draft", plane |-> plane, type |-> type]
    IN  /\ Store(o, obj)
        /\ events' = [events EXCEPT ![o]["registered"] = @ + 1]
        /\ StoreObject(o, obj)

Ingest(o, plane, type) ==
    /\ o \notin Registered
    /\ Ingested(o, plane, type)
    /\ UNCHANGED <<held, gateVars, edges, engineVars, now>>

\* Mutant: the loop does not go on to the next object when the gate blocks this one
IngestGatedStoresAll(o, plane, type, by) ==
    LET r == PlatformRequest("ingest_control_object", "api_request", by)
        obj == [version |-> 1, state |-> "draft", plane |-> plane, type |-> type]
    IN  /\ o \notin Registered
        /\ o \notin InStore
        /\ GateSubmit(r)
        /\ IF Certified(r)
           THEN Ingested(o, plane, type)
           ELSE /\ StoreObject(o, obj)
                /\ UNCHANGED <<objects, records, events, plane_index, type_index>>
        /\ UNCHANGED <<held, edges, engineVars, now>>

\* a blocked object is reported in the result and left out
IngestGated(o, plane, type, by) ==
    LET r == PlatformRequest("ingest_control_object", "api_request", by)
    IN  /\ o \notin Registered
        /\ GateSubmit(r)
        /\ IF Certified(r)
           THEN Ingested(o, plane, type)
           ELSE UNCHANGED <<objects, records, events, plane_index, type_index, nodes, by_type>>
        /\ UNCHANGED <<held, edges, engineVars, now>>

\* add_object with the copy a caller holds of an object that others registered
AddObject(c) ==
    /\ held[c] # Nothing
    /\ held[c].id \notin InStore
    /\ StoreObject(held[c].id, held[c].object)
    /\ UNCHANGED <<vars, edges, engineVars, now>>

\* update_object with the copy a caller holds; versions are not compared, and the
\* object stays in the index of the type it had
UpdateObject(c) ==
    /\ held[c] # Nothing
    /\ held[c].id \in InStore
    /\ nodes' = [nodes EXCEPT ![held[c].id] = held[c].object]
    /\ UNCHANGED <<vars, by_type, edges, engineVars, now>>

-----------------------------------------------------------------------------
(* Relationships *)

IsNewEdge(e, source, target) ==
    /\ {source, target} \subseteq InStore
    /\ edges[e] = NoEdge
    /\ source # target

Added(e, source, target, type, from, until) ==
    edges' = [edges EXCEPT ![e] = [source |-> source, target |-> target, type |-> type,
                                   valid_from |-> from, valid_until |-> until,
                                   is_active |-> TRUE]]

\* add_edge without a gate; a state-semantic type is only warned about
AddEdge(e, source, target, type, from, until) ==
    /\ IsNewEdge(e, source, target)
    /\ Added(e, source, target, type, from, until)
    /\ UNCHANGED <<vars, nodes, by_type, engineVars, now>>

\* The gate answers before add_edge looks at the ends: a package may be compiled
\* for an edge that is then refused.
AddGovernedEdge(e, source, target, type, from, until, by) ==
    LET r == PlatformRequest("graph_link_creation", "human_operator", by)
    IN  /\ type \in STATE_SEMANTIC_TYPES
        /\ GateSubmit(r)
        /\ IF Certified(r) /\ IsNewEdge(e, source, target)
           THEN Added(e, source, target, type, from, until)
           ELSE UNCHANGED edges
        /\ UNCHANGED <<registryVars, nodes, by_type, engineVars, now>>

DeactivateEdge(e) ==
    /\ edges[e] # NoEdge
    /\ edges' = [edges EXCEPT ![e].is_active = FALSE]
    /\ UNCHANGED <<vars, nodes, by_type, engineVars, now>>

InWindow(e, t) == edges[e].valid_from <= t /\ t <= edges[e].valid_until

IsValidAt(e, t) == edges[e] # NoEdge /\ InWindow(e, t) /\ edges[e].is_active

OutboundEdges(o) == {e \in EdgeId : IsValidAt(e, now) /\ edges[e].source = o}
InboundEdges(o) == {e \in EdgeId : IsValidAt(e, now) /\ edges[e].target = o}

-----------------------------------------------------------------------------
(* Reconciliation *)

ActiveNode(o) == o \in InStore /\ nodes[o].state = "active"

\* _evaluate_rule, for every enabled rule
Gaps ==
    {d \in [case_type : {"gap"}, object : {o \in ObjectId : ActiveNode(o)}, rule : Rule] :
        /\ d.object \in by_type[d.rule.source_type]
        /\ ~\E e \in OutboundEdges(d.object) :
              LET t == edges[e].target
              IN  /\ edges[e].type = d.rule.relationship
                  /\ nodes[t].type = d.rule.target_type
                  /\ nodes[t].plane = d.rule.target_plane
                  /\ ActiveNode(t)}

\* _detect_conflicts reads is_active of the edge, not its validity window
Conflicts ==
    {d \in [case_type : {"conflict"}, edge : {e \in EdgeId : edges[e] # NoEdge}] :
        LET e == edges[d.edge]
        IN  e.type \in ConflictType /\ e.is_active /\ ActiveNode(e.source) /\ ActiveNode(e.target)}

\* Mutant: only outbound relationships count
OrphansByOutbound ==
    [case_type : {"orphan"},
     object : {o \in ObjectId : ActiveNode(o) /\ OutboundEdges(o) = {}}]

Orphans ==
    [case_type : {"orphan"},
     object : {o \in ObjectId : ActiveNode(o) /\ OutboundEdges(o) \cup InboundEdges(o) = {}}]

\* Mutant: a defect that has had a case is not reported again
ReconcileOnce ==
    LET new == {[defect |-> d, run |-> Runs + 1, at |-> now] :
                    d \in {x \in Gaps \cup Conflicts \cup Orphans :
                              \A c \in cases : c.defect # x}}
    IN  /\ cases' = cases \cup new
        /\ counted' = [runs |-> counted.runs + 1, cases |-> counted.cases + Cardinality(new)]
        /\ UNCHANGED <<vars, storeVars, resolved, now>>

\* run_full_reconciliation: every run commits a case for every defect it finds
RunFullReconciliation ==
    LET new == {[defect |-> d, run |-> Runs + 1, at |-> now] :
                    d \in Gaps \cup Conflicts \cup Orphans}
    IN  /\ cases' = cases \cup new
        /\ counted' = [runs |-> counted.runs + 1, cases |-> counted.cases + Cardinality(new)]
        /\ UNCHANGED <<vars, storeVars, resolved, now>>

\* mark_case_resolved without a gate, as the bulk operation calls it
MarkCaseResolved(c) ==
    /\ resolved' = resolved \cup {c}
    /\ UNCHANGED <<vars, storeVars, cases, counted, now>>

\* mark_case_resolved with a gate; a resolved case can be resolved again
MarkCaseResolvedGated(c, by) ==
    LET r == PlatformRequest("reconciliation_case_resolution", "human_operator", by)
    IN  /\ GateSubmit(r)
        /\ IF Certified(r)
           THEN resolved' = resolved \cup {c}
           ELSE UNCHANGED resolved
        /\ UNCHANGED <<registryVars, storeVars, cases, counted, now>>

-----------------------------------------------------------------------------
Tick ==
    /\ now < MaxTime
    /\ now' = now + 1
    /\ UNCHANGED <<vars, storeVars, engineVars>>

\* every operation of the registry and of the others that use its gate
RegistryStep ==
    /\ \/ \E o \in ObjectId, plane \in Plane : Register(o, plane, ArtefactType[o])
       \/ \E c \in Client, o \in ObjectId : Get(c, o)
       \/ \E c \in Client, state \in TargetState, plane \in Plane, type \in ObjectType :
             /\ held[c] # Nothing
             /\ held[c].object.version < MaxVersion
             /\ Update(c, state, plane, type)
       \/ \E o \in ObjectId, state \in TargetState :
             /\ Len(records[o]) < MaxVersion
             /\ \/ TransitionUngated(o, state)
                \/ BelowBound /\ \E by \in BOOLEAN : TransitionGated(o, state, by)
       \/ OthersUseGate
    /\ UNCHANGED <<storeVars, engineVars, now>>

\* bound: the validity of a new edge ends at once, never ends, or is yet to begin
Window == {<<now, now>>, <<now, Forever>>, <<now + 1, Forever>>}

PlaneNext ==
    \/ \E o \in ObjectId, plane \in Plane :
          \/ Ingest(o, plane, ArtefactType[o])
          \/ BelowBound /\ \E by \in BOOLEAN : IngestGated(o, plane, ArtefactType[o], by)
    \/ RegistryStep
    \/ \E c \in Client : AddObject(c) \/ UpdateObject(c)
    \/ \E e \in EdgeId, s, t \in ObjectId, type \in RelationshipType, w \in Window :
          \/ AddEdge(e, s, t, type, w[1], w[2])
          \/ BelowBound /\ \E by \in BOOLEAN : AddGovernedEdge(e, s, t, type, w[1], w[2], by)
    \/ \E e \in EdgeId : DeactivateEdge(e)
    \/ Runs < MaxRuns /\ RunFullReconciliation
    \/ Cardinality(resolved) < MaxResolved /\ \E c \in cases :
          \/ MarkCaseResolved(c)
          \/ BelowBound /\ \E by \in BOOLEAN : MarkCaseResolvedGated(c, by)
    \/ Tick

PlaneSpec == PlaneInit /\ [][PlaneNext]_planeVars

-----------------------------------------------------------------------------
(* Properties *)

(***************************************************************************)
(* The store holds registered objects only, however the gate answers for   *)
(* each, and its copy of an object, be it old, is a version the registry   *)
(* has recorded: what reconciliation judges was once true.  Objects that   *)
(* callers of add_object and update_object did not get from the registry   *)
(* are left out.                                                           *)
(***************************************************************************)
StoreIsHistory ==
    /\ InStore \subseteq Registered
    /\ \A o \in InStore : \E i \in DOMAIN records[o] : records[o][i] = nodes[o]

\* every version of the object has had this type
AlwaysOfType(o, type) == \A i \in DOMAIN records[o] : records[o][i].type = type

(***************************************************************************)
(* "Cases cannot be suppressed or bypassed": resolving a case does not     *)
(* hide its defect.  A run that finds an active object still without the   *)
(* link its rule requires leaves an open case for that object and rule,    *)
(* whatever cases were resolved before and however old the store's copies  *)
(* are.  The one exception is an object whose type was changed: it stays   *)
(* in the store's index under the type it entered with, and the rules of   *)
(* its new type pass it by.                                                *)
(***************************************************************************)
DefectsStayVisible ==
    [][counted'.runs > counted.runs =>
          \A o \in ObjectId, r \in Rule :
              /\ ActiveNode(o) /\ AlwaysOfType(o, r.source_type)
              /\ \A t \in ObjectId \ {o} :
                    \/ ~ActiveNode(t) \/ nodes[t].plane # r.target_plane
                    \/ nodes[t].type # r.target_type
                    \/ \A e \in OutboundEdges(o) \cap InboundEdges(t) :
                          edges[e].type # r.relationship
              => \E c \in cases' \ resolved' :
                    c.defect = [case_type |-> "gap", object |-> o, rule |-> r]]_planeVars

(***************************************************************************)
(* A run reports an object as an orphan, without relationships, and in a   *)
(* conflict, which is a relationship, only when the conflict's validity    *)
(* has not begun or has ended: conflicts are read without their window.    *)
(***************************************************************************)
OrphanInConflictOnlyOutOfWindow ==
    \A c, d \in cases :
        /\ c.defect.case_type = "orphan" /\ d.defect.case_type = "conflict"
        /\ c.run = d.run
        /\ c.defect.object \in {edges[d.defect.edge].source, edges[d.defect.edge].target}
        => ~InWindow(d.defect.edge, d.at)

=============================================================================
