---------------------------- MODULE ControlGraph ----------------------------
(***************************************************************************)
(* The control graph of app/core: control objects with a lifecycle and a   *)
(* version history, typed links between them, and the audit hook that is   *)
(* told of (some of) their state changes.  One action per operation of     *)
(* GraphService, plus the two callers that change objects behind its back: *)
(* the enrichment workflow (evidence) and the reconciliation engine.       *)
(*                                                                         *)
(* An identifier stands for a uuid together with the attributes an object  *)
(* keeps for its whole life: its plane, its type and its confidence.       *)
(* Repository objects are shared by reference, so a mutation done before   *)
(* an exception stays visible.                                             *)
(***************************************************************************)
EXTENDS Integers, FiniteSets, ControlTypes

CONSTANTS
    ObjectId,        \* uuids that may be issued
    NoObject,        \* Python's None for an object id
    Plane,           \* PlaneType
    PlaneOf,         \* PlaneOf[o]: the plane object o is built with
    TypeOf,          \* TypeOf[o]: the object_type o is built with
    LinkType,        \* the link types in use
    RegistryForbids, \* <<source, target, link type>> rejected by registered link policies
    MaxEvidenced,    \* bound: objects that carry evidence
    MaxLinks         \* bound: links created by create_link start below this many

ASSUME ObjectAssumption == NoObject \notin ObjectId
ASSUME SupersedesAssumption == "supercedes" \in LinkType
ASSUME PlaneAssumption == PlaneOf \in [ObjectId -> Plane]

\* "absent": no event about the object has reached the hook
Reported == State \cup {"absent"}

VARIABLES
    issued,         \* ids given to objects that were built, stored or thrown away
    stored,         \* keys of InMemoryGraphRepository._objects
    state,          \* ControlObject.state
    version,        \* ControlObject.version
    superseded_by,  \* ControlObject.superseded_by
    derived_from,   \* ControlObject.derived_from
    evidenced,      \* objects whose evidence list is not empty
    links,          \* InMemoryGraphRepository._links as [source, target, type]
    reported        \* the new_state of the last audit-hook event on each object

graphVars == <<issued, stored, state, version, superseded_by, derived_from,
               evidenced, links, reported>>

GraphTypeOK ==
    /\ issued \subseteq ObjectId
    /\ stored \subseteq issued
    /\ state \in [ObjectId -> State]
    /\ version \in [ObjectId -> Nat \ {0}]
    /\ superseded_by \in [ObjectId -> ObjectId \cup {NoObject}]
    /\ derived_from \in [ObjectId -> SUBSET ObjectId]
    /\ evidenced \subseteq stored
    /\ links \subseteq [source : ObjectId, target : ObjectId, type : LinkType]
    /\ reported \in [ObjectId -> Reported]

GraphInit ==
    /\ issued = {}
    /\ stored = {}
    /\ state = [o \in ObjectId |-> "draft"]
    /\ version = [o \in ObjectId |-> 1]
    /\ superseded_by = [o \in ObjectId |-> NoObject]
    /\ derived_from = [o \in ObjectId |-> {}]
    /\ evidenced = {}
    /\ links = {}
    /\ reported = [o \in ObjectId |-> "absent"]

-----------------------------------------------------------------------------
(* Objects *)

CanTransition(o, s) == <<state[o], s>> \in VALID_STATE_TRANSITIONS

\* create_object: build (DRAFT, version 1), report, activate unless told not
\* to, report again, store.  df is the caller's derived_from list.
CreateObject(o, autoActivate, hasEvidence, df) ==
    LET s == IF autoActivate THEN "active" ELSE "draft"
    IN  /\ o \in ObjectId \ issued
        /\ issued' = issued \cup {o}
        /\ stored' = stored \cup {o}
        /\ state' = [state EXCEPT ![o] = s]
        /\ derived_from' = [derived_from EXCEPT ![o] = df]
        /\ evidenced' = IF hasEvidence THEN evidenced \cup {o} ELSE evidenced
        /\ reported' = [reported EXCEPT ![o] = s]
        /\ UNCHANGED <<version, superseded_by, links>>

\* Mutant: the state change of enrich_object is not reported
EnrichUnreported(o) ==
    /\ o \in stored
    /\ state[o] = "active"
    /\ state' = [state EXCEPT ![o] = "enriched"]
    /\ UNCHANGED <<issued, stored, version, superseded_by, derived_from, evidenced,
                   links, reported>>

\* enrich_object: only FROZEN refuses; only ACTIVE changes state
EnrichObject(o) ==
    /\ o \in stored
    /\ state[o] # "frozen"
    /\ IF state[o] = "active"
       THEN /\ state' = [state EXCEPT ![o] = "enriched"]
            /\ reported' = [reported EXCEPT ![o] = "enriched"]
       ELSE UNCHANGED <<state, reported>>
    /\ UNCHANGED <<issued, stored, version, superseded_by, derived_from, evidenced, links>>

\* the enrichment workflow's second step: attach evidence to the object that
\* enrich_object returned, and store it again; the hook is not told
AttachEvidence(o) ==
    /\ o \in stored
    /\ state[o] # "frozen"
    /\ evidenced' = evidenced \cup {o}
    /\ UNCHANGED <<issued, stored, state, version, superseded_by, derived_from,
                   links, reported>>

\* transition o to s and tell the hook
MoveAndReport(o, s) ==
    /\ state' = [state EXCEPT ![o] = s]
    /\ reported' = [reported EXCEPT ![o] = s]
    /\ UNCHANGED <<issued, stored, version, superseded_by, derived_from,
                   evidenced, links>>

FreezeObject(o) ==
    /\ o \in stored
    /\ state[o] \in {"active", "enriched"}
    /\ MoveAndReport(o, "frozen")

DeprecateObject(o) ==
    /\ o \in stored
    /\ CanTransition(o, "deprecated")
    /\ MoveAndReport(o, "deprecated")

\* transition_object: any valid transition, SUPERSEDED without a successor and
\* ACTIONED without an action included
TransitionObject(o, s) ==
    /\ o \in stored
    /\ CanTransition(o, s)
    /\ MoveAndReport(o, s)

SupersessionLink(n, o) == [source |-> n, target |-> o, type |-> "supercedes"]

\* Mutant: the original's state is not checked
SupersedeUnchecked(o, n, hasEvidence) ==
    /\ o \in stored
    /\ n \in ObjectId \ issued
    /\ issued' = issued \cup {n}
    /\ stored' = stored \cup {n}
    /\ state' = [state EXCEPT ![o] = "superseded", ![n] = "active"]
    /\ version' = [version EXCEPT ![n] = version[o] + 1]
    /\ superseded_by' = [superseded_by EXCEPT ![o] = n]
    /\ derived_from' = [derived_from EXCEPT ![n] = {o}]
    /\ links' = links \cup {SupersessionLink(n, o)}
    /\ reported' = [reported EXCEPT ![o] = "superseded"]
    /\ UNCHANGED evidenced

\* supersede_object: n replaces o.  The hook hears of o only, and the link is
\* stored without asking the policy engine.
SupersedeObject(o, n, hasEvidence) ==
    /\ o \in stored
    /\ n \in ObjectId \ issued
    /\ CanTransition(o, "superseded")
    /\ issued' = issued \cup {n}
    /\ stored' = stored \cup {n}
    /\ state' = [state EXCEPT ![o] = "superseded", ![n] = "active"]
    /\ version' = [version EXCEPT ![n] = version[o] + 1]
    /\ superseded_by' = [superseded_by EXCEPT ![o] = n]
    /\ derived_from' = [derived_from EXCEPT ![n] = {o}]
    /\ evidenced' = IF hasEvidence THEN evidenced \cup {n} ELSE evidenced
    /\ links' = links \cup {SupersessionLink(n, o)}
    /\ reported' = [reported EXCEPT ![o] = "superseded"]

\* Mutant: the new version is stored before the original is asked to give way
SupersedeFailsAfterStore(o, n) ==
    /\ o \in stored
    /\ n \in ObjectId \ issued
    /\ ~CanTransition(o, "superseded")
    /\ issued' = issued \cup {n}
    /\ stored' = stored \cup {n}
    /\ superseded_by' = [superseded_by EXCEPT ![o] = n]
    /\ UNCHANGED <<state, version, derived_from, evidenced, links, reported>>

\* ControlObject.supersede assigns superseded_by before transition_state
\* raises: the caller gets an exception, n is dropped, the pointer stays.
SupersedeFails(o, n) ==
    /\ o \in stored
    /\ n \in ObjectId \ issued
    /\ ~CanTransition(o, "superseded")
    /\ issued' = issued \cup {n}
    /\ superseded_by' = [superseded_by EXCEPT ![o] = n]
    /\ UNCHANGED <<stored, state, version, derived_from, evidenced,
                   links, reported>>

-----------------------------------------------------------------------------
(* Links *)

\* GraphPolicyEngine.validate_link returns no violation
LinkAllowed(s, t, ty) ==
    /\ s # t
    /\ ty = "supercedes" => TypeOf[s] = TypeOf[t] /\ PlaneOf[s] = PlaneOf[t]
    /\ ty = "bills_for" => PlaneOf[s] = "commercial"
    /\ ty = "fulfills" => ~(PlaneOf[s] = "service" /\ PlaneOf[t] = "field")
    /\ <<s, t, ty>> \notin RegistryForbids

\* Mutant: the target is not looked up
CreateLinkUnresolved(s, t, ty) ==
    /\ s \in stored
    /\ LinkAllowed(s, t, ty)
    /\ links' = links \cup {[source |-> s, target |-> t, type |-> ty]}
    /\ UNCHANGED <<issued, stored, state, version, superseded_by, derived_from,
                   evidenced, reported>>

CreateLink(s, t, ty) ==
    /\ s \in stored
    /\ t \in stored
    /\ LinkAllowed(s, t, ty)
    /\ links' = links \cup {[source |-> s, target |-> t, type |-> ty]}
    /\ UNCHANGED <<issued, stored, state, version, superseded_by, derived_from,
                   evidenced, reported>>

-----------------------------------------------------------------------------
(* Reconciliation *)

\* reconcile_cross_plane: whatever the pairs and the mismatches, every FROZEN
\* object of the source plane becomes RECONCILED, and the hook is not told
Reconcile(sourcePlane) ==
    LET marked == {o \in stored : PlaneOf[o] = sourcePlane /\ state[o] = "frozen"}
    IN  /\ state' = [o \in ObjectId |->
                        IF o \in marked THEN "reconciled" ELSE state[o]]
        /\ UNCHANGED <<issued, stored, version, superseded_by, derived_from,
                       evidenced, links, reported>>

\* inputs: whether the caller supplies evidence, within the bound ...
EvidenceInput == IF Cardinality(evidenced) < MaxEvidenced THEN BOOLEAN ELSE {FALSE}

\* ... and the derived_from list of a created object (at most one entry)
CallerLineage == {{}} \cup {{x} : x \in stored}

GraphNext ==
    \/ \E o \in ObjectId, active \in BOOLEAN, e \in EvidenceInput, df \in CallerLineage :
          CreateObject(o, active, e, df)
    \/ \E o \in ObjectId : \/ EnrichObject(o)
                           \/ TRUE \in EvidenceInput /\ AttachEvidence(o)
                           \/ FreezeObject(o)
                           \/ DeprecateObject(o)
    \/ \E o \in ObjectId, s \in State : TransitionObject(o, s)
    \/ \E o, n \in ObjectId, e \in EvidenceInput : SupersedeObject(o, n, e)
    \/ \E o, n \in ObjectId : SupersedeFails(o, n)
    \/ /\ Cardinality(links) < MaxLinks
       /\ \E s, t \in ObjectId, ty \in LinkType : CreateLink(s, t, ty)
    \/ \E p \in Plane : Reconcile(p)

GraphSpec == GraphInit /\ [][GraphNext]_graphVars

-----------------------------------------------------------------------------
(* Properties *)

Terminal == {"superseded", "deprecated"}

\* n was built by supersede_object as the next version of o
Succeeds(n, o) == version[n] > 1 /\ derived_from[n] = {o}

(***************************************************************************)
(* A later version always has exactly one stored predecessor, which is     *)
(* SUPERSEDED and one version older, and no object has two successors:     *)
(* supersede_object builds linear histories, however create_object,        *)
(* transition_object and failed supersessions interleave with it.          *)
(***************************************************************************)
LinearHistory ==
    /\ \A n \in stored : version[n] > 1 =>
          \E o \in stored : /\ Succeeds(n, o)
                            /\ version[n] = version[o] + 1
                            /\ state[o] = "superseded"
    /\ \A o \in stored : \A m, n \in stored :
          Succeeds(m, o) /\ Succeeds(n, o) => m = n

(***************************************************************************)
(* A superseded_by pointer that leads to a stored object leads to the      *)
(* object's one successor; the id of a version that was thrown away is     *)
(* never stored later.                                                     *)
(***************************************************************************)
SupersededByIsSuccessor ==
    \A o \in stored :
        superseded_by[o] \in stored =>
            /\ Succeeds(superseded_by[o], o)
            /\ state[o] = "superseded"

(***************************************************************************)
(* Every stored link joins two stored objects, and either satisfies the    *)
(* policy engine or records a supersession.                                *)
(***************************************************************************)
LinksGoverned ==
    \A l \in links :
        /\ l.source \in stored
        /\ l.target \in stored
        /\ \/ LinkAllowed(l.source, l.target, l.type)
           \/ l.type = "supercedes" /\ Succeeds(l.source, l.target)

\* The refinement mapping onto VersionForest
Succession == {e \in ObjectId \X ObjectId : e[2] \in stored /\ Succeeds(e[2], e[1])}
RetiredObjects == {o \in stored : state[o] \in Terminal}

Forest == INSTANCE VersionForest
            WITH Id <- ObjectId, nodes <- stored, succ <- Succession,
                 retired <- RetiredObjects

(***************************************************************************)
(* The graph service implements the append-only version forest: objects    *)
(* never disappear, a retired object stays retired, and only a living      *)
(* object gets a successor.                                                *)
(***************************************************************************)
RefinesVersionForest == Forest!Spec
=============================================================================
