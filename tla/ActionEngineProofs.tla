------------------------- MODULE ActionEngineProofs -------------------------
(***************************************************************************)
(* Proofs about ControlGraph, for every set of objects, every assignment   *)
(* of planes and types, and every set of link policies, and then about     *)
(* ActionEngine, for every number of objects, proposals and threads.       *)
(***************************************************************************)
EXTENDS ActionEngine, TLAPS

\* Ids are fresh when they are issued: an object that was never built has
\* version 1 and points nowhere, and no pointer leads to an id not yet issued.
FreshIds ==
    /\ \A o \in ObjectId \ issued : version[o] = 1 /\ superseded_by[o] = NoObject
    /\ \A o \in ObjectId : superseded_by[o] \in issued \cup {NoObject}

\* The inductive invariant of the version history
HistoryInv ==
    /\ GraphTypeOK
    /\ FreshIds
    /\ LinearHistory
    /\ SupersededByIsSuccessor

\* The lifecycle table has no way out of SUPERSEDED and DEPRECATED.
LEMMA TransitionTable ==
    ASSUME NEW s, NEW t, <<s, t>> \in VALID_STATE_TRANSITIONS
    PROVE  s \notin Terminal /\ s \in State /\ t \in State
BY DEF VALID_STATE_TRANSITIONS, State, Terminal

\* The type invariant holds initially and every operation preserves it.
LEMMA TypeInit == GraphInit => GraphTypeOK
BY DEF GraphInit, GraphTypeOK, State, Reported

LEMMA TypeStep == GraphTypeOK /\ [GraphNext]_graphVars => GraphTypeOK'
<1> SUFFICES ASSUME GraphTypeOK, [GraphNext]_graphVars PROVE GraphTypeOK'
  OBVIOUS
<1> USE DEF GraphTypeOK
<1>1. ASSUME NEW o \in ObjectId, NEW act \in BOOLEAN, NEW e \in EvidenceInput,
             NEW df \in CallerLineage, CreateObject(o, act, e, df)
      PROVE  GraphTypeOK'
  <2>1. df \in SUBSET ObjectId
    BY DEF CallerLineage
  <2> QED BY <1>1, <2>1 DEF CreateObject, State, Reported
<1>2. ASSUME NEW o \in ObjectId, EnrichObject(o) PROVE GraphTypeOK'
  BY <1>2 DEF EnrichObject, State, Reported
<1>3. ASSUME NEW o \in ObjectId, AttachEvidence(o) PROVE GraphTypeOK'
  BY <1>3 DEF AttachEvidence
<1>4. ASSUME NEW o \in ObjectId, FreezeObject(o) PROVE GraphTypeOK'
  BY <1>4 DEF FreezeObject, MoveAndReport, State, Reported
<1>5. ASSUME NEW o \in ObjectId, DeprecateObject(o) PROVE GraphTypeOK'
  BY <1>5 DEF DeprecateObject, MoveAndReport, State, Reported
<1>6. ASSUME NEW o \in ObjectId, NEW s \in State, TransitionObject(o, s) PROVE GraphTypeOK'
  BY <1>6 DEF TransitionObject, MoveAndReport, Reported
<1>7. ASSUME NEW o \in ObjectId, NEW n \in ObjectId, NEW e \in EvidenceInput,
             SupersedeObject(o, n, e)
      PROVE  GraphTypeOK'
  <2>1. state' \in [ObjectId -> State] /\ reported' \in [ObjectId -> Reported]
    BY <1>7 DEF SupersedeObject, State, Reported
  <2>2. SupersessionLink(n, o) \in [source : ObjectId, target : ObjectId, type : LinkType]
    BY SupersedesAssumption DEF SupersessionLink
  <2>3. version' \in [ObjectId -> Nat \ {0}]
    BY <1>7 DEF SupersedeObject
  <2> QED BY <1>7, <2>1, <2>2, <2>3 DEF SupersedeObject
<1>8. ASSUME NEW o \in ObjectId, NEW n \in ObjectId, SupersedeFails(o, n) PROVE GraphTypeOK'
  BY <1>8 DEF SupersedeFails
<1>9. ASSUME NEW s \in ObjectId, NEW t \in ObjectId, NEW ty \in LinkType, CreateLink(s, t, ty)
      PROVE  GraphTypeOK'
  BY <1>9 DEF CreateLink
<1>10. ASSUME NEW p \in Plane, Reconcile(p) PROVE GraphTypeOK'
  BY <1>10 DEF Reconcile, State
<1>11. CASE UNCHANGED graphVars
  BY <1>11 DEF graphVars
<1> QED
  BY <1>1, <1>2, <1>3, <1>4, <1>5, <1>6, <1>7, <1>8, <1>9, <1>10, <1>11 DEF GraphNext

\* Every reachable state of the control graph is well typed.
THEOREM TypeCorrect == GraphSpec => []GraphTypeOK
BY TypeInit, TypeStep, PTL DEF GraphSpec

-----------------------------------------------------------------------------
(* An operation that builds no object and moves no object out of SUPERSEDED *)
(* keeps the version history.                                               *)
LEMMA HistoryFrame ==
    ASSUME HistoryInv, GraphTypeOK',
           UNCHANGED <<issued, stored, version, superseded_by, derived_from>>,
           \A o \in stored : state[o] = "superseded" => state'[o] = "superseded"
    PROVE  HistoryInv'
BY DEF HistoryInv, FreshIds, LinearHistory, SupersededByIsSuccessor, Succeeds, GraphTypeOK

LEMMA HistoryInit == GraphInit => HistoryInv
<1> SUFFICES ASSUME GraphInit PROVE HistoryInv
  OBVIOUS
<1>1. GraphTypeOK
  BY TypeInit
<1> QED BY <1>1 DEF GraphInit, HistoryInv, FreshIds, LinearHistory, SupersededByIsSuccessor

LEMMA HistoryStep == HistoryInv /\ [GraphNext]_graphVars => HistoryInv'
<1> SUFFICES ASSUME HistoryInv, [GraphNext]_graphVars PROVE HistoryInv'
  OBVIOUS
<1>0. GraphTypeOK /\ GraphTypeOK'
  BY TypeStep DEF HistoryInv
<1>a. ASSUME NEW o \in ObjectId, NEW s, CanTransition(o, s)
      PROVE  state[o] # "superseded"
  BY <1>a, TransitionTable DEF CanTransition, Terminal
<1>1. ASSUME NEW o \in ObjectId, NEW act \in BOOLEAN, NEW e \in EvidenceInput,
             NEW df \in CallerLineage, CreateObject(o, act, e, df)
      PROVE  HistoryInv'
  <2>1. /\ o \notin stored /\ version[o] = 1 /\ version' = version
        /\ superseded_by' = superseded_by /\ superseded_by[o] = NoObject
        /\ stored' = stored \cup {o} /\ issued' = issued \cup {o}
        /\ \A x \in stored : state'[x] = state[x] /\ derived_from'[x] = derived_from[x]
    BY <1>0, <1>1 DEF CreateObject, HistoryInv, FreshIds, GraphTypeOK
  <2>2. FreshIds'
    BY <2>1 DEF HistoryInv, FreshIds
  <2>3. LinearHistory'
    BY <2>1 DEF HistoryInv, LinearHistory, Succeeds
  <2>4. SupersededByIsSuccessor'
    <3> SUFFICES ASSUME NEW x \in stored', superseded_by'[x] \in stored'
                 PROVE  Succeeds(superseded_by[x], x)' /\ state'[x] = "superseded"
      BY <2>1 DEF SupersededByIsSuccessor
    <3>1. x \in stored /\ superseded_by[x] \in stored
      BY <1>0, <1>1, <2>1, ObjectAssumption DEF HistoryInv, FreshIds, GraphTypeOK, CreateObject
    <3> QED BY <2>1, <3>1 DEF HistoryInv, SupersededByIsSuccessor, Succeeds
  <2> QED BY <1>0, <2>2, <2>3, <2>4 DEF HistoryInv
<1>2. ASSUME NEW o \in ObjectId, EnrichObject(o) PROVE HistoryInv'
  BY <1>0, <1>2, HistoryFrame DEF EnrichObject, GraphTypeOK
<1>3. ASSUME NEW o \in ObjectId, AttachEvidence(o) PROVE HistoryInv'
  BY <1>0, <1>3, HistoryFrame DEF AttachEvidence
<1>4. ASSUME NEW o \in ObjectId, FreezeObject(o) PROVE HistoryInv'
  BY <1>0, <1>4, HistoryFrame DEF FreezeObject, MoveAndReport, GraphTypeOK
<1>5. ASSUME NEW o \in ObjectId, NEW s \in State, CanTransition(o, s), MoveAndReport(o, s)
      PROVE  HistoryInv'
  BY <1>0, <1>5, <1>a, HistoryFrame DEF MoveAndReport, GraphTypeOK
<1>6. ASSUME NEW o \in ObjectId, NEW n \in ObjectId, NEW e \in EvidenceInput,
             SupersedeObject(o, n, e)
      PROVE  HistoryInv'
  <2>1. /\ o \in stored /\ n \notin issued /\ n \notin stored /\ n # o
        /\ state[o] # "superseded"
        /\ version[n] = 1 /\ superseded_by[n] = NoObject
        /\ stored' = stored \cup {n} /\ issued' = issued \cup {n}
        /\ version'[n] = version[o] + 1 /\ version'[n] > 1
        /\ derived_from'[n] = {o} /\ superseded_by'[o] = n
        /\ state'[o] = "superseded"
        /\ \A x \in ObjectId \ {n} : version'[x] = version[x] /\ derived_from'[x] = derived_from[x]
        /\ \A x \in ObjectId \ {n, o} : state'[x] = state[x]
        /\ \A x \in ObjectId \ {o} : superseded_by'[x] = superseded_by[x]
    <3>1. state[o] # "superseded"
      BY <1>6, <1>a DEF SupersedeObject
    <3>2. version[n] = 1 /\ superseded_by[n] = NoObject
      BY <1>6 DEF SupersedeObject, HistoryInv, FreshIds
    <3> QED BY <1>0, <1>6, <3>1, <3>2 DEF SupersedeObject, GraphTypeOK
  <2>2. FreshIds'
    BY <1>0, <2>1 DEF HistoryInv, FreshIds, GraphTypeOK
  <2>3. ASSUME NEW m \in stored, Succeeds(m, o) PROVE FALSE
    BY <2>1, <2>3 DEF HistoryInv, LinearHistory, Succeeds
  <2>4. LinearHistory'
    <3>1. \A m \in stored, x \in ObjectId : Succeeds(m, x)' <=> Succeeds(m, x)
      BY <1>0, <2>1 DEF Succeeds, GraphTypeOK
    <3>2. \A x \in ObjectId : Succeeds(n, x)' => x = o
      BY <2>1 DEF Succeeds
    <3>3. Succeeds(n, o)'
      BY <2>1 DEF Succeeds
    <3>4. ASSUME NEW k \in stored', version'[k] > 1
          PROVE  \E x \in stored' : /\ Succeeds(k, x)'
                                    /\ version'[k] = version'[x] + 1
                                    /\ state'[x] = "superseded"
      <4>1. CASE k = n
        BY <1>0, <2>1, <3>3, <4>1 DEF GraphTypeOK
      <4>2. CASE k # n
        <5>1. k \in stored /\ version[k] > 1
          BY <1>0, <2>1, <3>4, <4>2 DEF GraphTypeOK
        <5>2. PICK x \in stored : /\ Succeeds(k, x)
                                  /\ version[k] = version[x] + 1
                                  /\ state[x] = "superseded"
          BY <5>1 DEF HistoryInv, LinearHistory
        <5> QED BY <1>0, <2>1, <3>1, <5>1, <5>2 DEF GraphTypeOK
      <4> QED BY <4>1, <4>2
    <3>5. ASSUME NEW x \in stored', NEW j \in stored', NEW k \in stored',
                 Succeeds(j, x)', Succeeds(k, x)'
          PROVE  j = k
      <4>1. \A i \in stored : i \in ObjectId
        BY <1>0 DEF GraphTypeOK
      <4>2. x \in stored
        <5>1. CASE j = n
          BY <2>1, <3>2, <3>5, <5>1 DEF GraphTypeOK
        <5>2. CASE j # n
          <6>1. j \in stored /\ x \in ObjectId
            BY <2>1, <3>5, <5>2, <4>1
          <6>2. Succeeds(j, x)
            BY <3>1, <3>5, <6>1
          <6> QED BY <6>1, <6>2 DEF HistoryInv, LinearHistory, Succeeds
        <5> QED BY <5>1, <5>2
      <4>3. CASE x = o
        BY <2>1, <2>3, <3>1, <3>5, <4>1, <4>3
      <4>4. CASE x # o
        <5>1. j \in stored /\ k \in stored
          BY <2>1, <3>2, <3>5, <4>1, <4>2, <4>4
        <5> QED BY <3>1, <3>5, <4>1, <4>2, <5>1 DEF HistoryInv, LinearHistory
      <4> QED BY <4>3, <4>4
    <3> QED BY <3>4, <3>5 DEF LinearHistory
  <2>5. SupersededByIsSuccessor'
    <3> SUFFICES ASSUME NEW x \in stored', superseded_by'[x] \in stored'
                 PROVE  Succeeds(superseded_by[x], x)' /\ state'[x] = "superseded"
      BY DEF SupersededByIsSuccessor
    <3>1. CASE x = o
      BY <2>1, <3>1 DEF Succeeds
    <3>2. CASE x # o
      <4>1. x \in stored /\ superseded_by[x] \in stored /\ superseded_by'[x] = superseded_by[x]
        BY <1>0, <2>1, <3>2, ObjectAssumption DEF HistoryInv, FreshIds, GraphTypeOK
      <4>2. Succeeds(superseded_by[x], x) /\ state[x] = "superseded"
        BY <4>1 DEF HistoryInv, SupersededByIsSuccessor
      <4> QED BY <1>0, <2>1, <3>2, <4>1, <4>2 DEF Succeeds, GraphTypeOK
    <3> QED BY <3>1, <3>2
  <2> QED BY <1>0, <2>2, <2>4, <2>5 DEF HistoryInv
<1>7. ASSUME NEW o \in ObjectId, NEW n \in ObjectId, SupersedeFails(o, n) PROVE HistoryInv'
  <2>1. /\ n \notin issued /\ n \notin stored /\ n # o
        /\ issued' = issued \cup {n} /\ superseded_by'[o] = n
        /\ \A x \in ObjectId \ {o} : superseded_by'[x] = superseded_by[x]
        /\ UNCHANGED <<stored, state, version, derived_from>>
    BY <1>0, <1>7 DEF SupersedeFails, GraphTypeOK
  <2>2. FreshIds'
    BY <1>0, <1>7, <2>1 DEF HistoryInv, FreshIds, GraphTypeOK, SupersedeFails
  <2>3. LinearHistory'
    BY <2>1 DEF HistoryInv, LinearHistory, Succeeds
  <2>4. SupersededByIsSuccessor'
    BY <1>0, <2>1 DEF HistoryInv, SupersededByIsSuccessor, Succeeds, GraphTypeOK
  <2> QED BY <1>0, <2>2, <2>3, <2>4 DEF HistoryInv
<1>8. ASSUME NEW s \in ObjectId, NEW t \in ObjectId, NEW ty \in LinkType, CreateLink(s, t, ty)
      PROVE  HistoryInv'
  BY <1>0, <1>8, HistoryFrame DEF CreateLink
<1>9. ASSUME NEW p \in Plane, Reconcile(p) PROVE HistoryInv'
  BY <1>0, <1>9, HistoryFrame DEF Reconcile, GraphTypeOK
<1>10. CASE UNCHANGED graphVars
  BY <1>0, <1>10, HistoryFrame DEF graphVars
<1>11. ASSUME NEW o \in ObjectId, DeprecateObject(o) PROVE HistoryInv'
  BY <1>5, <1>11 DEF DeprecateObject, State
<1>12. ASSUME NEW o \in ObjectId, NEW s \in State, TransitionObject(o, s) PROVE HistoryInv'
  BY <1>5, <1>12 DEF TransitionObject
<1> QED
  BY <1>1, <1>2, <1>3, <1>4, <1>6, <1>7, <1>8, <1>9, <1>10, <1>11, <1>12 DEF GraphNext

\* supersede_object builds linear histories, in every reachable state.
THEOREM HistoryIsLinear == GraphSpec => []LinearHistory
<1>1. HistoryInv => LinearHistory
  BY DEF HistoryInv
<1> QED BY <1>1, HistoryInit, HistoryStep, PTL DEF GraphSpec

\* A superseded_by pointer that leads to a stored object leads to its successor.
THEOREM PointersAreSuccessors == GraphSpec => []SupersededByIsSuccessor
<1>1. HistoryInv => SupersededByIsSuccessor
  BY DEF HistoryInv
<1> QED BY <1>1, HistoryInit, HistoryStep, PTL DEF GraphSpec

-----------------------------------------------------------------------------
(* Links: what was stored once, and whom it succeeds, never changes. *)

LEMMA StoredStep ==
    ASSUME GraphTypeOK, [GraphNext]_graphVars
    PROVE  /\ stored \subseteq stored'
           /\ \A n \in stored : \A o \in ObjectId : Succeeds(n, o)' <=> Succeeds(n, o)
<1> DEFINE Goal == /\ stored \subseteq stored'
                   /\ \A n \in stored : version'[n] = version[n] /\ derived_from'[n] = derived_from[n]
<1> USE DEF GraphTypeOK
<1>1. ASSUME NEW o \in ObjectId, NEW act \in BOOLEAN, NEW e \in EvidenceInput,
             NEW df \in CallerLineage, CreateObject(o, act, e, df)
      PROVE  Goal
  BY <1>1 DEF CreateObject
<1>2. ASSUME NEW o \in ObjectId, NEW n \in ObjectId, NEW e \in EvidenceInput,
             SupersedeObject(o, n, e)
      PROVE  Goal
  BY <1>2 DEF SupersedeObject
<1>3. ASSUME UNCHANGED <<stored, version, derived_from>> PROVE Goal
  BY <1>3
<1>4. Goal
  BY <1>1, <1>2, <1>3
     DEF GraphNext, graphVars, EnrichObject, AttachEvidence, FreezeObject, DeprecateObject,
         TransitionObject, MoveAndReport, SupersedeFails, CreateLink, Reconcile
<1> QED BY <1>4 DEF Succeeds

LEMMA LinksInit == GraphInit => LinksGoverned
BY DEF GraphInit, LinksGoverned

LEMMA LinksStep == GraphTypeOK /\ LinksGoverned /\ [GraphNext]_graphVars => LinksGoverned'
<1> SUFFICES ASSUME GraphTypeOK, LinksGoverned, [GraphNext]_graphVars,
                    NEW l \in links'
             PROVE  /\ l.source \in stored'
                    /\ l.target \in stored'
                    /\ \/ LinkAllowed(l.source, l.target, l.type)
                       \/ l.type = "supercedes" /\ Succeeds(l.source, l.target)'
  BY DEF LinksGoverned, LinkAllowed
<1>1. CASE l \in links
  <2>1. l.source \in stored /\ l.target \in ObjectId
    BY <1>1 DEF GraphTypeOK, LinksGoverned
  <2> QED BY <1>1, <2>1, StoredStep DEF LinksGoverned
<1>2. ASSUME NEW o \in ObjectId, NEW n \in ObjectId, NEW e \in EvidenceInput,
             SupersedeObject(o, n, e), l \notin links
      PROVE  l.type = "supercedes" /\ Succeeds(l.source, l.target)'
             /\ l.source \in stored' /\ l.target \in stored'
  <2>1. l.source = n /\ l.target = o /\ l.type = "supercedes" /\ o \in stored /\ n # o
    BY <1>2 DEF SupersedeObject, SupersessionLink, GraphTypeOK
  <2>2. version'[n] > 1 /\ derived_from'[n] = {o}
    BY <1>2 DEF SupersedeObject, GraphTypeOK
  <2> QED BY <1>2, <2>1, <2>2 DEF SupersedeObject, Succeeds
<1>3. ASSUME NEW s \in ObjectId, NEW t \in ObjectId, NEW ty \in LinkType,
             CreateLink(s, t, ty), l \notin links
      PROVE  LinkAllowed(l.source, l.target, l.type)
             /\ l.source \in stored' /\ l.target \in stored'
  <2>1. l.source = s /\ l.target = t /\ l.type = ty
    BY <1>3 DEF CreateLink
  <2> QED BY <1>3, <2>1 DEF CreateLink
<1>4. CASE l \notin links
  <2>1. links' # links
    BY <1>4
  <2> QED
    BY <1>2, <1>3, <1>4, <2>1
       DEF GraphNext, graphVars, CreateObject, EnrichObject, AttachEvidence, FreezeObject,
           DeprecateObject, TransitionObject, MoveAndReport, SupersedeFails, Reconcile
<1> QED BY <1>1, <1>4

\* No link dangles, and each one obeys the link policy or records a supersession.
THEOREM LinksAreGoverned == GraphSpec => []LinksGoverned
BY TypeInit, TypeStep, LinksInit, LinksStep, PTL DEF GraphSpec

-----------------------------------------------------------------------------
(* Refinement *)

LEMMA ForestInit == GraphInit => Forest!Init
BY DEF GraphInit, Forest!Init, Succession, RetiredObjects

\* Every step of the graph service is a step of the forest or leaves it alone.
LEMMA ForestStep ==
    ASSUME HistoryInv, [GraphNext]_graphVars
    PROVE  [Forest!Next]_(Forest!forestVars)
<1>0. GraphTypeOK /\ GraphTypeOK'
  BY TypeStep DEF HistoryInv
<1>a. ASSUME UNCHANGED <<stored, version, derived_from>> PROVE UNCHANGED Succession
  BY <1>a DEF Succession, Succeeds
\* an object moves inside the lifecycle table: it may retire
<1>b. ASSUME NEW o \in stored, NEW s \in State, s # state[o],
             state[o] \notin Terminal,
             state' = [state EXCEPT ![o] = s], UNCHANGED <<stored, version, derived_from>>
      PROVE  [Forest!Next]_(Forest!forestVars)
  <2>1. UNCHANGED Succession /\ o \in ObjectId
    BY <1>0, <1>a, <1>b DEF GraphTypeOK
  <2>2. CASE s \in Terminal
    <3>1. RetiredObjects' = RetiredObjects \cup {o} /\ o \in stored \ RetiredObjects
      BY <1>0, <1>b, <2>2 DEF RetiredObjects, GraphTypeOK
    <3>2. Forest!Retire(o)
      BY <1>b, <2>1, <3>1 DEF Forest!Retire
    <3> QED BY <2>1, <3>2 DEF Forest!Next
  <2>3. CASE s \notin Terminal
    <3>1. RetiredObjects' = RetiredObjects
      BY <1>0, <1>b, <2>3 DEF RetiredObjects, GraphTypeOK
    <3> QED BY <1>b, <2>1, <3>1 DEF Forest!forestVars
  <2> QED BY <2>2, <2>3
<1>1. ASSUME NEW o \in ObjectId, NEW act \in BOOLEAN, NEW e \in EvidenceInput,
             NEW df \in CallerLineage, CreateObject(o, act, e, df)
      PROVE  [Forest!Next]_(Forest!forestVars)
  <2>1. o \notin stored /\ stored' = stored \cup {o} /\ version' = version /\ version[o] = 1
    BY <1>0, <1>1 DEF CreateObject, HistoryInv, FreshIds, GraphTypeOK
  <2>2. \A x \in stored : state'[x] = state[x] /\ derived_from'[x] = derived_from[x]
    BY <1>0, <1>1, <2>1 DEF CreateObject, GraphTypeOK
  <2>3. Succession' = Succession
    BY <2>1, <2>2 DEF Succession, Succeeds
  <2>4. state'[o] \notin Terminal
    BY <1>0, <1>1 DEF CreateObject, Terminal, GraphTypeOK
  <2>5. RetiredObjects' = RetiredObjects
    BY <2>1, <2>2, <2>4 DEF RetiredObjects
  <2>6. Forest!Plant(o)
    BY <2>1, <2>3, <2>5 DEF Forest!Plant
  <2> QED BY <2>6 DEF Forest!Next
<1>2. ASSUME NEW o \in ObjectId, EnrichObject(o) PROVE [Forest!Next]_(Forest!forestVars)
  <2>1. CASE state[o] = "active"
    BY <1>2, <1>b, <2>1 DEF EnrichObject, State, Terminal
  <2>2. CASE state[o] # "active"
    BY <1>2, <1>a, <2>2 DEF EnrichObject, Forest!forestVars, RetiredObjects
  <2> QED BY <2>1, <2>2
<1>3. ASSUME NEW o \in ObjectId, FreezeObject(o) PROVE [Forest!Next]_(Forest!forestVars)
  BY <1>3, <1>b DEF FreezeObject, MoveAndReport, State, Terminal
<1>4. ASSUME NEW o \in stored, NEW s \in State, CanTransition(o, s), MoveAndReport(o, s)
      PROVE  [Forest!Next]_(Forest!forestVars)
  <2>1. state[o] \notin Terminal
    BY <1>4, TransitionTable DEF CanTransition
  <2>2. s # state[o]
    BY <1>4 DEF CanTransition, VALID_STATE_TRANSITIONS
  <2> QED BY <1>4, <1>b, <2>1, <2>2 DEF MoveAndReport
<1>5. ASSUME NEW o \in ObjectId, NEW n \in ObjectId, NEW e \in EvidenceInput,
             SupersedeObject(o, n, e)
      PROVE  [Forest!Next]_(Forest!forestVars)
  <2>1. /\ o \in stored /\ n \notin stored /\ n # o /\ stored' = stored \cup {n}
        /\ state'[o] = "superseded" /\ state'[n] = "active"
        /\ \A x \in ObjectId \ {o, n} : state'[x] = state[x]
        /\ version'[n] > 1 /\ derived_from'[n] = {o}
        /\ \A x \in ObjectId \ {n} : version'[x] = version[x] /\ derived_from'[x] = derived_from[x]
    BY <1>0, <1>5 DEF SupersedeObject, GraphTypeOK
  <2>2. o \notin RetiredObjects
    BY <1>5, TransitionTable DEF SupersedeObject, CanTransition, RetiredObjects
  <2>3. RetiredObjects' = RetiredObjects \cup {o}
    BY <1>0, <2>1 DEF RetiredObjects, Terminal, GraphTypeOK
  <2>4. Succession' = Succession \cup {<<o, n>>}
    <3>1. ASSUME NEW x \in ObjectId, NEW y \in ObjectId
          PROVE  (y \in stored' /\ Succeeds(y, x)') <=>
                   (y \in stored /\ Succeeds(y, x)) \/ (y = n /\ x = o)
      BY <1>0, <2>1 DEF Succeeds, GraphTypeOK
    <3> QED BY <3>1 DEF Succession
  <2>5. Forest!Grow(o, n)
    BY <2>1, <2>2, <2>3, <2>4 DEF Forest!Grow
  <2> QED BY <2>5 DEF Forest!Next
<1>6. ASSUME NEW p \in Plane, Reconcile(p) PROVE [Forest!Next]_(Forest!forestVars)
  <2>1. RetiredObjects' = RetiredObjects
    BY <1>0, <1>6 DEF Reconcile, RetiredObjects, Terminal, GraphTypeOK
  <2> QED BY <1>6, <1>a, <2>1 DEF Reconcile, Forest!forestVars
<1>7. ASSUME UNCHANGED <<stored, state, version, derived_from>>
      PROVE  [Forest!Next]_(Forest!forestVars)
  BY <1>7, <1>a DEF Forest!forestVars, RetiredObjects
<1>8. ASSUME NEW o \in ObjectId, DeprecateObject(o) PROVE [Forest!Next]_(Forest!forestVars)
  BY <1>4, <1>8 DEF DeprecateObject, State
<1>9. ASSUME NEW o \in ObjectId, NEW s \in State, TransitionObject(o, s)
      PROVE  [Forest!Next]_(Forest!forestVars)
  BY <1>4, <1>9 DEF TransitionObject
<1>10. ASSUME NEW o \in ObjectId, AttachEvidence(o) PROVE [Forest!Next]_(Forest!forestVars)
  BY <1>7, <1>10 DEF AttachEvidence
<1>11. ASSUME NEW o \in ObjectId, NEW n \in ObjectId, SupersedeFails(o, n)
       PROVE  [Forest!Next]_(Forest!forestVars)
  BY <1>7, <1>11 DEF SupersedeFails
<1>12. ASSUME NEW s \in ObjectId, NEW t \in ObjectId, NEW ty \in LinkType, CreateLink(s, t, ty)
       PROVE  [Forest!Next]_(Forest!forestVars)
  BY <1>7, <1>12 DEF CreateLink
<1>13. CASE UNCHANGED graphVars
  BY <1>7, <1>13 DEF graphVars
<1> QED
  BY <1>1, <1>2, <1>3, <1>5, <1>6, <1>8, <1>9, <1>10, <1>11, <1>12, <1>13 DEF GraphNext

\* The graph service implements the append-only version forest.
THEOREM ImplementsVersionForest == GraphSpec => RefinesVersionForest
BY ForestInit, ForestStep, HistoryInit, HistoryStep, PTL
   DEF GraphSpec, RefinesVersionForest, Forest!Spec

-----------------------------------------------------------------------------
(* The action engine over that graph                                       *)

\* the states an object cannot leave for one it could be actioned from
Settled == {"actioned", "superseded", "deprecated"}

\* what is_releasable says of the mode, in the terms of ReleaseJustified
ModeAllows(p) == mode[p] = "auto_release" \/ (mode[p] = "approval_gated" /\ p \in approved)

\* The targets of a proposal are chosen among the stored objects with evidence,
\* and there is one as soon as the proposal exists, in the table or on its way.
TargetsInv ==
    /\ \A p \in ProposalId : targets[p] \subseteq evidenced \cap stored
    /\ \A p \in proposed : targets[p] # {}
    /\ \A w \in Worker : /\ pc[w] # "idle" => current[w] \in ProposalId
                         /\ pc[w] = "validated" => targets[current[w]] # {}
                         /\ todo[w] \subseteq evidenced \cap stored
                         /\ pc[w] \in {"seen", "tested"} => target[w] \in stored

\* where a worker is inside release_action
InRelease == {"checked", "marking", "seen", "tested"}

\* Who is past the is_releasable test handles a proposal of the table whose mode
\* allows it, and so does every release there was.
ReleaseInv ==
    /\ \A p \in ProposalId : status[p] = "approved" => p \in approved
    /\ \A w \in Worker : pc[w] \in InRelease =>
          current[w] \in proposed /\ ModeAllows(current[w])
    /\ \A p \in ProposalId : releases[p] > 0 => p \in proposed /\ ModeAllows(p)

\* An actioned object is a stored one and stays settled.
ActionedInv ==
    \A o \in ObjectId : actioned[o] > 0 => o \in stored /\ state[o] \in Settled

\* The inductive invariant of the action engine
ActionInv == TypeOK /\ TargetsInv /\ ReleaseInv /\ ActionedInv

-----------------------------------------------------------------------------
(* What the graph's operations guarantee the engine: objects and evidence  *)
(* never disappear, and a settled object is never reconcilable again.      *)
LEMMA GraphKeeps ==
    ASSUME GraphTypeOK, [GraphNext]_graphVars
    PROVE  /\ GraphTypeOK'
           /\ stored \subseteq stored'
           /\ evidenced \subseteq evidenced'
           /\ \A o \in stored : state[o] \in Settled => state'[o] \in Settled
<1>1. GraphTypeOK'
  BY TypeStep
<1> SUFFICES /\ stored \subseteq stored'
             /\ evidenced \subseteq evidenced'
             /\ \A o \in stored : state[o] \in Settled => state'[o] \in Settled
  BY <1>1
<1> USE DEF GraphTypeOK, Settled
<1>2. ASSUME NEW o \in ObjectId, NEW s, CanTransition(o, s), state[o] \in Settled
      PROVE  s \in Settled
  BY <1>2 DEF CanTransition, VALID_STATE_TRANSITIONS
<1>3. ASSUME NEW o \in ObjectId, NEW act \in BOOLEAN, NEW e \in EvidenceInput,
             NEW df \in CallerLineage, CreateObject(o, act, e, df)
      PROVE  /\ stored \subseteq stored' /\ evidenced \subseteq evidenced'
             /\ \A x \in stored : state'[x] = state[x]
  BY <1>3 DEF CreateObject
<1>4. ASSUME NEW o \in ObjectId, EnrichObject(o)
      PROVE  /\ stored \subseteq stored' /\ evidenced \subseteq evidenced'
             /\ \A x \in stored : state[x] \in Settled => state'[x] = state[x]
  BY <1>4 DEF EnrichObject
<1>5. ASSUME NEW o \in ObjectId, AttachEvidence(o)
      PROVE  /\ stored \subseteq stored' /\ evidenced \subseteq evidenced'
             /\ state' = state
  BY <1>5 DEF AttachEvidence
<1>6. ASSUME NEW o \in ObjectId, FreezeObject(o)
      PROVE  /\ stored \subseteq stored' /\ evidenced \subseteq evidenced'
             /\ \A x \in stored : state[x] \in Settled => state'[x] = state[x]
  BY <1>6 DEF FreezeObject, MoveAndReport
<1>7. ASSUME NEW o \in ObjectId, NEW s, CanTransition(o, s), MoveAndReport(o, s)
      PROVE  /\ stored \subseteq stored' /\ evidenced \subseteq evidenced'
             /\ \A x \in stored : state[x] \in Settled => state'[x] \in Settled
  BY <1>2, <1>7 DEF MoveAndReport
<1>8. ASSUME NEW o \in ObjectId, NEW n \in ObjectId, NEW e \in EvidenceInput,
             SupersedeObject(o, n, e)
      PROVE  /\ stored \subseteq stored' /\ evidenced \subseteq evidenced'
             /\ \A x \in stored : state[x] \in Settled => state'[x] \in Settled
  BY <1>8 DEF SupersedeObject
<1>9. ASSUME NEW o \in ObjectId, NEW n \in ObjectId, SupersedeFails(o, n)
      PROVE  UNCHANGED <<stored, evidenced, state>>
  BY <1>9 DEF SupersedeFails
<1>10. ASSUME NEW s \in ObjectId, NEW t \in ObjectId, NEW ty \in LinkType, CreateLink(s, t, ty)
       PROVE  UNCHANGED <<stored, evidenced, state>>
  BY <1>10 DEF CreateLink
<1>11. ASSUME NEW p \in Plane, Reconcile(p)
       PROVE  /\ UNCHANGED <<stored, evidenced>>
              /\ \A x \in stored : state[x] \in Settled => state'[x] = state[x]
  BY <1>11 DEF Reconcile
<1>12. CASE UNCHANGED graphVars
  BY <1>12 DEF graphVars
<1> QED
  BY <1>3, <1>4, <1>5, <1>6, <1>7, <1>8, <1>9, <1>10, <1>11, <1>12
     DEF GraphNext, DeprecateObject, TransitionObject

-----------------------------------------------------------------------------
LEMMA ActionInit == Init => ActionInv
<1> SUFFICES ASSUME Init PROVE ActionInv
  OBVIOUS
<1>1. GraphTypeOK
  BY TypeInit DEF Init
<1> QED
  BY <1>1 DEF Init, ActionInv, TypeOK, TargetsInv, ReleaseInv, InRelease, ActionedInv, ModeAllows,
              Mode, Status, Eligibility

\* A step of the graph between two steps of the engine.
LEMMA ActionGraphStep ==
    ASSUME ActionInv, [GraphNext]_graphVars, UNCHANGED <<proposalVars, workerVars, history>>
    PROVE  ActionInv'
<1>1. /\ GraphTypeOK'
      /\ stored \subseteq stored'
      /\ evidenced \subseteq evidenced'
      /\ \A o \in stored : state[o] \in Settled => state'[o] \in Settled
  BY GraphKeeps DEF ActionInv, TypeOK
<1> USE DEF ActionInv, proposalVars, workerVars, history
<1>2. TypeOK'
  BY <1>1 DEF TypeOK
<1>3. TargetsInv'
  BY <1>1 DEF TargetsInv
<1>4. ReleaseInv'
  BY DEF ReleaseInv, InRelease, ModeAllows
<1>5. ActionedInv'
  BY <1>1 DEF ActionedInv
<1> QED BY <1>2, <1>3, <1>4, <1>5

LEMMA ProposeKeeps ==
    ASSUME ActionInv, NEW w \in Worker, NEW p \in ProposalId, NEW m \in Mode,
           NEW ids \in SUBSET ObjectId, NEW r \in BOOLEAN,
           ProposeValidate(w, p, m, ids, r)
    PROVE  ActionInv'
<1> DEFINE objs == ids \cap stored
<1> USE DEF ActionInv, history
<1>1. /\ p \notin proposed /\ \A v \in Worker : current[v] # p
      /\ objs # {} /\ objs \subseteq evidenced \cap stored
      /\ targets' = [targets EXCEPT ![p] = objs]
      /\ pc' = [pc EXCEPT ![w] = "validated"] /\ current' = [current EXCEPT ![w] = p]
      /\ UNCHANGED <<graphVars, proposed, approved, todo, target, history>>
  BY DEF ProposeValidate, ValidationPasses, EvidenceSufficiencyRule
<1>2. /\ mode' = [mode EXCEPT ![p] = m]
      /\ \A q \in ProposalId \ {p} : mode'[q] = mode[q] /\ status'[q] = status[q]
      /\ status'[p] # "approved"
  BY DEF ProposeValidate, TypeOK, Mode
<1>3. TypeOK'
  <2>1. GraphTypeOK'
    BY <1>1 DEF TypeOK, GraphTypeOK, graphVars
  <2>2. status' \in [ProposalId -> Status] /\ eligibility' \in [ProposalId -> Eligibility]
    BY DEF ProposeValidate, TypeOK, Mode, Status, Eligibility
  <2> QED BY <1>1, <1>2, <2>1, <2>2 DEF TypeOK, graphVars, GraphTypeOK
<1>4. TargetsInv'
  BY <1>1 DEF TargetsInv, TypeOK, graphVars
<1>5. ReleaseInv'
  <2>1. \A v \in Worker : pc'[v] \in InRelease =>
            v # w /\ pc'[v] = pc[v] /\ current'[v] = current[v] /\ current[v] # p
    BY <1>1 DEF TypeOK, InRelease
  <2> QED BY <1>1, <1>2, <2>1 DEF ReleaseInv, InRelease, ModeAllows, TypeOK
<1>6. ActionedInv'
  BY <1>1 DEF ActionedInv, graphVars
<1> QED BY <1>3, <1>4, <1>5, <1>6

LEMMA StoreKeeps ==
    ASSUME ActionInv, NEW w \in Worker, ProposeStore(w)
    PROVE  ActionInv'
<1> USE DEF ActionInv, history, ProposeStore
<1>1. current[w] \in ProposalId
  BY DEF TargetsInv
<1>2. TypeOK'
  BY <1>1 DEF TypeOK, GraphTypeOK, graphVars
<1>3. TargetsInv'
  BY <1>1 DEF TargetsInv, TypeOK, graphVars
<1>4. ReleaseInv'
  BY DEF ReleaseInv, InRelease, ModeAllows, TypeOK
<1>5. ActionedInv'
  BY DEF ActionedInv, graphVars
<1> QED BY <1>2, <1>3, <1>4, <1>5

LEMMA DecisionKeeps ==
    ASSUME ActionInv, NEW p \in ProposalId, ApproveAction(p) \/ RejectAction(p)
    PROVE  ActionInv'
<1> USE DEF ActionInv, history, workerVars
<1>1. /\ p \in proposed
      /\ UNCHANGED <<graphVars, proposed, mode, targets, workerVars, history>>
      /\ approved \subseteq approved'
  BY DEF ApproveAction, RejectAction
<1>2. TypeOK'
  <2>1. GraphTypeOK'
    BY <1>1 DEF TypeOK, GraphTypeOK, graphVars
  <2>2. status' \in [ProposalId -> Status] /\ eligibility' \in [ProposalId -> Eligibility]
    BY DEF ApproveAction, RejectAction, TypeOK, Status, Eligibility
  <2>3. approved' \subseteq proposed
    BY DEF ApproveAction, RejectAction, TypeOK
  <2> QED BY <1>1, <2>1, <2>2, <2>3 DEF TypeOK
<1>3. TargetsInv'
  BY <1>1 DEF TargetsInv, graphVars
<1>4. ReleaseInv'
  <2>1. \A q \in ProposalId : status'[q] = "approved" => q \in approved'
    BY DEF ApproveAction, RejectAction, ReleaseInv, TypeOK
  <2> QED BY <1>1, <2>1 DEF ReleaseInv, InRelease, ModeAllows
<1>5. ActionedInv'
  BY <1>1 DEF ActionedInv, graphVars
<1> QED BY <1>2, <1>3, <1>4, <1>5

LEMMA ReleaseCheckKeeps ==
    ASSUME ActionInv, NEW w \in Worker, NEW p \in ProposalId, ReleaseCheck(w, p)
    PROVE  ActionInv'
<1> USE DEF ActionInv, history, proposalVars, ReleaseCheck
<1>1. ModeAllows(p)
  BY DEF is_releasable, ReleaseInv, ModeAllows
<1>2. TypeOK'
  BY DEF TypeOK, GraphTypeOK, graphVars
<1>3. TargetsInv'
  BY DEF TargetsInv, TypeOK, graphVars
<1>4. ReleaseInv'
  BY <1>1 DEF ReleaseInv, InRelease, ModeAllows, TypeOK
<1>5. ActionedInv'
  BY DEF ActionedInv, graphVars
<1> QED BY <1>2, <1>3, <1>4, <1>5

LEMMA ReleaseCommitKeeps ==
    ASSUME ActionInv, NEW w \in Worker, ReleaseCommit(w)
    PROVE  ActionInv'
<1> USE DEF ActionInv, ReleaseCommit
<1>1. current[w] \in ProposalId /\ current[w] \in proposed /\ ModeAllows(current[w])
  BY DEF TargetsInv, ReleaseInv, InRelease
<1>2. TypeOK'
  BY <1>1 DEF TypeOK, GraphTypeOK, graphVars, Status
<1>3. TargetsInv'
  BY <1>1 DEF TargetsInv, TypeOK, graphVars
<1>4. ReleaseInv'
  BY <1>1 DEF ReleaseInv, InRelease, ModeAllows, TypeOK
<1>5. ActionedInv'
  BY DEF ActionedInv, graphVars
<1> QED BY <1>2, <1>3, <1>4, <1>5

LEMMA ReleaseLookKeeps ==
    ASSUME ActionInv, NEW w \in Worker, NEW o \in ObjectId, ReleaseLook(w, o)
    PROVE  ActionInv'
<1> USE DEF ActionInv, history, proposalVars, ReleaseLook
<1>1. TypeOK'
  BY DEF TypeOK, GraphTypeOK, graphVars
<1>2. TargetsInv'
  BY DEF TargetsInv, TypeOK, graphVars
<1>3. ReleaseInv'
  BY DEF ReleaseInv, InRelease, ModeAllows, TypeOK
<1>4. ActionedInv'
  BY DEF ActionedInv, graphVars
<1> QED BY <1>1, <1>2, <1>3, <1>4

LEMMA MarkTestKeeps ==
    ASSUME ActionInv, NEW w \in Worker, MarkTest(w)
    PROVE  ActionInv'
<1> USE DEF ActionInv, history, proposalVars, MarkTest
<1>1. TypeOK'
  BY DEF TypeOK, GraphTypeOK, graphVars
<1>2. TargetsInv'
  BY DEF TargetsInv, TypeOK, graphVars
<1>3. ReleaseInv'
  BY DEF ReleaseInv, InRelease, ModeAllows, TypeOK
<1>4. ActionedInv'
  BY DEF ActionedInv, graphVars
<1> QED BY <1>1, <1>2, <1>3, <1>4

\* Whatever state the object has by now, the assignment settles it.
LEMMA MarkAssignKeeps ==
    ASSUME ActionInv, NEW w \in Worker, MarkAssign(w)
    PROVE  ActionInv'
<1> USE DEF ActionInv, proposalVars, MarkAssign
<1>1. target[w] \in stored /\ target[w] \in ObjectId
  BY DEF TargetsInv, TypeOK, GraphTypeOK
<1>2. state' \in [ObjectId -> State] /\ actioned' \in [ObjectId -> Nat]
  BY <1>1 DEF TypeOK, GraphTypeOK, State
<1>3. TypeOK'
  BY <1>2 DEF TypeOK, GraphTypeOK
<1>4. TargetsInv'
  BY DEF TargetsInv, TypeOK
<1>5. ReleaseInv'
  BY DEF ReleaseInv, InRelease, ModeAllows, TypeOK
<1>6. ActionedInv'
  BY <1>1 DEF ActionedInv, Settled, TypeOK, GraphTypeOK
<1> QED BY <1>3, <1>4, <1>5, <1>6

LEMMA ReleaseReturnKeeps ==
    ASSUME ActionInv, NEW w \in Worker, ReleaseReturn(w)
    PROVE  ActionInv'
<1> USE DEF ActionInv, history, proposalVars, ReleaseReturn
<1>1. TypeOK'
  BY DEF TypeOK, GraphTypeOK, graphVars
<1>2. TargetsInv'
  BY DEF TargetsInv, TypeOK, graphVars
<1>3. ReleaseInv'
  BY DEF ReleaseInv, InRelease, ModeAllows, TypeOK
<1>4. ActionedInv'
  BY DEF ActionedInv, graphVars
<1> QED BY <1>1, <1>2, <1>3, <1>4

LEMMA ActionStep == ActionInv /\ [Next]_vars => ActionInv'
<1> SUFFICES ASSUME ActionInv, [Next]_vars PROVE ActionInv'
  OBVIOUS
<1>1. CASE UNCHANGED vars
  BY <1>1, ActionGraphStep DEF vars
<1>2. CASE GraphStep
  BY <1>2, ActionGraphStep DEF GraphStep
<1>3. ASSUME NEW w \in Worker, NEW p \in ProposalId, NEW m \in Mode,
             NEW ids \in SUBSET ObjectId, NEW r \in BOOLEAN, ProposeValidate(w, p, m, ids, r)
      PROVE  ActionInv'
  BY <1>3, ProposeKeeps
<1> QED
  BY <1>1, <1>2, <1>3, StoreKeeps, DecisionKeeps, ReleaseCheckKeeps, ReleaseCommitKeeps,
     ReleaseLookKeeps, MarkTestKeeps, MarkAssignKeeps, ReleaseReturnKeeps DEF Next

\* The invariant behind the theorems, which is more than any of them says.
LEMMA ActionInvariant == Spec => []ActionInv
BY ActionInit, ActionStep, PTL DEF Spec

(***************************************************************************)
(* Whatever is released has targets, all of them with evidence, and a mode *)
(* or an approval that allows it: any number of threads may propose,       *)
(* approve, reject and release at the same time, while the graph changes.  *)
(***************************************************************************)
THEOREM ReleasesAreJustified == Spec => []ReleaseJustified
<1>1. ActionInv => ReleaseJustified
  BY DEF ActionInv, TargetsInv, ReleaseInv, InRelease, ModeAllows, ReleaseJustified
<1> QED BY <1>1, ActionInvariant, PTL

-----------------------------------------------------------------------------
(* Marking *)

\* What the two tests ask of an actioned object they do not find.
LEMMA MarkStep ==
    ASSUME ActionInv, [Next]_vars, NEW w \in Worker, NEW o \in ObjectId,
           actioned[o] > 0, MayMark(w, o)'
    PROVE  MayMark(w, o)
<1>1. state[o] \in Settled
  BY DEF ActionInv, ActionedInv
<1>2. ~CanTransition(o, "actioned")
  BY <1>1 DEF CanTransition, VALID_STATE_TRANSITIONS, Settled
<1>3. pc'[w] = "tested" /\ target'[w] = o
  BY DEF MayMark
<1> USE DEF MayMark, ActionInv, TypeOK
<1>4. ASSUME NEW v \in Worker, MarkTest(v) PROVE MayMark(w, o)
  <2>1. CASE v = w
    BY <1>2, <1>3, <1>4, <2>1 DEF MarkTest
  <2>2. CASE v # w
    BY <1>3, <1>4, <2>2 DEF MarkTest
  <2> QED BY <2>1, <2>2
<1>5. ASSUME NEW v \in Worker, MarkAssign(v) PROVE MayMark(w, o)
  BY <1>3, <1>5 DEF MarkAssign
<1>6. ASSUME NEW v \in Worker, NEW x \in ObjectId, ReleaseLook(v, x) PROVE MayMark(w, o)
  BY <1>3, <1>6 DEF ReleaseLook
<1>7. ASSUME NEW v \in Worker, NEW p \in ProposalId, NEW m \in Mode,
             NEW ids \in SUBSET ObjectId, NEW q \in BOOLEAN, ProposeValidate(v, p, m, ids, q)
      PROVE  MayMark(w, o)
  BY <1>3, <1>7 DEF ProposeValidate
<1>8. ASSUME NEW v \in Worker, NEW p \in ProposalId, ReleaseCheck(v, p) PROVE MayMark(w, o)
  BY <1>3, <1>8 DEF ReleaseCheck
<1>9. ASSUME NEW v \in Worker, ProposeStore(v) \/ ReleaseCommit(v) \/ ReleaseReturn(v)
      PROVE  MayMark(w, o)
  BY <1>3, <1>9 DEF ProposeStore, ReleaseCommit, ReleaseReturn
<1>10. ASSUME UNCHANGED workerVars PROVE MayMark(w, o)
  BY <1>3, <1>10 DEF workerVars
<1> QED
  BY <1>4, <1>5, <1>6, <1>7, <1>8, <1>9, <1>10
     DEF Next, vars, GraphStep, ApproveAction, RejectAction

(***************************************************************************)
(* Only a release that overlaps the first one can action an object again:  *)
(* for any number of threads, proposals and objects, while the graph       *)
(* changes underneath.                                                     *)
(***************************************************************************)
THEOREM ActionedAgainOnlyByOverlap == Spec => ActionedOnlyByOverlap
<1>1. ActionInv /\ [Next]_vars =>
        [\A w \in Worker, o \in ObjectId :
            actioned[o] > 0 /\ MayMark(w, o)' => MayMark(w, o)]_vars
  BY MarkStep
<1> QED BY <1>1, ActionInvariant, PTL DEF Spec, ActionedOnlyByOverlap

-----------------------------------------------------------------------------
(* The audit hook *)

\* AuditGapIsKnown is inductive once ids not yet issued are known to be
\* unknown to the hook.
AuditInv ==
    /\ AuditGapIsKnown
    /\ \A o \in ObjectId \ issued : reported[o] = "absent"

\* A step of the graph reports what it does but for supersession's new version
\* and reconciliation.
LEMMA AuditGraphStep ==
    ASSUME GraphTypeOK, AuditInv, [GraphNext]_graphVars, UNCHANGED actioned
    PROVE  AuditInv'
<1> USE DEF AuditInv, AuditGapIsKnown, GraphTypeOK
<1>1. ASSUME NEW o \in ObjectId, NEW act \in BOOLEAN, NEW e \in EvidenceInput,
             NEW df \in CallerLineage, CreateObject(o, act, e, df)
      PROVE  AuditInv'
  BY <1>1 DEF CreateObject
<1>2. ASSUME NEW o \in ObjectId, EnrichObject(o) PROVE AuditInv'
  BY <1>2 DEF EnrichObject
<1>3. ASSUME NEW o \in ObjectId, NEW s, o \in stored, MoveAndReport(o, s) PROVE AuditInv'
  BY <1>3 DEF MoveAndReport
<1>4. ASSUME NEW o \in ObjectId, NEW n \in ObjectId, NEW e \in EvidenceInput,
             SupersedeObject(o, n, e)
      PROVE  AuditInv'
  <2>1. reported[n] = "absent" /\ n # o
    BY <1>4 DEF SupersedeObject
  <2>2. /\ state'[n] = "active" /\ reported'[n] = "absent" /\ version'[n] > 1
        /\ state'[o] = "superseded" /\ reported'[o] = "superseded"
    BY <1>4, <2>1 DEF SupersedeObject
  <2>3. \A x \in ObjectId \ {o, n} :
           state'[x] = state[x] /\ reported'[x] = reported[x] /\ version'[x] = version[x]
    BY <1>4 DEF SupersedeObject
  <2> QED BY <1>4, <2>2, <2>3 DEF SupersedeObject
<1>5. ASSUME NEW p \in Plane, Reconcile(p) PROVE AuditInv'
  BY <1>5 DEF Reconcile
<1>6. ASSUME UNCHANGED <<stored, state, version, reported>>, issued \subseteq issued'
      PROVE  AuditInv'
  BY <1>6
<1> QED
  BY <1>1, <1>2, <1>3, <1>4, <1>5, <1>6
     DEF GraphNext, graphVars, AttachEvidence, FreezeObject, DeprecateObject,
         TransitionObject, SupersedeFails, CreateLink

LEMMA AuditStep == ActionInv /\ AuditInv /\ [Next]_vars => AuditInv'
<1> SUFFICES ASSUME ActionInv, AuditInv, [Next]_vars PROVE AuditInv'
  OBVIOUS
<1>0. GraphTypeOK
  BY DEF ActionInv, TypeOK
<1>1. ASSUME NEW w \in Worker, MarkAssign(w) PROVE AuditInv'
  <2>1. target[w] \in stored /\ target[w] \in ObjectId
    BY <1>0, <1>1 DEF MarkAssign, ActionInv, TargetsInv, GraphTypeOK
  <2>2. /\ state'[target[w]] = "actioned" /\ actioned'[target[w]] > 0
        /\ \A x \in ObjectId \ {target[w]} :
              state'[x] = state[x] /\ actioned'[x] = actioned[x]
    BY <1>0, <1>1, <2>1 DEF MarkAssign, ActionInv, TypeOK, GraphTypeOK
  <2>3. UNCHANGED <<issued, stored, version, reported>>
    BY <1>1 DEF MarkAssign
  <2> QED BY <1>0, <2>2, <2>3 DEF AuditInv, AuditGapIsKnown, GraphTypeOK
<1>2. ASSUME [GraphNext]_graphVars, UNCHANGED actioned PROVE AuditInv'
  BY <1>0, <1>2, AuditGraphStep
<1>3. ASSUME NEW w \in Worker, NEW p \in ProposalId, NEW m \in Mode,
             NEW ids \in SUBSET ObjectId, NEW q \in BOOLEAN, ProposeValidate(w, p, m, ids, q)
      PROVE  AuditInv'
  BY <1>2, <1>3 DEF ProposeValidate, history
<1>4. ASSUME NEW p \in ProposalId, ApproveAction(p) \/ RejectAction(p) PROVE AuditInv'
  BY <1>2, <1>4 DEF ApproveAction, RejectAction, history
<1>5. ASSUME NEW w \in Worker, NEW p \in ProposalId, ReleaseCheck(w, p) PROVE AuditInv'
  BY <1>2, <1>5 DEF ReleaseCheck, history
<1>6. ASSUME NEW w \in Worker, ProposeStore(w) \/ ReleaseCommit(w) \/ ReleaseReturn(w)
      PROVE  AuditInv'
  BY <1>2, <1>6 DEF ProposeStore, ReleaseCommit, ReleaseReturn, history
<1>7. ASSUME NEW w \in Worker, NEW o \in ObjectId, ReleaseLook(w, o) PROVE AuditInv'
  BY <1>2, <1>7 DEF ReleaseLook, history
<1>8. ASSUME NEW w \in Worker, MarkTest(w) PROVE AuditInv'
  BY <1>2, <1>8 DEF MarkTest, history
<1>9. CASE GraphStep
  BY <1>2, <1>9 DEF GraphStep, history
<1>10. CASE UNCHANGED vars
  BY <1>2, <1>10 DEF vars, history
<1> QED
  BY <1>1, <1>3, <1>4, <1>5, <1>6, <1>7, <1>8, <1>9, <1>10 DEF Next

(***************************************************************************)
(* The audit hook misses new versions, reconciliations and what releases   *)
(* mark, and nothing else, with the engine's threads at work on the graph. *)
(***************************************************************************)
THEOREM AuditGapBounded == Spec => []AuditGapIsKnown
<1>1. Init => AuditInv
  BY DEF Init, GraphInit, AuditInv, AuditGapIsKnown
<1>2. AuditInv => AuditGapIsKnown
  BY DEF AuditInv
<1> QED BY <1>1, <1>2, ActionInvariant, AuditStep, PTL DEF Spec

=============================================================================
