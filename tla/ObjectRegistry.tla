--------------------------- MODULE ObjectRegistry ---------------------------
(***************************************************************************)
(* The canonical registry of control objects: versions, version records,   *)
(* events and indices, and state transitions that may be asked of the      *)
(* release gate first, which other callers share.                          *)
(*                                                                         *)
(* A client holds an object it got earlier and builds its successor from   *)
(* it, so the object may be stale when update receives it.                 *)
(***************************************************************************)
EXTENDS ReleaseGate

CONSTANTS
    ObjectId,    \* object_id
    Client,      \* callers that get objects and update them
    Plane,       \* operational_plane
    ObjectType,  \* object_type
    MaxVersion   \* bound: versions of an object

\* the platform's own action type is one of the gate's
ASSUME TransitionAssumption == "state_transition" \in ActionType

ControlObjectState == {"draft", "active", "under_review", "deprecated", "retired", "quarantined"}

\* VALID_STATE_TRANSITIONS of the registry's objects
LifecycleTransitions ==
    [s \in ControlObjectState |->
        CASE s = "draft" -> {"active", "quarantined"}
          [] s = "active" -> {"under_review", "deprecated", "quarantined"}
          [] s = "under_review" -> {"active", "deprecated", "quarantined"}
          [] s = "deprecated" -> {"retired"}
          [] s = "quarantined" -> {"draft", "retired"}
          [] s = "retired" -> {}]

Object == [version : 1..MaxVersion, state : ControlObjectState,
           plane : Plane, type : ObjectType]

NotRegistered == [version |-> 0]
Nothing == [id |-> {}]

EventType == {"registered", "updated", "state_changed"}

VARIABLES
    objects,     \* ObjectRegistry._objects
    records,     \* ObjectRegistry._version_history: the snapshot of each record
    events,      \* how many events of each type an object has
    plane_index,
    type_index,  \* the tag index is kept like this one
    held         \* the object each client holds

registryVars == <<objects, records, events, plane_index, type_index, held>>
vars == <<registryVars, gateVars>>

TypeOK ==
    /\ GateTypeOK
    /\ \A o \in ObjectId : objects[o] = NotRegistered \/ objects[o] \in Object
    /\ \A o \in ObjectId : records[o] \in Seq(Object) /\ Len(records[o]) <= MaxVersion
    /\ events \in [ObjectId -> [EventType -> 0..MaxVersion]]
    /\ plane_index \in [Plane -> SUBSET ObjectId]
    /\ type_index \in [ObjectType -> SUBSET ObjectId]
    /\ \A c \in Client : held[c] = Nothing \/ held[c].id \in ObjectId

Init ==
    /\ GateInit
    /\ objects = [o \in ObjectId |-> NotRegistered]
    /\ records = [o \in ObjectId |-> <<>>]
    /\ events = [o \in ObjectId |-> [e \in EventType |-> 0]]
    /\ plane_index = [p \in Plane |-> {}]
    /\ type_index = [t \in ObjectType |-> {}]
    /\ held = [c \in Client |-> Nothing]

Registered == {o \in ObjectId : objects[o] # NotRegistered}

-----------------------------------------------------------------------------
\* Mutant: the object stays in the index of the plane it left
IndexedKeepingOldPlane(o, new) ==
    /\ plane_index' = [plane_index EXCEPT ![new.plane] = @ \cup {o}]
    /\ type_index' = [type_index EXCEPT ![new.type] = @ \cup {o}]

\* _remove_from_indices (the plane's only) and _update_indices
Indexed(o, new) ==
    /\ plane_index' = [p \in Plane |-> IF p = new.plane THEN plane_index[p] \cup {o}
                                                        ELSE plane_index[p] \ {o}]
    /\ type_index' = [type_index EXCEPT ![new.type] = @ \cup {o}]

\* Mutant: only a change of state is worth a version record
StoreRecordsStateChanges(o, new) ==
    /\ objects' = [objects EXCEPT ![o] = new]
    /\ Indexed(o, new)
    /\ records' = IF o \in Registered /\ objects[o].state = new.state
                  THEN records ELSE [records EXCEPT ![o] = Append(@, new)]

\* what register and update do to an object they accept
Store(o, new) ==
    /\ objects' = [objects EXCEPT ![o] = new]
    /\ Indexed(o, new)
    /\ records' = [records EXCEPT ![o] = Append(@, new)]

\* Objects are built with the defaults DRAFT and version 1.
Register(o, plane, type) ==
    /\ o \notin Registered
    /\ Store(o, [version |-> 1, state |-> "draft", plane |-> plane, type |-> type])
    /\ events' = [events EXCEPT ![o]["registered"] = @ + 1]
    /\ UNCHANGED <<held, gateVars>>

Get(c, o) ==
    /\ o \in Registered
    /\ held' = [held EXCEPT ![c] = [id |-> o, object |-> objects[o]]]
    /\ UNCHANGED <<objects, records, events, plane_index, type_index, gateVars>>

\* update: the successor of the held object, refused unless the object is still
\* at the version that was held; its state is not compared with the old one
Update(c, state, plane, type) ==
    /\ held[c] # Nothing
    /\ LET o == held[c].id
           new == [version |-> held[c].object.version + 1, state |-> state,
                   plane |-> plane, type |-> type]
       IN /\ o \in Registered
          /\ new.version = objects[o].version + 1
          /\ Store(o, new)
          /\ events' = [events EXCEPT ![o]["updated"] = @ + 1]
    /\ UNCHANGED <<held, gateVars>>

-----------------------------------------------------------------------------
(* transition_state *)

CanTransition(o, state) == state \in LifecycleTransitions[objects[o].state]

\* transition_to and update; update emits one event, transition_state another
Transition(o, state) ==
    /\ CanTransition(o, state)
    /\ Store(o, [objects[o] EXCEPT !.version = @ + 1, !.state = state])
    /\ events' = [events EXCEPT ![o]["updated"] = @ + 1, ![o]["state_changed"] = @ + 1]
    /\ UNCHANGED held

TransitionUngated(o, state) ==
    /\ o \in Registered
    /\ Transition(o, state)
    /\ UNCHANGED gateVars

TransitionRequest(by) ==
    [action_type |-> "state_transition", origin |-> "human_operator",
     requested_by |-> by, payload |-> TRUE, evidence |-> TRUE]

\* The gate compiles the release before transition_to looks at the lifecycle, so
\* a transition the lifecycle forbids leaves a compiled package behind.
TransitionGated(o, state, by) ==
    /\ o \in Registered
    /\ GateSubmit(TransitionRequest(by))
    /\ IF Certified(TransitionRequest(by)) /\ CanTransition(o, state)
       THEN Transition(o, state)
       ELSE UNCHANGED registryVars

-----------------------------------------------------------------------------
\* the gate is the platform's: others submit to it, with executors, meanwhile
OthersUseGate == GateNext /\ UNCHANGED registryVars

Next ==
    \/ \E o \in ObjectId, plane \in Plane, type \in ObjectType : Register(o, plane, type)
    \/ \E c \in Client, o \in ObjectId : Get(c, o)
    \/ \E c \in Client, state \in ControlObjectState, plane \in Plane, type \in ObjectType :
          /\ held[c] # Nothing
          /\ held[c].object.version < MaxVersion
          /\ Update(c, state, plane, type)
    \/ \E o \in ObjectId, state \in ControlObjectState :
          /\ Len(records[o]) < MaxVersion
          /\ TransitionUngated(o, state)
    \/ \E o \in ObjectId, state \in ControlObjectState, by \in BOOLEAN :
          /\ Len(records[o]) < MaxVersion
          /\ BelowBound
          /\ TransitionGated(o, state, by)
    \/ OthersUseGate

Spec == Init /\ [][Next]_vars

-----------------------------------------------------------------------------
(* Properties *)

(***************************************************************************)
(* "Linear version control": an object's records are its versions 1, 2, .. *)
(* in order, without a gap or a repetition, however stale the objects are  *)
(* that clients build their updates from; the last one is the object; and  *)
(* each has its registered or updated event.                               *)
(***************************************************************************)
VersionsLinear ==
    \A o \in ObjectId :
        /\ \A i \in DOMAIN records[o] : records[o][i].version = i
        /\ o \in Registered => records[o] # <<>> /\ records[o][Len(records[o])] = objects[o]
        /\ Len(records[o]) = events[o]["registered"] + events[o]["updated"]

(***************************************************************************)
(* get_by_plane finds every registered object under the plane it is in     *)
(* now, and under no other; get_by_type finds it at least under its type.  *)
(***************************************************************************)
IndicesFindObjects ==
    \A o \in ObjectId :
        /\ \A p \in Plane : o \in plane_index[p] <=> o \in Registered /\ objects[o].plane = p
        /\ o \in Registered => o \in type_index[objects[o].type]

=============================================================================
