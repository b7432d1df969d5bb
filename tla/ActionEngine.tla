---------------------------- MODULE ActionEngine ----------------------------
(***************************************************************************)
(* The evidence-gated action engine of app/core/action over the control    *)
(* graph.  Its HTTP handlers are synchronous functions over one service    *)
(* object without a lock, so the framework runs them in several threads:   *)
(* the workers.  propose_action and release_action read state and act on   *)
(* it later, and are split where another worker, or an operation on the    *)
(* graph, can come in between.                                             *)
(***************************************************************************)
EXTENDS ControlGraph

CONSTANTS
    ProposalId,     \* uuids of action proposals
    Worker,         \* request threads
    NoProposal,     \* no proposal
    Confident,      \* objects built with a confidence of at least 0.5
    MaxReleases     \* bound: releases of one proposal that are explored

ASSUME ProposalAssumption == NoProposal \notin ProposalId

Mode == {"dry_run", "approval_gated", "auto_release"}
Status == {"validated", "pending_approval", "approved", "released", "rejected",
           "dry_run_complete"}
Eligibility == {"eligible", "ineligible", "pending_approval"}

VARIABLES
    proposed,     \* keys of ActionEngine._proposals
    mode,         \* ActionProposal.mode
    targets,      \* ActionProposal.manifest.target_object_ids
    status,       \* ActionProposal.status
    eligibility,  \* ActionProposal.eligibility
    approved,     \* proposals whose approved_by is set
    pc,           \* where each worker is in its request
    current,      \* the proposal a worker handles
    todo,         \* targets the worker's release loop has still to visit
    target,       \* the object the worker's loop is about to mark
    releases,     \* history: how often a proposal was released
    actioned      \* history: how often releases marked an object ACTIONED

proposalVars == <<proposed, mode, targets, status, eligibility, approved>>
workerVars == <<pc, current, todo, target>>
history == <<releases, actioned>>
vars == <<graphVars, proposalVars, workerVars, history>>

TypeOK ==
    /\ GraphTypeOK
    /\ proposed \subseteq ProposalId
    /\ mode \in [ProposalId -> Mode]
    /\ targets \in [ProposalId -> SUBSET ObjectId]
    /\ status \in [ProposalId -> Status]
    /\ eligibility \in [ProposalId -> Eligibility]
    /\ approved \subseteq proposed
    /\ pc \in [Worker -> {"idle", "validated", "checked", "marking", "seen", "tested"}]
    /\ current \in [Worker -> ProposalId \cup {NoProposal}]
    /\ todo \in [Worker -> SUBSET ObjectId]
    /\ target \in [Worker -> ObjectId \cup {NoObject}]
    /\ releases \in [ProposalId -> Nat]
    /\ actioned \in [ObjectId -> Nat]

Init ==
    /\ GraphInit
    /\ proposed = {}
    /\ mode = [p \in ProposalId |-> "approval_gated"]
    /\ targets = [p \in ProposalId |-> {}]
    /\ status = [p \in ProposalId |-> "pending_approval"]
    /\ eligibility = [p \in ProposalId |-> "pending_approval"]
    /\ approved = {}
    /\ pc = [w \in Worker |-> "idle"]
    /\ current = [w \in Worker |-> NoProposal]
    /\ todo = [w \in Worker |-> {}]
    /\ target = [w \in Worker |-> NoObject]
    /\ releases = [p \in ProposalId |-> 0]
    /\ actioned = [o \in ObjectId |-> 0]

-----------------------------------------------------------------------------
(* The validation chain.  Schema, provenance and policy rules pass for     *)
(* every object the service can build, and the graph completeness,         *)
(* determinism and precondition rules only warn.                           *)

EvidenceSufficiencyRule(objs) == objs \subseteq evidenced

\* requireReconciled is the caller's context entry of that name
ReconciliationStateRule(objs, requireReconciled) ==
    \A o \in objs : /\ requireReconciled => state[o] \in {"reconciled", "actioned"}
                    /\ state[o] # "disputed"

ConfidenceRule(objs) == objs \subseteq Confident

ContradictoryEvidenceRule(objs) ==
    \A l \in links : l.type = "contradicts" => l.source \notin objs /\ l.target \notin objs

ValidationPasses(objs, requireReconciled) ==
    /\ EvidenceSufficiencyRule(objs)
    /\ ReconciliationStateRule(objs, requireReconciled)
    /\ ConfidenceRule(objs)
    /\ ContradictoryEvidenceRule(objs)

-----------------------------------------------------------------------------
(* propose_action *)

\* Unknown ids are dropped; no object, no evidence or a failed rule raises.
\* The proposal is built but not yet in the table.
ProposeValidate(w, p, m, ids, requireReconciled) ==
    LET objs == ids \cap stored
    IN  /\ pc[w] = "idle"
        /\ p \notin proposed
        /\ \A v \in Worker : current[v] # p
        /\ objs # {}
        /\ objs \cap evidenced # {}
        /\ ValidationPasses(objs, requireReconciled)
        /\ mode' = [mode EXCEPT ![p] = m]
        /\ targets' = [targets EXCEPT ![p] = objs]
        /\ status' = [status EXCEPT ![p] =
                        CASE m = "dry_run" -> "dry_run_complete"
                          [] m = "auto_release" -> "validated"
                          [] m = "approval_gated" -> "pending_approval"]
        /\ eligibility' = [eligibility EXCEPT ![p] =
                        CASE m = "dry_run" -> "ineligible"
                          [] m = "auto_release" -> "eligible"
                          [] m = "approval_gated" -> "pending_approval"]
        /\ pc' = [pc EXCEPT ![w] = "validated"]
        /\ current' = [current EXCEPT ![w] = p]
        /\ UNCHANGED <<graphVars, proposed, approved, todo, target, history>>

\* the proposal enters the table, whatever happened to its targets meanwhile
ProposeStore(w) ==
    /\ pc[w] = "validated"
    /\ proposed' = proposed \cup {current[w]}
    /\ pc' = [pc EXCEPT ![w] = "idle"]
    /\ current' = [current EXCEPT ![w] = NoProposal]
    /\ UNCHANGED <<graphVars, mode, targets, status, eligibility, approved, todo, target,
                   history>>

-----------------------------------------------------------------------------
(* approve_action and reject_action: neither looks at the status *)

ApproveAction(p) ==
    /\ p \in proposed
    /\ mode[p] = "approval_gated"
    /\ status' = [status EXCEPT ![p] = "approved"]
    /\ eligibility' = [eligibility EXCEPT ![p] = "eligible"]
    /\ approved' = approved \cup {p}
    /\ UNCHANGED <<graphVars, proposed, mode, targets, workerVars, history>>

RejectAction(p) ==
    /\ p \in proposed
    /\ status' = [status EXCEPT ![p] = "rejected"]
    /\ eligibility' = [eligibility EXCEPT ![p] = "ineligible"]
    /\ UNCHANGED <<graphVars, proposed, mode, targets, approved, workerVars, history>>

-----------------------------------------------------------------------------
(* release_action *)

\* Mutant: anything but a rejected proposal or a dry run is releasable
ReleasableUnlessRejected(p) == status[p] # "rejected" /\ mode[p] # "dry_run"

is_releasable(p) ==
    /\ status[p] # "rejected"
    /\ eligibility[p] = "eligible"
    /\ \/ mode[p] = "approval_gated" /\ status[p] = "approved"
       \/ mode[p] = "auto_release" /\ status[p] = "validated"

ReleaseCheck(w, p) ==
    /\ pc[w] = "idle"
    /\ p \in proposed
    /\ is_releasable(p)
    /\ pc' = [pc EXCEPT ![w] = "checked"]
    /\ current' = [current EXCEPT ![w] = p]
    /\ UNCHANGED <<graphVars, proposalVars, todo, target, history>>

ReleaseCommit(w) ==
    LET p == current[w]
    IN  /\ pc[w] = "checked"
        /\ status' = [status EXCEPT ![p] = "released"]
        /\ releases' = [releases EXCEPT ![p] = @ + 1]
        /\ todo' = [todo EXCEPT ![w] = targets[p]]
        /\ pc' = [pc EXCEPT ![w] = "marking"]
        /\ UNCHANGED <<graphVars, proposed, mode, targets, eligibility, approved,
                       current, target, actioned>>

(* One round of the loop over the targets.  Nothing locks the object: the   *)
(* engine looks at its state, mark_actioned looks again in the lifecycle   *)
(* table, and only then is the state assigned.                             *)

ReleaseLook(w, o) ==
    /\ pc[w] = "marking"
    /\ o \in todo[w]
    /\ todo' = [todo EXCEPT ![w] = @ \ {o}]
    /\ IF state[o] = "reconciled"
       THEN /\ pc' = [pc EXCEPT ![w] = "seen"]
            /\ target' = [target EXCEPT ![w] = o]
       ELSE UNCHANGED <<pc, target>>
    /\ UNCHANGED <<graphVars, proposalVars, current, history>>

\* Mutant: the state is set without asking the lifecycle table
MarkUntested(w) ==
    /\ pc[w] = "seen"
    /\ pc' = [pc EXCEPT ![w] = "tested"]
    /\ UNCHANGED <<graphVars, proposalVars, current, todo, target, history>>

\* transition_state raises if the table does not lead to ACTIONED any more:
\* the request fails, the proposal stays RELEASED, other targets are not visited
MarkTest(w) ==
    /\ pc[w] = "seen"
    /\ IF CanTransition(target[w], "actioned")
       THEN /\ pc' = [pc EXCEPT ![w] = "tested"]
            /\ UNCHANGED <<current, todo, target>>
       ELSE /\ pc' = [pc EXCEPT ![w] = "idle"]
            /\ current' = [current EXCEPT ![w] = NoProposal]
            /\ todo' = [todo EXCEPT ![w] = {}]
            /\ target' = [target EXCEPT ![w] = NoObject]
    /\ UNCHANGED <<graphVars, proposalVars, history>>

\* the assignment, over whatever state the object has by now; the audit hook
\* is not told
MarkAssign(w) ==
    LET o == target[w]
    IN  /\ pc[w] = "tested"
        /\ state' = [state EXCEPT ![o] = "actioned"]
        /\ actioned' = [actioned EXCEPT ![o] = @ + 1]
        /\ pc' = [pc EXCEPT ![w] = "marking"]
        /\ target' = [target EXCEPT ![w] = NoObject]
        /\ UNCHANGED <<issued, stored, version, superseded_by, derived_from, evidenced,
                       links, reported, proposalVars, current, todo, releases>>

ReleaseReturn(w) ==
    /\ pc[w] = "marking"
    /\ todo[w] = {}
    /\ pc' = [pc EXCEPT ![w] = "idle"]
    /\ current' = [current EXCEPT ![w] = NoProposal]
    /\ UNCHANGED <<graphVars, proposalVars, todo, target, history>>

-----------------------------------------------------------------------------
GraphStep == GraphNext /\ UNCHANGED <<proposalVars, workerVars, history>>

Next ==
    \/ GraphStep
    \/ \E w \in Worker, p \in ProposalId :
          \/ \E m \in Mode, ids \in SUBSET ObjectId, r \in BOOLEAN :
                ProposeValidate(w, p, m, ids, r)
          \/ releases[p] < MaxReleases /\ ReleaseCheck(w, p)
    \/ \E w \in Worker : \/ ProposeStore(w)
                         \/ ReleaseCommit(w)
                         \/ \E o \in ObjectId : ReleaseLook(w, o)
                         \/ MarkTest(w)
                         \/ MarkAssign(w)
                         \/ ReleaseReturn(w)
    \/ \E p \in ProposalId : ApproveAction(p) \/ RejectAction(p)

Spec == Init /\ [][Next]_vars

-----------------------------------------------------------------------------
(* Properties *)

(***************************************************************************)
(* Whatever is released has targets, each of which carries evidence ("No   *)
(* action without evidence references", ActionEngine), although the chain  *)
(* looked at them when the action was proposed and release_action does not *)
(* look again; a dry run is never released, and an approval-gated proposal *)
(* only after somebody approved it, in every interleaving of approvals,    *)
(* rejections and concurrent releases.                                     *)
(***************************************************************************)
ReleaseJustified ==
    \A p \in ProposalId : releases[p] > 0 =>
        /\ targets[p] # {} /\ targets[p] \subseteq evidenced \cap stored
        /\ \/ mode[p] = "auto_release"
           \/ mode[p] = "approval_gated" /\ p \in approved

\* w is past both tests on o and will set its state to ACTIONED
MayMark(w, o) == pc[w] = "tested" /\ target[w] = o

(***************************************************************************)
(* Once a release has marked an object ACTIONED, no thread gets past the   *)
(* two state tests on it any more.  A second ACTIONED entry in its trail   *)
(* can only come from a thread that was past them already, that is, from   *)
(* a release that overlapped the first: an object is not acted upon again  *)
(* by a later one, whatever the graph's operations did to it meanwhile.    *)
(***************************************************************************)
ActionedOnlyByOverlap ==
    [][\A w \in Worker, o \in ObjectId :
          actioned[o] > 0 /\ MayMark(w, o)' => MayMark(w, o)]_vars

(***************************************************************************)
(* The audit hook may be behind an object's state in three ways only: it   *)
(* never hears of a new version that supersede_object activates, nor of    *)
(* the FROZEN -> RECONCILED step of the reconciliation engine, nor of the  *)
(* ACTIONED that release_action assigns, which can also overwrite a state  *)
(* it was told of while the release was between its test and its           *)
(* assignment.                                                             *)
(***************************************************************************)
AuditGapIsKnown ==
    \A o \in stored :
        \/ reported[o] = state[o]
        \/ reported[o] = "absent" /\ state[o] = "active" /\ version[o] > 1
        \/ reported[o] = "frozen" /\ state[o] = "reconciled"
        \/ state[o] = "actioned" /\ actioned[o] > 0

=============================================================================
