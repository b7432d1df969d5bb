---------------------------- MODULE ReleaseGuard ----------------------------
(***************************************************************************)
(* One release request of the Release Guard product: evidence, submission  *)
(* through the release gate, approval steps, break-glass exceptions and    *)
(* cancellation.  Requests share nothing, so one of them is modelled.      *)
(*                                                                         *)
(* The services keep their objects in module-level dictionaries without a  *)
(* lock and the HTTP handlers are synchronous, so the framework runs them  *)
(* in several threads.  A handler that reads state and acts on it later is *)
(* split there; one Worker is one thread, and with a single worker the     *)
(* module describes requests handled one after the other.  A change of the *)
(* status and its entry in the audit trail are one step, so only runs with *)
(* a single worker ask about the trail.                                    *)
(***************************************************************************)
EXTENDS Integers, FiniteSets

CONSTANTS
    Worker,         \* request threads
    Profile,        \* policy profiles the workspace may use
    Risk,           \* risk levels the request may have
    NumApprovers,   \* workspace members with the role approver or admin
    Offered,        \* bound: evidence types the users attach and remove
    MaxSubmissions, \* bound: submissions that are explored
    MaxExceptions   \* bound: exceptions that are raised

ASSUME ProfileAssumption == Profile \subseteq {"startup_default", "regulated_default", "strict"}
ASSUME ApproversAssumption == NumApprovers \in Nat
ASSUME OfferedAssumption ==
    Offered \subseteq {"build_result", "jira_ticket", "security_scan", "rollback_plan"}
ASSUME BoundsAssumption == MaxSubmissions \in Nat /\ MaxExceptions \in Nat

ReleaseStatus == {"draft", "pending", "blocked", "approved", "cancelled"}

EvidenceType == {"build_result", "jira_ticket", "security_scan", "rollback_plan"}

RequiredEvidence(profile) ==
    CASE profile = "startup_default" -> {"build_result", "jira_ticket"}
      [] profile = "regulated_default" -> {"build_result", "jira_ticket", "security_scan"}
      [] profile = "strict" -> EvidenceType

ApprovalRisks(profile) ==
    CASE profile = "startup_default" -> {"high", "critical"}
      [] profile = "regulated_default" -> {"medium", "high", "critical"}
      [] profile = "strict" -> {"low", "medium", "high", "critical"}

ApproversRequired(profile) == IF profile = "strict" THEN 2 ELSE 1

StepId == 1..(2 * MaxSubmissions)
ExceptionId == 1..MaxExceptions

VARIABLES
    profile,     \* Workspace.policy_profile
    risk,        \* ReleaseRequest.risk_level
    named,       \* submitted_by is not empty: the gate refuses an unnamed requester
    status,      \* ReleaseRequest.status
    attached,    \* types of the evidence items
    step,        \* approval steps, in the order they were requested
    approver,    \* ApprovalStep.approver_email: which member the step asks, 0 for none
    exception,   \* exception requests, in the order they were raised
    pc,          \* where each worker is in its request
    used,        \* profile_name of the submission the worker handles
    left,        \* members the worker's submission has still to ask
    submissions, \* history: submissions that passed the status guard
    complete,    \* history: some submission found the evidence complete
    signed,      \* history: some approval step was approved
    excused,     \* history: some exception was approved
    offline,     \* history: some submission was decided without the gate
    waived,      \* history: some submission came through asking for no approver
    by,          \* history: what made the release APPROVED last
    needed,      \* history: how many members the last PENDING submission had to ask
    trail        \* the status the audit trail last recorded

requestVars == <<profile, risk, named>>
steps == <<step, approver>>
history == <<submissions, complete, signed, excused, offline, waived, by, needed>>
vars == <<requestVars, status, attached, steps, exception, pc, used, left, history,
          trail>>

Handling == {"idle", "submitting", "checking", "gating", "returned", "requesting",
             "deciding", "completing", "rejecting"}

TypeOK ==
    /\ profile \in Profile
    /\ risk \in Risk
    /\ named \in BOOLEAN
    /\ status \in ReleaseStatus
    /\ attached \subseteq EvidenceType
    /\ step \in [StepId -> {"none", "pending", "approved", "rejected"}]
    /\ exception \in [ExceptionId -> {"none", "pending_approval", "approved", "rejected"}]
    /\ approver \in [StepId -> 0..2]
    /\ pc \in [Worker -> Handling]
    /\ used \in [Worker -> Profile]
    /\ left \in [Worker -> SUBSET (1..2)]
    /\ submissions \in 0..MaxSubmissions
    /\ complete \in BOOLEAN /\ signed \in BOOLEAN /\ excused \in BOOLEAN
    /\ offline \in BOOLEAN /\ waived \in BOOLEAN
    /\ by \in {"none", "policy", "approvers", "exception"}
    /\ needed \in 0..2
    /\ trail \in ReleaseStatus

Init ==
    /\ profile \in Profile
    /\ risk \in Risk
    /\ named \in BOOLEAN
    /\ status = "draft"
    /\ attached = {}
    /\ step = [i \in StepId |-> "none"]
    /\ approver = [i \in StepId |-> 0]
    /\ exception = [x \in ExceptionId |-> "none"]
    /\ pc = [w \in Worker |-> "idle"]
    /\ used = [w \in Worker |-> profile]
    /\ left = [w \in Worker |-> {}]
    /\ submissions = 0
    /\ complete = FALSE /\ signed = FALSE /\ excused = FALSE /\ offline = FALSE
    /\ waived = FALSE /\ by = "none" /\ needed = 0
    /\ trail = "draft"

Goto(w, place) == pc' = [pc EXCEPT ![w] = place]

Steps == {i \in StepId : step[i] # "none"}

\* by the profile the submission was begun under
needs_approval(w) == risk \in ApprovalRisks(used[w])

\* len(approvers[:needed]), by the profile of the workspace at that moment
MembersAsked ==
    IF ApproversRequired(profile) < NumApprovers THEN ApproversRequired(profile) ELSE NumApprovers

-----------------------------------------------------------------------------
(* The workspace *)

SetPolicyProfile(w, p) ==
    /\ pc[w] = "idle"
    /\ profile' = p
    /\ UNCHANGED <<risk, named, status, attached, steps, exception, pc, used, left, history,
                   trail>>

-----------------------------------------------------------------------------
(* Evidence *)

AddEvidence(w, e) ==
    /\ pc[w] = "idle"
    /\ status \in {"draft", "blocked"}
    /\ attached' = attached \cup {e}
    /\ UNCHANGED <<requestVars, status, steps, exception, pc, used, left, history, trail>>

\* remove_evidence looks at no status
RemoveEvidence(w, e) ==
    /\ pc[w] = "idle"
    /\ attached' = attached \ {e}
    /\ UNCHANGED <<requestVars, status, steps, exception, pc, used, left, history, trail>>

-----------------------------------------------------------------------------
(* Submission *)

\* the route reads the workspace's profile and passes it to submit, whose
\* status guard lets the release in
SubmitGuard(w) ==
    /\ pc[w] = "idle"
    /\ status \in {"draft", "blocked"}
    /\ submissions' = submissions + 1
    /\ used' = [used EXCEPT ![w] = profile]
    /\ Goto(w, "submitting")
    /\ UNCHANGED <<requestVars, status, attached, steps, exception, left, complete,
                   signed, excused, offline, waived, by, needed, trail>>

SubmitPending(w) ==
    /\ pc[w] = "submitting"
    /\ status' = "pending"
    /\ Goto(w, "checking")
    /\ UNCHANGED <<requestVars, attached, steps, exception, used, left, history, trail>>

\* Mutant: one required item of evidence is enough
SubmitCheckAny(w) ==
    /\ pc[w] = "checking"
    /\ complete' = (complete \/ RequiredEvidence(used[w]) \subseteq attached)
    /\ IF RequiredEvidence(used[w]) \cap attached # {}
       THEN Goto(w, "gating") /\ UNCHANGED <<status, trail>>
       ELSE status' = "blocked" /\ trail' = "blocked" /\ Goto(w, "returned")
    /\ UNCHANGED <<requestVars, attached, steps, exception, used, left, submissions,
                   signed, excused, offline, waived, by, needed>>

\* check_evidence_completeness, and BLOCKED when something is missing
SubmitCheck(w) ==
    /\ pc[w] = "checking"
    /\ IF RequiredEvidence(used[w]) \subseteq attached
       THEN /\ complete' = TRUE
            /\ Goto(w, "gating")
            /\ UNCHANGED <<status, trail>>
       ELSE /\ status' = "blocked"
            /\ trail' = "blocked"
            /\ Goto(w, "returned")
            /\ UNCHANGED complete
    /\ UNCHANGED <<requestVars, attached, steps, exception, used, left, submissions,
                   signed, excused, offline, waived, by, needed>>

\* Mutant: the policy's approval rule is not asked
GatePassedUnasked(w) ==
    status' = "approved" /\ by' = "policy" /\ waived' = (waived \/ ~needs_approval(w))

\* the release came through: wait for approvers, or approve at once
GatePassed(w) ==
    IF needs_approval(w)
    THEN status' = "pending" /\ UNCHANGED <<by, waived>>
    ELSE status' = "approved" /\ by' = "policy" /\ waived' = TRUE

\* the gate compiled the release
GateCompiled(w) ==
    /\ named
    /\ GatePassed(w)
    /\ trail' = status'
    /\ UNCHANGED offline

\* Mutant: a refusal by the gate is not recorded
GateBlockedUnrecorded(w) ==
    ~named /\ status' = "blocked" /\ UNCHANGED <<trail, offline, by, waived>>

\* the gate refuses an unnamed requester
GateBlocked(w) ==
    /\ ~named
    /\ status' = "blocked"
    /\ trail' = "blocked"
    /\ UNCHANGED <<offline, by, waived>>

\* the gate raised: "offline validation", which writes nothing to the trail
GateUnavailable(w) ==
    /\ GatePassed(w)
    /\ offline' = TRUE
    /\ UNCHANGED trail

SubmitGate(w) ==
    /\ pc[w] = "gating"
    /\ GateCompiled(w) \/ GateBlocked(w) \/ GateUnavailable(w)
    /\ Goto(w, "returned")
    /\ UNCHANGED <<requestVars, attached, steps, exception, used, left, submissions,
                   complete, signed, excused, needed>>

\* the route asks the approvers if it finds the release PENDING
SubmitReturn(w) ==
    /\ pc[w] = "returned"
    /\ IF status = "pending" /\ MembersAsked > 0
       THEN /\ left' = [left EXCEPT ![w] = 1..MembersAsked]
            /\ needed' = MembersAsked
            /\ Goto(w, "requesting")
       ELSE Goto(w, "idle") /\ UNCHANGED <<left, needed>>
    /\ UNCHANGED <<requestVars, status, attached, steps, exception, used, submissions,
                   complete, signed, excused, offline, waived, by, trail>>

\* ApprovalService.request, one step per approver, in the order of the members
RequestStep(w) ==
    LET i == Cardinality(Steps) + 1
    IN  /\ pc[w] = "requesting"
        /\ \E m \in left[w] :
              /\ \A k \in left[w] : m <= k
              /\ step' = [step EXCEPT ![i] = "pending"]
              /\ approver' = [approver EXCEPT ![i] = m]
              /\ left' = [left EXCEPT ![w] = @ \ {m}]
              /\ Goto(w, IF left[w] = {m} THEN "idle" ELSE "requesting")
        /\ UNCHANGED <<requestVars, status, attached, exception, used, history, trail>>

-----------------------------------------------------------------------------
(* Approval steps: neither the step's nor the release's status is looked at *)

\* Mutant: completion is checked before the step is marked
ApproveStepChecksFirst(w, i) ==
    /\ pc[w] = "idle"
    /\ i \in Steps
    /\ Goto(w, IF \A j \in Steps : step[j] = "approved" THEN "completing" ELSE "idle")
    /\ step' = [step EXCEPT ![i] = "approved"]
    /\ signed' = TRUE
    /\ UNCHANGED <<requestVars, status, attached, approver, exception, used, left, submissions,
                   complete, excused, offline, waived, by, needed, trail>>

ApproveStep(w, i) ==
    /\ pc[w] = "idle"
    /\ i \in Steps
    /\ step' = [step EXCEPT ![i] = "approved"]
    /\ signed' = TRUE
    /\ Goto(w, "deciding")
    /\ UNCHANGED <<requestVars, status, attached, approver, exception, used, left, submissions,
                   complete, excused, offline, waived, by, needed, trail>>

\* Mutant: the first approval completes the release
CheckCompletionAny(w) ==
    /\ pc[w] = "deciding"
    /\ Goto(w, IF \E i \in Steps : step[i] = "approved" THEN "completing" ELSE "idle")
    /\ UNCHANGED <<requestVars, status, attached, steps, exception, used, left, history, trail>>

\* _check_release_completion
CheckCompletion(w) ==
    /\ pc[w] = "deciding"
    /\ Goto(w, IF \A i \in Steps : step[i] = "approved" THEN "completing" ELSE "idle")
    /\ UNCHANGED <<requestVars, status, attached, steps, exception, used, left, history, trail>>

MarkApproved(w) ==
    /\ pc[w] = "completing"
    /\ status' = "approved"
    /\ by' = "approvers"
    /\ trail' = "approved"
    /\ Goto(w, "idle")
    /\ UNCHANGED <<requestVars, attached, steps, exception, used, left, submissions,
                   complete, signed, excused, offline, waived, needed>>

\* Mutant: the rejection is noted, the release is not blocked
RejectStepOnly(w, i) ==
    /\ pc[w] = "idle"
    /\ i \in Steps
    /\ step' = [step EXCEPT ![i] = "rejected"]
    /\ UNCHANGED <<requestVars, status, attached, approver, exception, pc, used, left, history,
                   trail>>

RejectStep(w, i) ==
    /\ pc[w] = "idle"
    /\ i \in Steps
    /\ step' = [step EXCEPT ![i] = "rejected"]
    /\ Goto(w, "rejecting")
    /\ UNCHANGED <<requestVars, status, attached, approver, exception, used, left, history, trail>>

MarkBlocked(w) ==
    /\ pc[w] = "rejecting"
    /\ status' = "blocked"
    /\ trail' = "blocked"
    /\ Goto(w, "idle")
    /\ UNCHANGED <<requestVars, attached, steps, exception, used, left, history>>

-----------------------------------------------------------------------------
(* Exceptions and cancellation *)

RaiseException(w, x) ==
    /\ pc[w] = "idle"
    /\ status = "blocked"
    /\ exception[x] = "none"
    /\ exception' = [exception EXCEPT ![x] = "pending_approval"]
    /\ UNCHANGED <<requestVars, status, attached, steps, pc, used, left, history, trail>>

\* approve_exception looks neither at the exception's status nor at the release's
ApproveException(w, x) ==
    /\ pc[w] = "idle"
    /\ exception[x] # "none"
    /\ exception' = [exception EXCEPT ![x] = "approved"]
    /\ excused' = TRUE
    /\ status' = "approved"
    /\ by' = "exception"
    /\ trail' = "approved"
    /\ UNCHANGED <<requestVars, attached, steps, pc, used, left, submissions, complete,
                   signed, offline, waived, needed>>

RejectException(w, x) ==
    /\ pc[w] = "idle"
    /\ exception[x] # "none"
    /\ exception' = [exception EXCEPT ![x] = "rejected"]
    /\ UNCHANGED <<requestVars, status, attached, steps, pc, used, left, history, trail>>

Cancel(w) ==
    /\ pc[w] = "idle"
    /\ status' = "cancelled"
    /\ trail' = "cancelled"
    /\ UNCHANGED <<requestVars, attached, steps, exception, pc, used, left, history>>

-----------------------------------------------------------------------------
\* the rest of a request that has begun
Continue(w) ==
    \/ SubmitPending(w) \/ SubmitCheck(w) \/ SubmitGate(w) \/ SubmitReturn(w) \/ RequestStep(w)
    \/ CheckCompletion(w) \/ MarkApproved(w) \/ MarkBlocked(w)

Next ==
    \E w \in Worker :
        \/ \E p \in Profile : SetPolicyProfile(w, p)
        \/ \E e \in Offered : AddEvidence(w, e) \/ RemoveEvidence(w, e)
        \/ submissions < MaxSubmissions /\ SubmitGuard(w)
        \/ \E i \in StepId : ApproveStep(w, i) \/ RejectStep(w, i)
        \/ \E x \in ExceptionId : \/ RaiseException(w, x)
                                  \/ ApproveException(w, x)
                                  \/ RejectException(w, x)
        \/ Cancel(w)
        \/ Continue(w)

Spec == Init /\ [][Next]_vars

-----------------------------------------------------------------------------
(* Properties *)

Quiet == \A w \in Worker : pc[w] = "idle"

(***************************************************************************)
(* Nobody's consent is assumed: a release is APPROVED only after a person  *)
(* said yes, the approver of a step or of an exception, unless a           *)
(* submission came through under a profile that asks for no approval at    *)
(* its risk.  The profile is read when the submission begins and may       *)
(* change before the gate decides; no race between such changes,           *)
(* submissions, decisions and cancellations approves a release silently.   *)
(***************************************************************************)
ApprovedByAPerson == status = "approved" /\ ~waived => signed \/ excused

(***************************************************************************)
(* No approval is lost: when no request is in progress, a release whose    *)
(* steps are all approved is not left PENDING, whichever approvals,        *)
(* rejections and resubmissions ran at the same time.                      *)
(***************************************************************************)
NoLostApproval ==
    Quiet /\ status = "pending" /\ NumApprovers > 0 =>
        \E i \in Steps : step[i] # "approved"

(***************************************************************************)
(* "APPROVED: passed all checks" (ReleaseStatus): without an exception, a  *)
(* release is approved only if some submission found its evidence          *)
(* complete.  Holds when requests run one after the other.                 *)
(***************************************************************************)
ApprovedHadEvidence == status = "approved" /\ ~excused => complete

(***************************************************************************)
(* "Approval: 2 approvers for any production release" (profile strict):    *)
(* when the approvers made a release APPROVED, a step addressed to each    *)
(* member that its last PENDING submission had to ask is approved, whether *)
(* the profile changed before, after or between its submissions: a later   *)
(* submission asks its own members, and earlier steps still count.  Who    *)
(* decides a step is not compared with the member it asks.  Holds when     *)
(* requests run one after the other.                                       *)
(***************************************************************************)
ApprovalQuorum ==
    Quiet /\ status = "approved" /\ by = "approvers" =>
        \A m \in 1..needed : \E i \in Steps : approver[i] = m /\ step[i] = "approved"

(***************************************************************************)
(* "Block the release" (ApprovalService.reject): when no request is in     *)
(* progress, a release that its approvers made APPROVED has no rejected    *)
(* step.  A release resubmitted under a profile that asks for no approval  *)
(* is approved by the policy in spite of an earlier rejection.  Holds when *)
(* requests run one after the other.                                       *)
(***************************************************************************)
RejectionBlocks ==
    Quiet /\ status = "approved" /\ by = "approvers" =>
        \A i \in Steps : step[i] # "rejected"

(***************************************************************************)
(* The audit trail keeps up: between requests handled one after the other, *)
(* the trail's last entry names the release's status through any sequence  *)
(* of submissions, decisions, exceptions and cancellations.  Only a        *)
(* submission decided while the gate could not be reached leaves a gap.    *)
(***************************************************************************)
TrailGapIsKnown == Quiet /\ trail # status => offline
=============================================================================
