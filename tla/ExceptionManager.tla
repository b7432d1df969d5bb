-------------------------- MODULE ExceptionManager --------------------------
(***************************************************************************)
(* The exception framework: formal requests to override a decision, which  *)
(* pass the release gate, are approved or rejected by a person, have a     *)
(* review task per approval and end at their expiry.  The clock is the     *)
(* system's, and a request may have any expiry, one that has passed        *)
(* included.  The routes give each request a fresh id, but                 *)
(* submit_exception takes any: a request under an id in use replaces the   *)
(* one there is and inherits its decisions.                                *)
(***************************************************************************)
EXTENDS ReleaseGate

CONSTANTS
    ExceptionId,   \* ids of exception requests
    MaxTime,       \* bound: the clock stops here, and no expiry is later
    MaxDecisions   \* bound: decisions and revocations per exception

ASSUME TimeAssumption == MaxTime \in Nat

NoRequest == -1

VARIABLES
    now,           \* datetime.now(UTC)
    expires_at,    \* expires_at of the requests in ExceptionManager._requests
    decisions,     \* ExceptionManager._decisions
    review_tasks,  \* ExceptionManager._review_tasks, all of them open
    ledger         \* how many entries of each type the audit ledger has

exceptionVars == <<expires_at, decisions, review_tasks, ledger>>
vars == <<now, exceptionVars, gateVars>>

\* task 0 is "none-rejected"; expiry is history: that of the request decided on
Decision == [decision : {"approved", "rejected"}, task : 0..Len(review_tasks),
             expiry : 0..MaxTime]

LedgerEvent == {"submitted", "approved", "rejected", "revoked"}

TypeOK ==
    /\ GateTypeOK
    /\ now \in 0..MaxTime
    /\ expires_at \in [ExceptionId -> 0..MaxTime \cup {NoRequest}]
    /\ \A x \in ExceptionId : decisions[x] \in Seq(Decision)
    /\ \A i \in DOMAIN review_tasks : review_tasks[i] \in [exception : ExceptionId, due_by : 0..MaxTime]
    /\ \A x \in ExceptionId, e \in LedgerEvent : ledger[x][e] \in Nat

Init ==
    /\ GateInit
    /\ now = 0
    /\ expires_at = [x \in ExceptionId |-> NoRequest]
    /\ decisions = [x \in ExceptionId |-> <<>>]
    /\ review_tasks = <<>>
    /\ ledger = [x \in ExceptionId |-> [e \in LedgerEvent |-> 0]]

Requested == {x \in ExceptionId : expires_at[x] # NoRequest}

Audit(x, event) == ledger' = [ledger EXCEPT ![x][event] = @ + 1]

-----------------------------------------------------------------------------
ExceptionSubmission(by) ==
    [action_type |-> "exception_request", origin |-> "human_operator",
     requested_by |-> by, payload |-> TRUE, evidence |-> TRUE]

\* a request that the gate blocks raises and is not kept
SubmitException(x, expiry, by) ==
    /\ GateSubmit(ExceptionSubmission(by))
    /\ IF Certified(ExceptionSubmission(by))
       THEN expires_at' = [expires_at EXCEPT ![x] = expiry] /\ Audit(x, "submitted")
       ELSE UNCHANGED <<expires_at, ledger>>
    /\ UNCHANGED <<now, decisions, review_tasks>>

-----------------------------------------------------------------------------
(* Decisions.  Neither the earlier decisions nor a revocation is looked at. *)

\* _validate_not_expired: the instant of expiry is not yet too late
NotExpired(x) == expires_at[x] >= now

NewTask(x) ==
    review_tasks' = Append(review_tasks, [exception |-> x, due_by |-> expires_at[x]])

Decide(x, decision, task) ==
    decisions' = [decisions EXCEPT ![x] =
        Append(@, [decision |-> decision, task |-> task, expiry |-> expires_at[x]])]

\* Mutant: a task that exists is used again, whichever exception it is for
ApproveExceptionOneTask(x) ==
    /\ x \in Requested
    /\ NotExpired(x)
    /\ IF review_tasks = <<>> THEN NewTask(x) ELSE UNCHANGED review_tasks
    /\ Decide(x, "approved", 1)
    /\ Audit(x, "approved")
    /\ UNCHANGED <<now, expires_at, gateVars>>

ApproveException(x) ==
    /\ x \in Requested
    /\ NotExpired(x)
    /\ NewTask(x)
    /\ Decide(x, "approved", Len(review_tasks'))
    /\ Audit(x, "approved")
    /\ UNCHANGED <<now, expires_at, gateVars>>

\* the rationale is too short: the decision raises after the task was opened
ApproveExceptionRefused(x) ==
    /\ x \in Requested
    /\ NotExpired(x)
    /\ NewTask(x)
    /\ UNCHANGED <<now, expires_at, decisions, ledger, gateVars>>

\* an exception may be rejected at any time, after its approval or its expiry too
RejectException(x) ==
    /\ x \in Requested
    /\ Decide(x, "rejected", 0)
    /\ Audit(x, "rejected")
    /\ UNCHANGED <<now, expires_at, review_tasks, gateVars>>

\* revoke_exception writes to the ledger and does nothing else
RevokeException(x) ==
    /\ x \in Requested
    /\ Audit(x, "revoked")
    /\ UNCHANGED <<now, expires_at, decisions, review_tasks, gateVars>>

-----------------------------------------------------------------------------
Approved(x) == \E i \in DOMAIN decisions[x] : decisions[x][i].decision = "approved"

\* Mutant: an exception that was decided is in force, whatever the decision
ActiveOnceDecided == {x \in Requested : expires_at[x] > now /\ decisions[x] # <<>>}

\* get_active_exceptions
Active == {x \in Requested : expires_at[x] > now /\ Approved(x)}

\* get_expired_unreviewed
PastDue == {i \in DOMAIN review_tasks : review_tasks[i].due_by < now}

Tick == now < MaxTime /\ now' = now + 1 /\ UNCHANGED <<exceptionVars, gateVars>>

Decided(x) == Len(decisions[x]) + ledger[x]["revoked"]

Next ==
    \/ \E x \in ExceptionId, expiry \in 0..MaxTime, by \in BOOLEAN :
          Submitted < MaxSubmitted /\ SubmitException(x, expiry, by)
    \/ \E x \in ExceptionId :
          /\ Decided(x) < MaxDecisions
          /\ \/ ApproveException(x)
             \/ Len(review_tasks) < MaxDecisions /\ ApproveExceptionRefused(x)
             \/ RejectException(x)
             \/ RevokeException(x)
    \/ Tick

Spec == Init /\ [][Next]_vars

-----------------------------------------------------------------------------
(* Properties *)

(***************************************************************************)
(* "Every approval creates an automatic review task": each approval has a  *)
(* task that no other approval has, for its exception and due at the       *)
(* expiry that was approved, even when approvals are repeated or fail      *)
(* half-way and the request is replaced; after that expiry                 *)
(* get_expired_unreviewed lists it.                                        *)
(***************************************************************************)
ApprovalsReviewed ==
    \A x, y \in ExceptionId : \A i \in DOMAIN decisions[x], j \in DOMAIN decisions[y] :
        LET d == decisions[x][i]
        IN  d.decision = "approved" =>
               /\ d.task \in DOMAIN review_tasks
               /\ review_tasks[d.task] = [exception |-> x, due_by |-> d.expiry]
               /\ decisions[y][j].task = d.task => x = y /\ i = j
               /\ d.expiry < now => d.task \in PastDue

(***************************************************************************)
(* "Every exception has an expiry -- none are permanent": an exception     *)
(* that get_active_exceptions lists has a review ahead, due when it ends,  *)
(* after rejections, revocations and approvals that failed half-way too.   *)
(* One way leads around it: another request under an id in use is in force *)
(* by the approval of the request it replaced, until whatever expiry it    *)
(* names.                                                                  *)
(***************************************************************************)
InForceIsReviewed ==
    \A x \in Active :
        ledger[x]["submitted"] = 1 =>
            \E t \in DOMAIN review_tasks \ PastDue :
                review_tasks[t] = [exception |-> x, due_by |-> expires_at[x]]

=============================================================================
