----------------------------- MODULE PilotCase ------------------------------
(***************************************************************************)
(* Pilot cases: PilotCaseService and its state machine, the approval,      *)
(* review and export services beside it, the review workflow, and what the *)
(* reporting service computes from all of them.                            *)
(*                                                                         *)
(* The services do not know each other, except that ApprovalService is     *)
(* given the case service: a review, an export or a verdict of the review  *)
(* workflow is stored under a case id and looks at no state.               *)
(* The handlers await nothing, so each is one step; requests come in any   *)
(* order.                                                                  *)
(***************************************************************************)
EXTENDS Naturals, FiniteSets, Sequences

CONSTANTS
    Case,          \* case ids
    MaxTimeline,   \* bound: timeline entries of a case
    MaxDecisions   \* bound: review decisions of a case

NoCase == "no_case"
Nothing == "none"

CaseState == {"created", "evidence_ready", "workflow_executed", "validation_completed",
              "under_review", "approved", "overridden", "escalated", "exported", "closed"}

ReviewOutcome == {"accept", "reject", "warn", "escalate", "request_more_evidence"}

VALID_TRANSITIONS ==
    [s \in CaseState |->
        CASE s = "created"              -> {"evidence_ready", "closed"}
          [] s = "evidence_ready"       -> {"workflow_executed", "closed"}
          [] s = "workflow_executed"    -> {"validation_completed", "closed"}
          [] s = "validation_completed" -> {"under_review", "approved", "closed"}
          [] s = "under_review"         -> {"approved", "overridden", "escalated", "closed"}
          [] s = "approved"             -> {"exported", "closed"}
          [] s = "overridden"           -> {"exported", "under_review", "closed"}
          [] s = "escalated"            -> {"under_review", "approved", "overridden", "closed"}
          [] s = "exported"             -> {"closed"}
          [] s = "closed"               -> {}]

\* the states ApprovalService moves a case to, with the record it then keeps
Decided == {"approved", "overridden", "escalated"}

VARIABLES
    state,       \* case["state"], NoCase before create_case
    timeline,    \* _transitions: the states reached and the reviewers assigned
    records,     \* the number of _approvals, _overrides and _escalations
    direct,      \* history: decisions made through the transition route
    decisions,   \* ReviewService._decisions; a review exists once it is a sequence
    verdict,     \* what the review workflow persisted last: outcome and final_state
    exports      \* ExportService._exports: the state in the last one

caseVars == <<state, timeline>>
vars == <<caseVars, records, direct, decisions, verdict, exports>>

NoReview == <<"no_review">>
NoVerdict == [outcome |-> Nothing, final_state |-> Nothing]

Init ==
    /\ state = [c \in Case |-> NoCase]
    /\ timeline = [c \in Case |-> <<>>]
    /\ records = [c \in Case |-> [d \in Decided |-> 0]]
    /\ direct = [c \in Case |-> [d \in Decided |-> 0]]
    /\ decisions = [c \in Case |-> NoReview]
    /\ verdict = [c \in Case |-> NoVerdict]
    /\ exports = [c \in Case |-> Nothing]

-----------------------------------------------------------------------------
(* PilotCaseService *)

AppendEntry(c, entry) ==
    /\ Len(timeline[c]) < MaxTimeline
    /\ timeline' = [timeline EXCEPT ![c] = Append(@, entry)]

CreateCase(c) ==
    /\ state[c] = NoCase
    /\ state' = [state EXCEPT ![c] = "created"]
    /\ AppendEntry(c, "created")
    /\ UNCHANGED <<records, direct, decisions, verdict, exports>>

AssignReviewer(c) ==
    /\ state[c] # NoCase
    /\ AppendEntry(c, "reviewer_assigned")
    /\ UNCHANGED <<state, records, direct, decisions, verdict, exports>>

\* Mutant: a target two transitions away is accepted
TransitionAnyOpen(c, target) ==
    /\ state[c] \notin {NoCase, "closed"}
    /\ target \in UNION {VALID_TRANSITIONS[s] : s \in {state[c]} \cup VALID_TRANSITIONS[state[c]]}
    /\ state' = [state EXCEPT ![c] = target]
    /\ AppendEntry(c, target)

\* transition_state, called by the transition route and by ApprovalService
Transition(c, target) ==
    /\ state[c] # NoCase
    /\ target \in VALID_TRANSITIONS[state[c]]
    /\ state' = [state EXCEPT ![c] = target]
    /\ AppendEntry(c, target)

\* the transition route: any target, no record
TransitionRoute(c, target) ==
    /\ Transition(c, target)
    /\ direct' = IF target \in Decided
                 THEN [direct EXCEPT ![c][target] = @ + 1] ELSE direct
    /\ UNCHANGED <<records, decisions, verdict, exports>>

-----------------------------------------------------------------------------
(* ApprovalService: approve, override and escalate *)

\* Mutant: the record is kept before the transition is tried
DecideRecordsFirst(c, decision) ==
    /\ state[c] # NoCase
    /\ Len(timeline[c]) < MaxTimeline
    /\ records' = [records EXCEPT ![c][decision] = @ + 1]
    /\ IF decision \in VALID_TRANSITIONS[state[c]]
       THEN Transition(c, decision) ELSE UNCHANGED caseVars
    /\ UNCHANGED <<direct, decisions, verdict, exports>>

Decide(c, decision) ==
    /\ Transition(c, decision)
    /\ records' = [records EXCEPT ![c][decision] = @ + 1]
    /\ UNCHANGED <<direct, decisions, verdict, exports>>

-----------------------------------------------------------------------------
(* ReviewService and the review workflow *)

\* a second review replaces the summary and keeps the decisions taken
CreateReview(c) ==
    /\ decisions' = [decisions EXCEPT ![c] = IF @ = NoReview THEN <<>> ELSE @]
    /\ UNCHANGED <<caseVars, records, direct, verdict, exports>>

AddDecision(c, outcome) ==
    /\ decisions[c] # NoReview
    /\ Len(decisions[c]) < MaxDecisions
    /\ decisions' = [decisions EXCEPT ![c] = Append(@, outcome)]
    /\ UNCHANGED <<caseVars, records, direct, verdict, exports>>

FinalState(outcome, override_reason) ==
    CASE outcome \in {"accept", "warn"}        -> "approved"
      [] outcome = "reject"                    -> IF override_reason THEN "overridden" ELSE "closed"
      [] outcome = "escalate"                  -> "escalated"
      [] outcome = "request_more_evidence"     -> "evidence_ready"
      [] OTHER                                 -> "under_review"

\* the workflow persists its result in its own timeline; no service is told
RunReview(c, outcome, override_reason) ==
    /\ verdict' = [verdict EXCEPT ![c] =
                       [outcome |-> outcome, final_state |-> FinalState(outcome, override_reason)]]
    /\ UNCHANGED <<caseVars, records, direct, decisions, exports>>

\* export_case is given a copy of the case; the case does not become "exported"
ExportCase(c) ==
    /\ state[c] # NoCase
    /\ exports' = [exports EXCEPT ![c] = state[c]]
    /\ UNCHANGED <<caseVars, records, direct, decisions, verdict>>

Next ==
    \E c \in Case :
        \/ CreateCase(c)
        \/ AssignReviewer(c)
        \/ \E target \in CaseState : TransitionRoute(c, target)
        \/ \E decision \in Decided : Decide(c, decision)
        \/ CreateReview(c)
        \/ \E outcome \in ReviewOutcome : AddDecision(c, outcome)
        \/ \E outcome \in ReviewOutcome, o \in BOOLEAN : RunReview(c, outcome, o)
        \/ ExportCase(c)

Spec == Init /\ [][Next]_vars

-----------------------------------------------------------------------------
(* What the reports say of a case *)

\* Mutant: an approval, once recorded, hides what was recorded besides
ApprovalTypeApprovalFirst(c) ==
    IF records[c]["approved"] > 0 THEN "approved"
    ELSE IF records[c]["overridden"] > 0 THEN "overridden"
    ELSE IF records[c]["escalated"] > 0 THEN "escalated" ELSE Nothing

\* PilotCaseReport.approval_type: later assignments overwrite earlier ones
ApprovalType(c) ==
    IF records[c]["escalated"] > 0 THEN "escalated"
    ELSE IF records[c]["overridden"] > 0 THEN "overridden"
    ELSE IF records[c]["approved"] > 0 THEN "approved" ELSE Nothing

-----------------------------------------------------------------------------
(* Properties *)

TypeOK ==
    /\ state \in [Case -> CaseState \cup {NoCase}]
    /\ \A c \in Case : /\ timeline[c] \in Seq(CaseState \cup {"reviewer_assigned"})
                       /\ Len(timeline[c]) <= MaxTimeline
                       /\ decisions[c] = NoReview \/ decisions[c] \in Seq(ReviewOutcome)
                       /\ exports[c] \in CaseState \cup {Nothing}
    /\ {records, direct} \subseteq [Case -> [Decided -> 0..MaxTimeline]]

\* the case was created and went through the stages up to its validation in order:
\* up to then the timeline has nothing else but assignments
ThroughValidation(c) ==
    \E i, j, k \in DOMAIN timeline[c] :
        /\ 1 < i /\ i < j /\ j < k
        /\ timeline[c][1] = "created"
        /\ timeline[c][i] = "evidence_ready"
        /\ timeline[c][j] = "workflow_executed"
        /\ timeline[c][k] = "validation_completed"
        /\ \A m \in 2..k \ {i, j, k} : timeline[c][m] = "reviewer_assigned"

Times(c, s) == Cardinality({i \in DOMAIN timeline[c] : timeline[c][i] = s})

\* Whatever order the routes are called in, a case that is decided, or exported, has
\* had its evidence, its workflow and its validation, in that order, and an exported
\* one was approved or overridden before: transition_state follows VALID_TRANSITIONS
\* and no sequence of them goes round a stage.
DecidedAfterValidation ==
    \A c \in Case :
        /\ state[c] \in Decided \cup {"exported"} => ThroughValidation(c)
        /\ state[c] = "exported" => Times(c, "approved") + Times(c, "overridden") > 0

\* ApprovalService moves the case and keeps its record in one go: every decision in the
\* timeline has its approval, override or escalation record, or was made through the
\* transition route, which keeps none; a refused decision leaves nothing behind.
DecisionsAccounted ==
    \A c \in Case, d \in Decided : Times(c, d) = records[c][d] + direct[c][d]

Severity(d) == CASE d = "escalated" -> 3 [] d = "overridden" -> 2 [] d = "approved" -> 1 [] OTHER -> 0

\* The approval type in the case report is the gravest decision ever taken through
\* ApprovalService, so a case approved after an escalation is reported as escalated:
\* none graver is in the timeline unless the transition route made it.
ReportShowsGravest ==
    \A c \in Case :
        /\ ApprovalType(c) # Nothing => Times(c, ApprovalType(c)) > 0
        /\ \A d \in Decided : /\ Times(c, d) > 0
                               /\ Severity(d) > Severity(ApprovalType(c))
                               => direct[c][d] = Times(c, d)
=============================================================================
