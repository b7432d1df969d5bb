---------------------------- MODULE ReleaseGate -----------------------------
(***************************************************************************)
(* The platform-wide release gate and its validation chain: every request  *)
(* is checked, a request that passes is compiled into a stored package and *)
(* dispatched by the caller's executor, if there is one, and the outcome   *)
(* is logged and metered.                                                  *)
(*                                                                         *)
(* The executor is foreign code that submit calls between storing the      *)
(* package and logging the dispatch: it may take long, raise, or submit    *)
(* requests itself, so Execute and ExecutorReturns are separate actions.   *)
(* The other statements of submit are one step.                            *)
(***************************************************************************)
EXTENDS Integers, FiniteSets, Sequences

CONSTANTS
    ActionType,      \* action types of requests; "" is a missing one
    BlockedAction,   \* policy blocked_action_types
    RequiredOrigins, \* policy required_origins_for, a function on some action types
    Submission,      \* the requests that callers other than the platform's components submit
    MaxSubmitted     \* bound: requests that are submitted

Origin == {"human_operator", "automated_workflow", "ai_inference", "api_request",
           "scheduled_task", "domain_pack"}

\* requested_by, payload and evidence: whether the field is not empty
Request == [action_type : ActionType, origin : Origin,
            requested_by : BOOLEAN, payload : BOOLEAN, evidence : BOOLEAN]

ASSUME SubmissionAssumption == Submission \subseteq Request

VARIABLES
    packages,  \* the requests whose packages are stored, in the order they were
    running,   \* packages whose executor has not returned
    log,       \* the audit log of dispatch results
    verdicts,  \* how many requests the chain certified and rejected
    metered    \* events recorded by the metering engine

gateVars == <<packages, running, log, verdicts, metered>>

\* package 0 is "none", the package of a blocked request
LogEntry == [package : 0..MaxSubmitted,
             status : {"blocked", "compiled", "dispatched", "failed"}]

GateTypeOK ==
    /\ packages \in Seq(Request) /\ Len(packages) <= MaxSubmitted
    /\ running \subseteq DOMAIN packages
    /\ log \in Seq(LogEntry) /\ Len(log) <= MaxSubmitted
    /\ verdicts \in [{"certified", "rejected"} -> 0..MaxSubmitted]
    /\ metered \in [{"gate_submission", "gate_block", "gate_release"} -> 0..MaxSubmitted]

GateInit ==
    /\ packages = <<>>
    /\ running = {}
    /\ log = <<>>
    /\ verdicts = [v \in {"certified", "rejected"} |-> 0]
    /\ metered = [e \in {"gate_submission", "gate_block", "gate_release"} |-> 0]

-----------------------------------------------------------------------------
(* The validation chain.  The provenance and schema checks pass for every  *)
(* request that submit builds: it hashes the request and takes a dict.     *)

CompletenessCheck(r) == r.action_type # "" /\ r.requested_by /\ r.payload

EvidenceCheck(r) == r.origin = "ai_inference" => r.evidence

PolicyCheck(r) ==
    /\ r.action_type \notin BlockedAction
    /\ r.action_type \in DOMAIN RequiredOrigins => r.origin \in RequiredOrigins[r.action_type]

\* validate returns a certificate
Certified(r) == CompletenessCheck(r) /\ EvidenceCheck(r) /\ PolicyCheck(r)

-----------------------------------------------------------------------------
(* submit *)

Record(verdict) == verdicts' = [verdicts EXCEPT ![verdict] = @ + 1]

\* the test for "blocked" before gate_block is never true: blocked requests
\* have returned
Metered == metered' = [metered EXCEPT !["gate_submission"] = @ + 1, !["gate_release"] = @ + 1]

\* the early return of a rejected request
SubmitBlocked(r) ==
    /\ ~Certified(r)
    /\ Record("rejected")
    /\ log' = Append(log, [package |-> 0, status |-> "blocked"])
    /\ UNCHANGED <<packages, running, metered>>

\* without an executor the package is compiled and that is all
SubmitCompiled(r) ==
    /\ Certified(r)
    /\ Record("certified")
    /\ packages' = Append(packages, r)
    /\ log' = Append(log, [package |-> Len(packages'), status |-> "compiled"])
    /\ Metered
    /\ UNCHANGED running

\* submit without an executor, as the platform's own components call it
GateSubmit(r) == SubmitBlocked(r) \/ SubmitCompiled(r)

\* with an executor: the package is stored and the executor called
Execute(r) ==
    /\ Certified(r)
    /\ Record("certified")
    /\ packages' = Append(packages, r)
    /\ running' = running \cup {Len(packages')}
    /\ UNCHANGED <<log, metered>>

\* Mutant: the dispatch is logged under the package stored last
ExecutorReturnsNewest(p, outcome) ==
    /\ p \in running
    /\ running' = running \ {p}
    /\ log' = Append(log, [package |-> Len(packages), status |-> outcome])
    /\ Metered
    /\ UNCHANGED <<packages, verdicts>>

\* Mutant: a failed dispatch returns before the metering code
ExecutorReturnsFailedUnmetered(p, outcome) ==
    /\ p \in running
    /\ running' = running \ {p}
    /\ log' = Append(log, [package |-> p, status |-> outcome])
    /\ IF outcome = "failed" THEN UNCHANGED metered ELSE Metered
    /\ UNCHANGED <<packages, verdicts>>

\* the executor of p returns ("dispatched") or raises ("failed")
ExecutorReturns(p, outcome) ==
    /\ p \in running
    /\ running' = running \ {p}
    /\ log' = Append(log, [package |-> p, status |-> outcome])
    /\ Metered
    /\ UNCHANGED <<packages, verdicts>>

\* total_submitted
Submitted == Len(log)

BelowBound == Submitted + Cardinality(running) < MaxSubmitted

GateNext ==
    \/ BelowBound /\ \E r \in Submission : GateSubmit(r) \/ Execute(r)
    \/ \E p \in DOMAIN packages, outcome \in {"dispatched", "failed"} : ExecutorReturns(p, outcome)

-----------------------------------------------------------------------------
(* Properties *)

Logged(p) == {i \in DOMAIN log : log[i].package = p}

(***************************************************************************)
(* "Every dispatch is recorded in the immutable audit log": a stored       *)
(* package has exactly one log entry, its own, once its executor is done,  *)
(* and none before, however executors overlap, nest and fail; and the      *)
(* chain's tally agrees with the packages and the log.                     *)
(***************************************************************************)
DispatchesLogged ==
    /\ \A p \in DOMAIN packages :
          Cardinality(Logged(p)) = IF p \in running THEN 0 ELSE 1
    /\ verdicts["certified"] = Len(packages)
    /\ verdicts["rejected"] = Cardinality(Logged(0))

(***************************************************************************)
(* The bill and the reports add up: every request whose package is stored  *)
(* is metered as a release exactly once, when its dispatch is over,        *)
(* however executors overlap, nest and fail, and every billable            *)
(* gate_submission event is a release's or a block's.  That no block is    *)
(* metered so far is neither asked nor excluded.                           *)
(***************************************************************************)
BilledOncePerRelease ==
    /\ metered["gate_release"] = Len(packages) - Cardinality(running)
    /\ metered["gate_submission"] = metered["gate_release"] + metered["gate_block"]
=============================================================================
