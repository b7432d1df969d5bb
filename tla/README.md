# Control Fabric: a TLA+ model of the control plane

The repository is a governance platform. It keeps *control objects* (contracts,
tickets, billing lines, policies) with a lifecycle and a version history,
reconciles them across planes, and lets actions, releases and exceptions happen
only through gates that ask for evidence, policy and approval. Domain packs
decide about field work, incidents and margins, and workflows carry those
decisions to the database. This directory models the parts that decide what may
happen, checks them with TLC on small instances, and proves every property the
passing runs check, for every instance, with TLAPS.

Everything below is translated from the code. Where a document and the code
disagree, the model follows the code and the document's claim is checked
against it. Paths in this file are relative to `src/app/` unless they start
with another directory of the repository.

## 1. Inventory

| Component | State | Operations | What makes it hard |
|---|---|---|---|
| Control graph (`core/graph/service.py`, `core/control_object.py`) | objects with state, version, pointers; links; audit events | create, enrich, freeze, supersede, deprecate, transition, link | operations that fail half-way; objects shared by reference; other components change objects behind the service's back |
| Reconciliation, first engine (`core/reconciliation/engine.py`) | marks on objects | reconcile a pair of planes | changes states without the audit hook |
| Action engine, validation chain (`core/action`, `core/validation`) | proposals | propose, approve, reject, release | a validation made at one time and used at another; concurrent releases |
| Release Guard (`products/release_guard`) | release requests, evidence, approval steps, exceptions, audit trail | attach, submit, approve, reject, raise, cancel | synchronous handlers in a thread pool over module dictionaries without a lock |
| Platform release gate (`core/platform_action_release_gate.py`, `core/platform_validation_chain.py`) | packages, audit log, counters | submit, with or without an executor | foreign executors that run in the middle of a submission; early returns |
| Metering (`core/metering/meter.py`) | counters per tenant | record | called by the gate on some of its paths only |
| Object registry (`core/registry/object_registry.py`) | objects, version records, events, indices | register, update, transition | clients with stale objects; a gate asked before the lifecycle is |
| Exception framework (`core/exception_framework/manager.py`) | requests, decisions, review tasks, ledger | submit, approve, reject, revoke, query | expiry against the clock; repeated and half-failed decisions |
| Graph store and ingestion (`core/graph/store.py`, `core/ingress/pipeline.py`) | a second copy of the objects, edges with a validity window | ingest, update, add and deactivate edges | gate, registry and store are written one after the other and nothing is undone; the copies drift apart |
| Cross-plane reconciliation (`core/reconciliation/cross_plane_engine.py`) | cases | run, resolve | three searches with different ideas of which edges count; a resolution that repairs nothing |
| Wave-2 reconciliation (`core/reconciliation/orchestrator.py`, `matching.py`, `rule_model.py`, `coverage.py`) | runs, outcomes, cases | execute | nine scored rules, hard failures, rankings and classifications made separately from the same candidates |
| Pilot cases, review, approval (`services/pilot_cases`, `state_machine`, `approval`, `review`, `export`, `workflows/review_and_approval`) | case state, timeline, approval, override, escalation and review records | create, transition, assign, decide, export, report | services that do not know each other; a route that goes past the approval service |
| Domain packs (`domain_packs/...`) | none | readiness, escalation, dispatch, closure, SLA, billability, leakage, cross-pack linking | rules that overwrite each other; several engines with their own tables for the same question |
| Domain workflows (`workflows/orchestrator.py`, `db/session.py`) | a case with its rows in a session, the database | seven workflows | a failure at any step; answer, commit and rollback after the handler |
| Wave-3 action policy, policy administration, pack management | versions, installations | evaluate; publish, roll back; install, suspend | planned (section 6) |
| Connectors, billing, inference, reporting, parsers, user interfaces | none of the platform's own | compute, call, show | no protocol between steps (section 7) |

How they interact. The action engine and the first reconciliation engine change
objects of the control graph. Registry, ingestion pipeline, graph store,
case engine, exception framework and Release Guard call `submit` of the release
gate, and the gate calls the metering engine. The pipeline writes the registry
and then the graph store; callers carry later versions over; the cross-plane
engine reads the store only. A workflow calls the compiler, a rule engine of a
pack, the model gateway and the validation service, and writes through one
session that FastAPI's dependency commits or rolls back. There are no messages:
components call each other in process, and the concurrency is that of the
request threads and of callers that hold what they read.

What each must get right: histories are linear and never rewritten; what is
released has its evidence, its approval and its record; a decision made by a
person is neither lost nor invented; what is logged, billed and reported agrees
with what happened; an object is neither lost nor counted twice between stages
that look at it separately; an easier job never gets a harder answer.

`PROJECT.json` lists every component with its status, and the hazards of the
code at the lines where they bite.

## 2. Modules

| Module | Models | Extends |
|---|---|---|
| `ControlTypes` | the states and the transition table of control objects (`types.py`) | |
| `ControlGraph` | `GraphService`, `ControlObject`, link policy, audit hook, the evidence step of the enrichment workflow, the effect of reconciliation | `ControlTypes` |
| `VersionForest` | the abstract specification: an append-only forest of versions | |
| `ActionEngine` | proposals and releases by several threads, over the graph | `ControlGraph` |
| `ReleaseGuard` | one release request handled by several threads | |
| `ReleaseGate` | the release gate, its validation chain and what it meters | |
| `ObjectRegistry` | the registry, its clients, and its use of the gate | `ReleaseGate` |
| `ExceptionManager` | the exception framework, its clock, and its use of the gate | `ReleaseGate` |
| `CrossPlane` | pipeline, graph store and cross-plane engine, composed with registry and gate | `ObjectRegistry` |
| `Reconciliation` | the wave-2 orchestrator | |
| `PilotCase` | case, approval, review and export services, the review workflow, the report | |
| `FieldDecisions`, `OpsDecisions`, `MarginDecisions` | the rule engines of the packs as operators | |
| `MarginCase` | a job recorded by three planes, and the engines that judge it | `MarginDecisions`, `OpsDecisions` |
| `DomainWorkflows` | the seven workflows on a database session | the three `...Decisions` |
| `...Proofs` | theorems about the module of that name and those it extends: `ActionEngineProofs` has the graph's, `CrossPlaneProofs` the gate's and the registry's, `DomainWorkflowsProofs` the engines' | that module |
| `MC...` | instances for TLC | |

**ControlGraph.** Variables are the fields of the repository's objects as
functions of the object id. An id also stands for what never changes in an
object (plane, type, confidence). `issued` holds the ids of objects that were
built, also of those an exception threw away: `SupersedeFails` is the call of
`supersede_object` that assigns `superseded_by` and then raises because the
state cannot be left. `reported` is the state named by the last event the audit
hook received. Payloads and queries are left out.

**ActionEngine.** A worker is a request thread. `propose_action` is cut between
validation and the insertion into the table, `release_action` after the
`is_releasable` test and, in every round of its loop over the targets, after the
engine's look at the state (`ReleaseLook`), after `transition_state`'s own test
of the lifecycle table (`MarkTest`) and after the assignment (`MarkAssign`); any
graph operation or other release may come in between. Nothing locks an object
there, so the assignment may overwrite a state that neither test saw. The rules
of the chain that can fail are operators; those that pass for every object the
service builds, or only warn, are named in a comment. `releases` and `actioned`
are history variables.

**ReleaseGuard.** `pc` says where a thread is in its handler. `submit` is cut
after its status test, after it writes PENDING, after the evidence check, after
the gate, and the route at each approval step it requests; `approve` and
`reject` are cut between marking the step, testing for completion and marking
the release. `SetPolicyProfile` changes the profile of the workspace between any
two steps of another thread; the route reads it when a submission begins, and
`submit` keeps that one (`used`), and reads it again when it asks the approvers
(`MembersAsked`). A change of status and the trail entry that follows it are one
step, so the trail is asked about only where requests do not overlap.
`RequestStep` is `ApprovalService.request` in one step; the code enters a step
into `_steps`, where the approver's inbox finds it (`approval_service.py:78`), a
line before it enters `_by_release`, which the test for completion reads
(`:30`). `complete`, `signed`, `excused`, `offline`, `submissions`, `waived` (a
submission came through asking for no approval), `by` (what approved the
release) and `needed` (how many members the last pending submission had to ask)
are history variables.

**ReleaseGate.** A package is its position in the order of storing.
`Execute`/`ExecutorReturns` separate what happens before and after the caller's
executor, so executors overlap, fail, and submit requests themselves. Field
contents are reduced to whether the field is empty, hashes to the fact that the
hash `submit` computes is the one the chain recomputes. `Submission` is the set
of requests made by callers other than the extending module.

**ObjectRegistry.** A client gets an object and later hands its successor to
`update`, from which follows staleness. Version records keep the snapshot,
events are counted by type. `OthersUseGate` is everybody else's use of the gate
the registry was given. Schema validation is left out because its error is
swallowed. The tag index is kept like the type index and is not repeated.

**ExceptionManager.** Time is a counter; `expires_at` is any time, past ones
included. An id may be submitted again, as in the code, which replaces the
request and keeps the decisions; a decision records, as history, the expiry it
was made for. The route draws a fresh id for each request, other callers choose
theirs. `ApproveExceptionRefused` is the approval whose rationale is too short:
it opens the review task and then raises.

**CrossPlane.** `nodes` is the store's own copy of each object; `AddObject` and
`UpdateObject` put a copy that some client got from the registry, by then old or
not, into it. `by_type` is the store's index of types, which `update_object`
does not refresh and which the rules are evaluated on. Edges are valid from
`valid_from` until `valid_until`, and the clock moves. `RegistryStep` is every
operation of the registry, governed ones included, and everybody else's use of
the gate. A run adds one case for each gap, conflict and orphan in one step, as
the synchronous engine does; the finding's wording, severity and remediation are
left out.

**Reconciliation.** A run is one step over the graph of that moment, and keeps
its trace (candidates with score and hard failure) and its outcomes. Scores are
whole hundredths. The float quotient of the code agrees with them at the
threshold; where two scores are exactly the duplicate gap apart it may fall on
either side, and the model takes either. Field values are members of small sets
with the comparisons the rules make of them (quantities and costs within their
tolerance, dates equal as strings). Candidates keep the place at which they were
found, so that places order them as the code's lists do.

**PilotCase.** Each service keeps its own entries under a case id, as in the
code; `direct` is a history variable that counts the decisions made through the
transition route, which records none.

**FieldDecisions, OpsDecisions, MarginDecisions.** A job, an incident or a piece
of work is a record of the facts an engine asks for. Free text is reduced to the
set of words or kinds of fault it contains, and the tables say which names
contain which word. Amounts are whole numbers, percentages comparisons of
products. Rules that overwrite each other are a chain of definitions in the
order of the code. A work order of the documents (`WorkDocument`), which the
margin diagnosis adds to the history it reconciles, has a place and a date and
none of the facts the leakage rules ask for.

**MarginCase.** The people who maintain contract, work order, incident, SLA,
gates and the record of a major incident change their part independently; these
updates are the callers'. A ticket's gates are those its schema can hold; permit
and sign-off gates belong to the field's handover, which only the linker is
given. `Diagnose` is what the code makes of a state, and the properties ask it
in every state.

**DomainWorkflows.** One request, chosen from `Requests`, on its session.
`Flow(kind)` lists the steps of its handler; each may succeed, raise, or break
the session. The except branch, the answer, the commit and the rollback are
actions; `Fail` is what the handler catches, from its documents and compiler to
the validator and the summary's template. What the engines decide is computed by
the `...Decisions` modules, the model's explanation is external and reduced to
whether it came.

## 3. Runs

Every run finishes in less than five minutes with two workers.

| Run | Instance | Shows |
|---|---|---|
| `graph` | 3 objects, 1 caller-made link, evidence on one | linear histories, pointers, governed links, and that the graph implements `VersionForest` |
| `action` | 2 objects, 1 proposal, 2 workers, 2 releases | what is released was justified by evidence on every target and by its mode, in every interleaving; only a release that overlaps another actions what that one actioned; what the audit hook misses |
| `guard_sequential` | 1 worker, lax and strict profile in turns, 2 approvers, 2 submissions, 1 exception | evidence, quorum and rejection rules, and the audit trail, when requests do not overlap |
| `guard_threads` | 2 workers, two profiles in turns of which one asks for approval at medium risk, 1 approver, 2 submissions, 1 exception | no silent approval, no lost approval |
| `guard_race_evidence` | 2 workers; violated | two submissions at once approve a release without its evidence |
| `registry` | 1 object, 3 versions, 2 clients, 2 gate requests, 2 planes and types, other callers of the gate | linear versions, indices that find what moved, one log entry per dispatch, one billable event per release |
| `exceptions` | 2 ids, 3 submissions, 3 instants, 2 decisions each | a review task for each approval; what is in force will be reviewed, but for an id used twice |
| `cross_plane` | 2 objects, 2 versions, 2 types, 1 edge, 1 client, 2 runs, 1 gate request, 2 instants | the store holds what the registry once held; a run contradicts itself about an object only where an edge is outside its window; a lasting defect keeps an open case unless the object's type was changed |
| `pilot` | 1 case, 9 timeline entries, 1 review decision | no decision before validation, every decision accounted for, the report's decision field shows the gravest one recorded |
| `reconciliation` | 2 + 2 objects, 96 value assignments with 7 sets of links each, 2 edits, 3 requests, 2 runs | every object is matched, missing or outranked; a contradicted pair is never matched; an ambiguous choice is reported |
| `workflows` | one request of each kind from `MCRequests`, any step failing | committed cases are whole, readiness and escalation are monotone, exactly which checks of their validator the incident engines' answers fail, verdicts and prices are justified |
| `margin` | a job with up to two open matters, 3 contract scopes, 3 rates, a contract without a rate, up to 2 field blockers; tickets with four gates and two of the field, and major incidents | a healthy diagnosis means a settled job; settling aggravates only by uncovering; engines disagree only where known |

**Bounds.** Two threads suffice for a check made stale by another thread, two
releases for a release of what was released, two submissions for the leftovers
of an earlier one, three objects for a version with a predecessor and a failed
supersession beside it, three versions for a client that is one and two versions
behind, three instants for before, at and after an expiry, two runs for a defect
found again after its case was resolved, and two instants for an edge whose
window has ended or not begun. Nine timeline entries let a case be escalated,
reviewed again, overridden, reviewed again and decided; there is one case
because the services share nothing between case ids. Two targets suffice for a
duplicate and for an outranked target, two sources for a target both want. Two
pieces of work suffice for a duplicate claim, two blockers for one that excuses
the provider before one that does not. `MaxEvidenced`, `MaxLinks`,
`MaxReleases`, `MaxSubmissions`, `MaxExceptions`, `MaxSubmitted`, `MaxVersion`,
`MaxTime`, `MaxDecisions`, `MaxRuns`, `MaxResolved`, `MaxTimeline`,
`MaxBlockers` and the sets `TargetState`, `Graph`, `Edit`, `Request`,
`Requests`, `Jobs` and `Blockers` bound what the code does not bound; they
appear in the initial predicates and the next-state relations, with one
exception: `AppendEntry`, which every transition of `PilotCase` ends with, has
`MaxTimeline` as a guard of its own. Objects and workers of `action` are
interchangeable and it checks no liveness, so it uses symmetry. A behaviour of
`registry`, `exceptions`, `cross_plane` and `reconciliation` stops when its
bounds are used up, one of `workflows` when its request is done, one of `margin`
when there is nothing left to record; their configurations say so. The other
runs check for deadlock.

**Fairness.** No module assumes any and no property is about liveness. The
handlers contain no wait, no lock and no retry, so that a request which is
scheduled ends by its own code; what somebody else must do for a release, an
exception or a case to end (approve, decide, resolve) nobody is bound to do.

**The counterexample.** In `guard_race_evidence` a first submission finds
evidence missing and blocks the release; before its route looks at the status, a
second submission, legal from BLOCKED, writes PENDING and goes on to check the
evidence; the first route takes PENDING for "waiting for approval" and asks the
approver, who approves before the second check is done.

## 4. Proofs

Each theorem below is proved by TLAPS for every value of the constants. Where a
theorem states a property of a run, the run shows it on a small instance.

| Module | Theorem | Statement |
|---|---|---|
| `ActionEngineProofs` | `TypeCorrect` | `GraphSpec => []GraphTypeOK` |
| | `HistoryIsLinear` | `GraphSpec => []LinearHistory` |
| | `PointersAreSuccessors` | `GraphSpec => []SupersededByIsSuccessor` |
| | `LinksAreGoverned` | `GraphSpec => []LinksGoverned` |
| | `ImplementsVersionForest` | `GraphSpec => Forest!Spec` |
| | `ReleasesAreJustified` | `Spec => []ReleaseJustified` |
| | `ActionedAgainOnlyByOverlap` | `Spec => ActionedOnlyByOverlap` (action property) |
| | `AuditGapBounded` | `Spec => []AuditGapIsKnown` |
| `ReleaseGuardProofs` | `ApprovalNeedsAPerson` | `Spec => []ApprovedByAPerson` |
| | `ApprovalsNeverLost` | `Spec => []NoLostApproval` |
| | `EvidenceBeforeApproval` | `OneAtATime /\ Spec => []ApprovedHadEvidence` |
| | `QuorumReached` | `OneAtATime /\ Spec => []ApprovalQuorum` |
| | `RejectionsBlock` | `OneAtATime /\ Spec => []RejectionBlocks` |
| | `TrailKeepsUp` | `OneAtATime /\ Spec => []TrailGapIsKnown` |
| `ExceptionManagerProofs` | `EveryApprovalReviewed` | `Spec => []ApprovalsReviewed` |
| | `NothingInForceUnreviewed` | `Spec => []InForceIsReviewed` |
| `CrossPlaneProofs` | `EveryDispatchLogged` | `Spec => []DispatchesLogged` |
| | `ReleasesBilledOnce` | `Spec => []BilledOncePerRelease` |
| | `VersionControlLinear` | `Spec => []VersionsLinear` |
| | `IndicesComplete` | `Spec => []IndicesFindObjects` |
| | `StoreHoldsRecordedVersions` | `PlaneSpec => []StoreIsHistory` |
| | `OrphanConflictsOutOfWindow` | `PlaneSpec => []OrphanInConflictOnlyOutOfWindow` |
| | `ResolvingHidesNothing` | `PlaneSpec => DefectsStayVisible` (action property) |
| | `CompositionKeepsPromises` | `PlaneSpec => [](DispatchesLogged /\ BilledOncePerRelease /\ VersionsLinear /\ IndicesFindObjects)` |
| `PilotCaseProofs` | `NothingDecidedUnvalidated` | `Spec => []DecidedAfterValidation` |
| | `EveryDecisionAccounted` | `Spec => []DecisionsAccounted` |
| | `GravestReported` | `Spec => []ReportShowsGravest` |
| `DomainWorkflowsProofs` | `CommittedCasesWhole` | `Spec => []CasesWhole` |
| | `EasingNeverHurts` | `Spec => []ReadinessMonotone` |
| | `GraverNeverLower` | `Spec => []EscalationMonotone` |
| | `AnswersAgainstValidation` | `Spec => []EnginesAgainstValidators` |
| | `MarginVerdictsSound` | `Spec => []MarginVerdictSound` |
| | `BillableAtTheClosestRate` | `Spec => []BillingJustified` |
| `MarginCaseProofs` | `HealthyIsSettled` | `Spec => []HealthyMeansSettled` |
| | `EnginesAgreeAlways` | `Spec => []EnginesAgree` |
| | `SettlingUncovers` | `Spec => SettlingOnlyUncovers` (action property) |
| `ReconciliationProofs` | `TypesAreKept` | `Spec => []TypeOK` |
| | `ObjectsAreAccounted` | `Spec => []ObjectsAccounted` |
| | `ContradictedNeverMatched` | `Spec => []ContradictedNotMatched` |
| | `AmbiguityIsReported` | `Spec => []AmbiguityReported` |

**Assumptions.** They are named where the constants are declared, TLC evaluates
them in the runs, and each is something the code fixes.

| Assumption | Says |
|---|---|
| `ObjectAssumption`, `ProposalAssumption` | "no object" and "no proposal" are no ids |
| `SupersedesAssumption` | the supersession link type exists |
| `ControlGraph!PlaneAssumption` | every object has a plane |
| `ProfileAssumption` | the profiles are members of the enumeration `PolicyProfile` |
| `ApproversAssumption`, `BoundsAssumption`, `TimeAssumption` | the number of approvers and the bounds are natural numbers |
| `SubmissionAssumption` | what other callers submit to the gate are requests |
| `TransitionAssumption` | the action type of a governed transition exists |
| `CrossPlane!PlaneAssumption` | what the normaliser infers is an object type, callers move objects to object states, the action types of pipeline, store and engine exist, the clock's bound is a natural number |
| `RequestsAssumption` | a request has the fields its schema declares; its jobs, incidents, histories and rate cards are any, of any length, with amounts that are whole and not negative; a diagnosis has at most one work order of the documents |
| `JobsAssumption` | contract, work order, incident, gates and major-incident record of a job have the fields their schemas declare; a ticket's gates name one of the schema's `ClosurePrerequisite`s, the field's a permit or a sign-off |
| `ListsAssumption` | objects, correlation keys and reference systems are listed (in any number), and "none" is no id |
| `GraphAssumption` | a graph has every field of every object, in a value or "none", and lists its links; edits are to fields of objects |

*The graph.* `LinearHistory` and `SupersededByIsSuccessor` are not inductive: a
failed supersession leaves a pointer to an id that is not stored, and if that
id could be given out again, the pointer would come to name an unrelated object,
or a new object would start with a version above 1. `HistoryInv` joins them with
the types and `FreshIds`: an id not yet issued has version 1 and no pointer, and
pointers lead to issued ids only. What remains is the table: SUPERSEDED and
DEPRECATED have no way out (lemma `TransitionTable`), so a version with a
successor never gets a second one. The refinement follows from
`HistoryInv`: each action maps to a step of the forest or leaves it unchanged.

*The action engine*, for any number of proposals, targets, threads and releases.
Lemma `GraphKeeps` says what any step of the graph leaves alone: evidence and
storage are never lost, and no graph step takes an object out of `Settled`
(actioned, superseded or deprecated). `TargetsInv` ties every proposal and every
loop still running to targets with evidence; `ReleaseInv` carries the result of
the `is_releasable` test over the steps in which other threads may reject or
release the same proposal; `ActionedInv` says that an object that was actioned
stays settled, also when a release that was past its tests overwrites the state.
Hence neither test passes on it again (`MarkStep`), which is
`ActionedOnlyByOverlap`. The audit gap is bounded in the composed system, where
a release is the third to change states behind the hook's back; `AuditInv` adds
that an id not issued has not been reported.

*Release Guard.* `ApprovedByAPerson` is made inductive by `PersonInv`: a thread
that is testing for completion or about to mark the release has an approval
behind it, and approvals in the history are never taken back. The profile may
change at any moment of these proofs: what a submission decides follows the
profile it began under, and who is asked the one of that later moment.
`NoLostApproval` needs `ThreadInv`. A release may be left PENDING with all steps
approved only if nobody is going to test it any more, so the proof must know
that a thread which requests a step adds one that is not approved, and for that
that it does not reuse the number of an existing step. Steps are numbered by
counting, and the model bounds them at two for each submission; `StepsInv`
counts the steps that threads may still request (`Owed`, by thread and member)
against that bound. Both theorems hold for any number of threads, approvers,
submissions and exceptions: the race that costs the evidence check (section 3)
never costs the human decision.

Evidence, quorum, rejection and the audit trail are false for two threads, as
that race shows, so their theorems have the hypothesis `OneAtATime`: there is
one worker. This is what their comments in `ReleaseGuard` say and what
`guard_sequential` runs; approvers, submissions and exceptions remain arbitrary.
`SequentialInv` says at each point of a handler what it knows of the release:
evidence was complete from the gate on (`EvidenceInv`), that every member to be
asked has a step or is still to be asked (`AskedInv`), that every step is
approved when the approvers are about to approve the release (`UnanimousInv`),
and that the trail lags only between PENDING and the outcome (`TrailInv`). Steps
of an earlier submission are the difficult case: they may have been asked for
under another profile, and completion asks that they too are approved.

*Gate and registry.* `DispatchesLogged` alone does not say why a package stored
next has no entry yet: `EntriesInv` adds that entries name stored packages only,
that a running executor has none, and that a finished one has exactly one.
Lemmas on `Logged` say what appending an entry does to it; they carry the count
of refusals. `RegistryInv` adds that an id never registered has no records; the
version test of `update` does the rest, since the object a client holds is
arbitrary in the proof, not merely stale. Both are proved together as
`SystemInv`, because a governed registry step also moves the gate.

*Exceptions.* Each decision names a task that was opened before it (`TasksInv`)
and no two decisions share one (`OwnTaskInv`); the orphan task of a refused
approval belongs to none. A request that replaces another keeps its decisions,
so a decision carries the expiry it was made for; `DecidedInv` says that this is
the request's own as long as the id was used once, and then the approval that
puts an exception in force has a task due when it ends.

*The store and the cross-plane engine.* `StoreIsHistory` needs `HeldInv`: what a
client holds was once recorded, so putting it back stores something recorded.
Records are never rewritten (`RecordsGrow`). `CasesInv` says that the cases of a
run to come are new and that the edge of a conflict stays, so that the window
found when the run was made can be read off the edge ever after; edges have two
different ends (`EdgesInv`). `DefectsStayVisible` follows because a new case is
never among the resolved ones and because the store's index of types finds an
object under the type of one of its versions (`IndexInv`), so under its type if
that never changed. `CompositionKeepsPromises` carries what gate and
registry promise their own callers over to the composition: every step of it
either leaves the gate alone or submits a request (`PlaneUsesGate`), and
`RegistryInv` is part of the composition's invariant.

*Pilot cases.* `DecidedAfterValidation` speaks of places in the timeline.
`PathInv` names, for each state before the validation, the entries at which the
case reached the earlier ones and says that all others are assignments, so that
the validation entry completes the path; later entries only extend it. The
property was restated for the proof without changing what it says: the path is
`ThroughValidation`, four places in order, instead of a filtered sequence, about
which only induction would tell anything. `InTimelineInv` links the state to the
count of decisions.

*Workflows.* `RowsInv` says what the session holds after each number of steps of
each flow (`ServingInv`) and that a handler that returned leaves whole rows; a
commit copies the session and a rollback leaves nothing. The five theorems about
decisions need little of the state, since a request never changes
(`RequestInv`); their work is in the engines, for requests of any
size. Readiness: the blockers of an eased job are among those of the job
(`GeneralBlockersShrink`, `SpenBlockersShrink`), and fewer blockers are no worse
(`FewerBlockers`). Escalation: the chains of overwriting rules are first shown
equal to tables (`EscalationTable`, `TriageTable`), on which a graver severity
is compared case by case. The validators: each check is decided for each answer
an engine can give (`ActionsChecked`, `EscalationValid`), and a reconciliation
has no recommendation in two cases only (`ServiceRecommendations`,
`OrderRecommendations`). The margin verdict: a pattern that the leakage engine
does not also see is one of two kinds or a duplicate claim
(`UntriggeredPatterns`), and a work order of the documents has none
(`DocumentPatterns`). Billing: the entry the engine picks is the first of those
that fit closest (`FirstExists`, `BestMatchIsClosest`, from the well-foundedness
of the natural numbers), and a billable visit has no failure, which one more
satisfied gate cannot add (`BillableSays`).

*The margin case.* `CaseInv` is types only (lemma `CaseAlways`); the work is in
the engines again. Blockers, patterns and contradictions are first shown one by
one (`BillingBlockersAre`, `WorkPatternsAre`, `HandoverBlockersAre`), and a
diagnosis is taken apart into what each engine contributes (`DiagnosisParts`).
`HealthyMeansSettled` then reads each engine's silence. `EnginesAgree` needs
which engine reads which gates (`GatesOfEach`), what each makes of a grave
incident's analysis (`AnalysisMissing`, `AnalysisJudgedApart`), and what still
holds a ticket that the closure engine passes (`ClosedButHeld`). For
`SettlingOnlyUncovers` a settled job has neither a new pattern nor a new
conflict (`SettledHasLess`), and fewer of both make a verdict graver only when
the last pattern, which decided, is gone (`FewerMatters`); a new blocker may
take a breach from the provider and adds at most a warning (`OneMoreBlocker`).

*Wave-2 reconciliation*, for any number of objects, keys, references, links and
requests. The invariant `RunsInv` says of every run what the three properties
say, and the graph's changes between runs do not matter, since a run keeps what
it reported. All of the work is in one run. Candidates come from joined
sequences; that joining yields a sequence of pairs of the two planes is an
induction over the number of parts, done here by a smallest counterexample from
the well-foundedness of the natural numbers (`JoinsExists`, `FlattenIsSeq`).
Scores are numbers up to the sum of the weights (`ScoreBounds`), so every source
with a candidate has a best one, and the stable sort's first is it
(`TopIsBest`). From there: only the ranking reports matches (`MatchesAre`) and
only the classifier reports missing objects (`MissingAre`), and both come down
to whether some candidate of the object scores. That the duplicate detector,
which ranks by itself, names every match with a near rival needs that the match
and the rival are two places within the gap (`ReportNamesRivals`).

**What the proofs changed in the model.** A failed attempt showed that in
`PilotCase` and `Reconciliation` the guards of a CASE overlapped: TLA+ may then
choose either branch (TLC takes the first), while the code tests them in order.
They are IF ... ELSE now. Proving for every request also brought in two kinds of
request that the checked instance lacked and now has: a work category the
accreditation table does not know, which asks for nothing (`AccreditationsFor`),
and a rate card with a base rate of 0, which is a rate
(`contract_margin/parsers.py:698`). `HealthyMeansSettled` was false of a
contract that names no rate, which the checked instance lacked: the reconciler
compares rates only where both are there, the property now says so, and the
instance has such a contract. Filters of sequences (`Candidates`, `Between`,
`OfSource`, `Mitigating`) are sets of places now, about which the prover can
reason; the run of `Reconciliation` has the same states as before.

**Only model-checked.** Nothing: every property of a passing run, invariant or
action property, has a theorem. What `guard_race_evidence` checks is false by
intent. Whether the gate's promises hold under `ExceptionManager`, which extends
the gate too, no run asks and no theorem says; that module's properties are the
framework's own.

The type invariants of modules whose runs check none describe the state for the
reader; where a proof needs types, they are part of its invariant.

## 5. Observed and not given a run

Points where the code and its documents, or two parts of the code, differ. Each
can be seen in the model or, where it is a matter of wiring, in the lines named;
the passing properties characterise most of the former.

Control graph, actions, Release Guard:

- A supersession that raises leaves `superseded_by` pointing to an object that
  was never stored (`core/control_object.py:107`); `SupersededByIsSuccessor`
  says how far the damage goes.
- `supersede_object` stores its link without asking the link policy
  (`core/graph/service.py:187`); `LinksGoverned` has the exception in it.
- Reconciliation, `mark_actioned` and the activation of a new version never call
  the audit hook (`core/reconciliation/engine.py:115`,
  `core/action/engine.py:189`, `core/graph/service.py:162`); `AuditGapIsKnown`
  bounds what the hook misses.
- Two releases that overlap can both mark an object: each sees it RECONCILED and
  passes the test of the table before the other assigns
  (`core/action/engine.py:188`, `core/control_object.py:64`). Its trail then has
  two ACTIONED entries, or one that overwrites a state it was moved to in
  between; `ActionedOnlyByOverlap` says that nothing but overlap does this.
- `approve_action` looks at the mode and not at the status
  (`core/action/engine.py:143`): a rejected proposal can be approved and
  released, although `tests/unit/test_action_engine_core.py:171` expects a
  rejected one not to be releasable. `ReleaseJustified` still asks for the
  approval.
- `release_action` does not validate again (`core/action/engine.py:175`): by
  then a target may be disputed or contradicted. Evidence is the one thing that
  lasts.
- An approved exception approves the release whatever its evidence
  (`products/release_guard/services/exception_service.py:139`), against line 8
  of the same file: "An exception does NOT bypass the evidence gate".
- Quorum and rejection of Release Guard hold only when requests do not overlap.
  One thread requests the first of two steps (`api/releases.py:97` of the
  product); another approves it and finds every step approved; the release is
  APPROVED before the second step exists. Or one thread approves the last open
  step and tests for completion; another rejects a step and blocks the release;
  the first calls `mark_approved`, which looks at no status
  (`approval_service.py:118`).
- The workspace's profile is read when a submission begins and again when the
  approvers are asked (`api/releases.py:90`, `:96`); a change in between asks
  the number of one profile for a release the other held back. A release that
  was rejected under one profile and is resubmitted under a profile that asks
  for no approval is approved by the policy; `RejectionBlocks` and
  `ApprovalQuorum` speak of what the approvers approved.
- A decided Release Guard exception can be decided again
  (`exception_service.py:128`), and a step approved after a cancellation brings
  the release back (`release_request_service.py:234`). In a workspace without
  approvers a release stays PENDING and nobody is asked (`api/releases.py:94`).
- A submission decided while the gate is unreachable writes no audit entry
  (`release_request_service.py:222`); `TrailGapIsKnown` says that nothing else
  is missing.

Gate, registry, exceptions, graph store:

- The gate returns blocked requests before its metering code, so `gate_block`
  is never recorded (`core/platform_action_release_gate.py:294`). An executor
  that returns something other than a dictionary makes the result raise (`:269`)
  after the package was stored and before it is logged; the model's executors
  return dictionaries or raise.
- `update` of the registry takes an object to any state
  (`core/registry/object_registry.py:79`); only `transition_state` looks at the
  lifecycle. `transition_to` keeps the old `object_hash`
  (`core/graph/domain_types.py:138`).
- `approve_exception` never asks the gate
  (`core/exception_framework/manager.py:97`), although the class says that the
  gate governs approvals too. A revoked exception stays active until it expires
  (`manager.py:156`). A request under an id in use replaces the other and is in
  force by the other's approval (`manager.py:75`), without a review of its own;
  `InForceIsReviewed` has this exception in it.
- `update_object` of the store compares no versions (`core/graph/store.py:39`),
  and refreshes the index of planes and not the one of types: an object whose
  type changed is judged by the rules of its old type; `DefectsStayVisible` has
  this exception in it. `add_governed_edge` has a package compiled before
  `add_edge` refuses the edge (`store.py:329`).
- Conflicts are read without the validity window of their edges
  (`core/reconciliation/cross_plane_engine.py:204`).
- The webhook receiver ingests into a registry and a store built for the call
  (`core/connectors/webhook_receiver.py:363`), the scheduled reconciliation
  reads an empty store (`worker/tasks.py:23`), and the audit export builds a
  gate and an exception manager of its own
  (`api/routes/audit_export_route.py:22`).

Pilot cases and reconciliation:

- The approval routes build a case service of their own, in which no case exists
  (`api/routes/approvals.py:23`). The transition route moves a case to a decided
  state without a record (`api/routes/pilot_cases.py:102`); `DecisionsAccounted`
  counts both kinds.
- "request_more_evidence" of the review workflow yields `evidence_ready`
  (`workflows/review_and_approval/workflow.py:345`), to which there is no
  transition from `under_review`, and nothing carries verdicts over. An export
  leaves the case in its state.
- The thresholds of a reconciliation request are copied into its plan
  (`core/reconciliation/orchestrator.py:385`) and used nowhere. The source of a
  pair that failed hard is reported missing in the target. A target that every
  source ranks second is neither matched nor missing: `ObjectsAccounted` says
  so.

Domain packs and workflows:

- An outage sets the level to L3 and lowers what a breached P1 had reached,
  below a P2 (`domain_packs/telco_ops/rules.py:71`). An incident under
  investigation without a runbook is told to investigate, which its validator
  refuses (`rules.py:152`). Every action of the engine fails the validator's
  check for evidence, and those that hand the incident to somebody the one for
  an owner (`rules.py:160`, `validators.py:286`); some reconciliations have no
  recommendation, which it also asks for (`validators.py:427`).
  `EnginesAgainstValidators` lists them all.
- The closure engine takes an analysis in progress for a submitted one
  (`telco_ops/rules.py:973`), the handover linker does not
  (`domain_packs/reconciliation.py:1165`); and where a prerequisite has two
  gates the one reads the last (`rules.py:938`), the other any. `EnginesAgree`
  has both.
- An escalation that is due but has no percentage, or no contract rate, yields
  no pattern (`domain_packs/reconciliation.py:1466`): the job is healthy.
- Hot works need two certificates because the two checks look for different
  names (`domain_packs/utilities_field/rules.py:139`). A crew of 0 is unknown
  and passes where a crew of 1 is blocked (`rules.py:625`).
- A mild leakage pattern hides grave conflicts from the verdict
  (`domain_packs/reconciliation.py:2056`). A breach the provider answers for is
  a critical conflict (`:1938`) and makes `penalty_risk`, but the workflow of
  margin diagnosis passes no SLA status (`workflows/orchestrator.py:346`), so
  that only other callers of the reconciler see it. `_build_contract_data`
  (`:2015`) drops the approval and SLA fields the contradiction detector asks
  for. The reconciler builds a chain validator (`:1868`) and never calls it.
- The validator does not know the verdict `approved`
  (`services/validation/service.py:593`) that `contract_compile` hands it
  (`workflows/orchestrator.py:125`): every compiled contract needs review.
- The except branches of readiness, dispatch and margin diagnosis write no
  `workflow_failed` event (`workflows/orchestrator.py:226`); `CasesWhole` says
  what the trail of such a case tells.
- The client has its answer before `get_db` commits (`db/session.py:50`).

## 6. Plan

Modelled so far: the control graph and what acts on it, the gate and its users,
Release Guard, ingestion and both later reconciliations, pilot cases, the rule
engines and the workflows that use them. Next, in this order:

1. `ObjectThreads`: the methods of one control object cut at every read of the
   state (enrich against freeze, two transitions at once, the transition inside
   enrich that raises after the payload changed).
2. `ActionPolicy`: the wave-3 validation and policy pipeline as operators,
   checked against a reference definition.
3. Policy administration (publish against roll back), pack management (install,
   certify, suspend).

Abstract specifications worth stating: an append-only log for the registry's
records and the gate's log, and a decide-once specification for approvals.

Theorems next: the abstract specifications above, once they are stated, as
refinements from `SystemInv` and `ThreadInv`, and the gate's promises under
`ExceptionManager`, whose lemmas are to be moved beside the gate for that.

## 7. Not modelled

- Document parsers and text extraction: regular expressions and dictionary
  access over free text, data without control. What they can yield is the set of
  requests of `DomainWorkflows`.
- Language models, prompts, training and evaluation: the behaviour that matters
  is the model's output. A call to the gateway answers or fails.
- Connectors, webhooks, billing: clients of external systems; the receiver hands
  what it parsed to stores nobody reads (section 5).
- Reports, dashboards, health scores, explanations, alerts: they read and
  compute; the one report whose field depends on the order of decisions is in
  `PilotCase`.
- Workspaces, members, integrations and onboarding of Release Guard: plain
  dictionaries; of them `ReleaseGuard` has the policy profile as a variable and
  the number of approvers as a constant.
- `api/routes/reconciliation.py` calls its services with arguments they do not
  take; there is no behaviour to model behind it.
- User interfaces, infrastructure, deployment.
