--------------------------- MODULE Reconciliation ---------------------------
(***************************************************************************)
(* The wave-2 reconciliation orchestrator: candidates between a source and *)
(* a target plane, nine rules that score them, duplicates, missing objects *)
(* and identifier conflicts, the outcomes assembled from all that, and the *)
(* cases stored for them.                                                  *)
(*                                                                         *)
(* execute runs to its end without giving up control, so a run is one      *)
(* step; the graph changes between runs.  Scores are sums of hundredths,   *)
(* MAX_POSSIBLE of them the most a pair can get: the floating-point        *)
(* quotient agrees with them at the match threshold and may fall on either *)
(* side where two scores are exactly the duplicate gap apart.              *)
(***************************************************************************)
EXTENDS Naturals, FiniteSets, SequencesExt

CONSTANTS
    SourceObject,  \* the objects of planes[0], in the order the graph lists them
    TargetObject,  \* the objects of planes[1]
    Kind,          \* object_kind of each object
    Domain,        \* domain of each object
    Key,           \* correlation keys, in order
    Ref,           \* external reference systems, in order
    LinkType,      \* the types of the links in use
    Graph,         \* bound: the graphs to start from
    Edit,          \* bound: the changes made between runs, as [object, field, value]
    Request,       \* bound: the requests made: [ids, both, expectations], see below
    MaxRuns        \* bound: runs

Source == Range(SourceObject)
Target == Range(TargetObject)
Object == Source \cup Target
None == "none"
Field == {"state", "payload_state", "quantity", "cost", "date", "evidence"}
             \cup Range(Key) \cup Range(Ref)
\* what the fields of the objects hold
Content(v) == {v[o][f] : o \in Object, f \in Field}

\* objects, keys and references are listed, and no identifier is None
ASSUME ListsAssumption ==
    /\ SourceObject \in Seq(Source) /\ TargetObject \in Seq(Target)
    /\ Key \in Seq(Range(Key)) /\ Ref \in Seq(Range(Ref))
    /\ None \notin Object
\* a graph has every field of every object and lists its links; changes are to its fields
ASSUME GraphAssumption ==
    /\ \A g \in Graph :
           /\ g.value \in [Object -> [Field -> Content(g.value)]]
           /\ g.links \in Seq(Range(g.links))
           /\ \A l \in Range(g.links) : l.type \in LinkType
    /\ \A e \in Edit : e.object \in Object /\ e.field \in Field
    /\ MaxRuns \in Nat

SCORING_LINK_TYPES ==
    [correlates_with |-> 80, fulfills |-> 90, bills_for |-> 90, derives_from |-> 60,
     evidences |-> 50, implements |-> 70]
LinkScore(type) == IF type \in DOMAIN SCORING_LINK_TYPES THEN SCORING_LINK_TYPES[type] ELSE 30

\* the weights of the nine rules, in hundredths
Weight == [identity |-> 200, external |-> 150, topology |-> 180, state |-> 100,
           quantity |-> 120, cost |-> 150, chronology |-> 80, coverage |-> 100,
           evidence |-> 80]
MAX_POSSIBLE == 1160   \* the sum of the weights
MATCH == 812           \* match_threshold: seven tenths of it
GAP == 58              \* duplicate_gap_threshold: five hundredths of it

VARIABLES
    value,   \* value[o][f]: the field f of object o, None when it is absent
    links,   \* the links between the planes, as [source, target, type], oldest first
    runs,    \* the completed runs: objects, decision trace and outcomes
    cases    \* the case repository: [run, outcome, priority], all of them open

graphVars == <<value, links>>
vars == <<graphVars, runs, cases>>

Init ==
    /\ \E g \in Graph : value = g.value /\ links = g.links
    /\ runs = <<>>
    /\ cases = {}

-----------------------------------------------------------------------------
(* Candidates: pairs a link, a correlation key or an external reference    *)
(* suggests, each once and in the order they are found                     *)

\* the elements of a sequence that are in a set, in their order
Kept(seq, S) == FlattenSeq([i \in DOMAIN seq |-> IF seq[i] \in S THEN <<seq[i]>> ELSE <<>>])

Both(p, f) == value[p[1]][f] # None /\ value[p[2]][f] # None
Same(p, f) == Both(p, f) /\ value[p[1]][f] = value[p[2]][f]

Pairs(fields, src, tgt) ==
    LET sharing(f) == {p \in Range(src) \X Range(tgt) : Same(p, f)}
        ofField(s, f) == Kept([i \in DOMAIN tgt |-> <<s, tgt[i]>>], sharing(f))
        ofSource(s) == FlattenSeq([i \in DOMAIN fields |-> ofField(s, fields[i])])
    IN  FlattenSeq([i \in DOMAIN src |-> ofSource(src[i])])

\* a link is tried in its own direction first, then in the reverse one
Linked(src, tgt, lnks) ==
    LET ways(l) == <<<<l.source, l.target>>, <<l.target, l.source>>>>
    IN  FlattenSeq([i \in DOMAIN lnks |-> Kept(ways(lnks[i]), Range(src) \X Range(tgt))])

\* seen_pairs: only the first way a pair was found counts, and the candidate stays in
\* the place it was found at
Candidates(src, tgt, lnks) ==
    LET found == Linked(src, tgt, lnks) \o Pairs(Key, src, tgt) \o Pairs(Ref, src, tgt)
        seen(i) == \E j \in DOMAIN found : j < i /\ found[j] = found[i]
    IN  [i \in {k \in DOMAIN found : ~seen(k)} |-> found[i]]

-----------------------------------------------------------------------------
(* The rules.  Each yields a score, and a mismatch where it finds one.     *)

Matching(p, fields) == Cardinality({f \in Range(fields) : Same(p, f)})

Between(p, lnks) == {i \in DOMAIN lnks : {lnks[i].source, lnks[i].target} = {p[1], p[2]}}

\* a contradicting or blocking link between the two: the rule fails hard
HardFail(p, lnks) ==
    \E i \in Between(p, lnks) : lnks[i].type \in {"contradicts", "blocks"}

AtMost(n, bound) == IF n < bound THEN n ELSE bound

Identity(p) == AtMost(100 * Matching(p, Key), Weight.identity)
External(p) == AtMost(60 * Matching(p, Ref), Weight.external)

Topology(p, lnks) ==
    LET scores == {LinkScore(lnks[i].type) : i \in Between(p, lnks)}
        best == CHOOSE m \in scores : \A n \in scores : n <= m
    IN  IF scores = {} \/ HardFail(p, lnks) THEN 0 ELSE (best * Weight.topology) \div 100

\* the payload's own state, when it has one, excuses different lifecycle states
StateOf(o) == IF value[o].payload_state # None THEN value[o].payload_state ELSE value[o].state
StateAlignment(p) ==
    IF value[p[1]].state = value[p[2]].state THEN Weight.state
    ELSE IF StateOf(p[1]) = StateOf(p[2]) THEN Weight.state \div 2 ELSE 0

\* A missing value (or one that is no number) is neither a match nor a conflict.
\* Costs are whole numbers here, so "within a hundredth" is equality.
QuantityAlignment(p) == IF Same(p, "quantity") THEN Weight.quantity ELSE 0
CostAlignment(p) == IF Same(p, "cost") THEN Weight.cost ELSE 0
ChronologyAlignment(p) == IF Same(p, "date") THEN Weight.chronology ELSE 0

CoverageExpectation(p, lnks) ==
    IF \E i \in DOMAIN lnks : p[1] \in {lnks[i].source, lnks[i].target}
    THEN Weight.coverage ELSE 0

HasEvidence(p) == \E i \in 1..2 : value[p[i]].evidence # None

RuleMismatches(p, lnks) ==
    {c \in {"unsupported-linkage", "state-conflict", "quantity-conflict", "cost-conflict",
            "chronology-conflict", "evidence-insufficient"} :
        CASE c = "unsupported-linkage"   -> HardFail(p, lnks)
          [] c = "state-conflict"        -> StateAlignment(p) = 0
          [] c = "quantity-conflict"     -> Both(p, "quantity") /\ ~Same(p, "quantity")
          [] c = "cost-conflict"         -> Both(p, "cost") /\ ~Same(p, "cost")
          [] c = "chronology-conflict"   -> Both(p, "date") /\ ~Same(p, "date")
          [] c = "evidence-insufficient" -> ~HasEvidence(p)}

\* score_candidate: a hard failure leaves nothing of what the other rules gave
Total(p, lnks) ==
    Identity(p) + External(p) + Topology(p, lnks) + StateAlignment(p)
        + QuantityAlignment(p) + CostAlignment(p) + ChronologyAlignment(p)
        + CoverageExpectation(p, lnks)
        + (IF HasEvidence(p) THEN Weight.evidence ELSE 0)

\* Mutant: a hard failure only loses the topology rule's score
ScoreSoftFail(p, lnks) == Total(p, lnks)

Score(p, lnks) == IF HardFail(p, lnks) THEN 0 ELSE Total(p, lnks)

-----------------------------------------------------------------------------
(* Ranking, duplicates and what is missing *)

OfSource(s, cands) == {i \in DOMAIN cands : cands[i][1] = s}
Sources(cands) == {cands[i][1] : i \in DOMAIN cands}

\* the sort is stable: of equal scores the candidate found first comes first
Top(s, cands, lnks) ==
    LET mine == OfSource(s, cands)
        first == CHOOSE i \in mine :
                     \A j \in mine : \/ Score(cands[j], lnks) < Score(cands[i], lnks)
                                     \/ Score(cands[j], lnks) = Score(cands[i], lnks) /\ i <= j
    IN  cands[first]

Distance(m, n) == IF m < n THEN n - m ELSE m - n

\* abs(score - top_score) <= gap; `edge' is how rounding decides at the gap itself
Close(s, cands, lnks, edge) ==
    LET top == Score(Top(s, cands, lnks), lnks)
    IN  {i \in OfSource(s, cands) : LET d == Distance(Score(cands[i], lnks), top)
                                    IN  d < GAP \/ (d = GAP /\ edge)}

\* Mutant: only candidates that score count as duplicates
DuplicatesScoring(cands, lnks, edge) ==
    {s \in Sources(cands) : /\ Cardinality(Close(s, cands, lnks, edge)) > 1
                            /\ Score(Top(s, cands, lnks), lnks) > MATCH}

\* sources with several candidates near the best one, whatever the best one scores
Duplicates(cands, lnks, edge) ==
    {s \in Sources(cands) : Cardinality(Close(s, cands, lnks, edge)) > 1}

\* Mutant: an object some candidate names is not missing, whatever the candidate scored
MissingUnnamed(src, tgt, cands, lnks) ==
    LET named(i) == {cands[k][i] : k \in DOMAIN cands}
    IN  [category : {"missing-in-target"}, source : Range(src) \ named(1), target : {None}]
            \cup [category : {"missing-in-source"}, source : {None}, target : Range(tgt) \ named(2)]

\* classify_missing_objects: no candidate of the object scores
Missing(src, tgt, cands, lnks) ==
    LET matched(i) == {cands[k][i] : k \in {j \in DOMAIN cands : Score(cands[j], lnks) > 0}}
    IN  [category : {"missing-in-target"}, source : Range(src) \ matched(1), target : {None}]
            \cup [category : {"missing-in-source"}, source : {None}, target : Range(tgt) \ matched(2)]

\* classify_identifier_conflicts: every pair of related objects, candidate or not
IdentifierConflicts(src, tgt) ==
    {[category |-> "identifier-conflict", source |-> p[1], target |-> p[2]] :
        p \in {q \in Range(src) \X Range(tgt) :
                   /\ Kind[q[1]] = Kind[q[2]] \/ Domain[q[1]] = Domain[q[2]]
                   /\ \E k \in Range(Key) : Both(q, k) /\ ~Same(q, k)}}

\* CoverageAnalyzer.analyze
Gaps(objects, expectations) ==
    {e \in expectations : Cardinality({o \in objects : Kind[o] = e.kind}) < e.min}

-----------------------------------------------------------------------------
(* The outcomes.  The evidence evaluator is built without required types,  *)
(* so no outcome is "insufficient-evidence", and none is "disputed".       *)

Outcome(type, s, t, mismatches) ==
    [type |-> type, source |-> s, target |-> t, mismatches |-> mismatches]

\* the best candidate of each source, unless it scores nothing
MatchOutcomes(cands, lnks) ==
    {LET p == Top(s, cands, lnks)
     IN  Outcome(IF Score(p, lnks) >= MATCH THEN "fully-reconciled" ELSE "candidate-match",
                 p[1], p[2], RuleMismatches(p, lnks)) :
        s \in {x \in Sources(cands) : Score(Top(x, cands, lnks), lnks) > 0}}

Assemble(src, tgt, lnks, cands, expectations, edge) ==
    MatchOutcomes(cands, lnks)
        \cup {Outcome("duplicate-detected", s, None, {"duplicate-candidate"}) :
                s \in Duplicates(cands, lnks, edge)}
        \cup {Outcome("coverage-gap", e.kind, None, {}) :
                e \in Gaps(Range(src) \cup Range(tgt), expectations)}
        \cup {Outcome("mismatch-detected", m.source, m.target, {m.category}) :
                m \in Missing(src, tgt, cands, lnks) \cup IdentifierConflicts(src, tgt)}

Priority(o) ==
    CASE o.type = "fully-reconciled"   -> "low"
      [] o.type = "duplicate-detected" -> "high"
      [] o.type = "mismatch-detected" /\ "cost-conflict" \in o.mismatches -> "high"
      [] OTHER                         -> "medium"

NeedsCase(o) == o.type # "fully-reconciled" \/ o.mismatches # {}

-----------------------------------------------------------------------------
(* Requests: `ids' are the objects asked for (explicitly, or the slice     *)
(* around some roots), none of them for whole planes; `both' when the      *)
(* scope names two planes; `expectations' are [kind, min].  The thresholds *)
(* a request carries are copied into its plan and used nowhere.            *)

\* _fetch_graph_data: with one plane only, every object asked for is a source
FetchSource(ids, both) ==
    IF ids = {} THEN SourceObject
    ELSE Kept(SourceObject, ids) \o (IF both THEN <<>> ELSE Kept(TargetObject, ids))

FetchTarget(ids, both) ==
    IF ids = {} THEN TargetObject ELSE IF both THEN Kept(TargetObject, ids) ELSE <<>>

FetchLinks(ids) ==
    IF ids = {} THEN links
    ELSE Kept(links, {l \in Range(links) : l.source \in ids \/ l.target \in ids})

Execute(r, edge) ==
    LET src == FetchSource(r.ids, r.both)
        tgt == FetchTarget(r.ids, r.both)
        lnks == FetchLinks(r.ids)
        cands == Candidates(src, tgt, lnks)
        outcomes == Assemble(src, tgt, lnks, cands, r.expectations, edge)
    IN  /\ Len(runs) < MaxRuns
        /\ runs' = Append(runs, [src |-> Range(src), tgt |-> Range(tgt), outcomes |-> outcomes,
                                 trace |-> {[pair |-> p, score |-> Score(p, lnks),
                                             hard_fail |-> HardFail(p, lnks)] : p \in Range(cands)}])
        /\ cases' = cases \cup {[run |-> Len(runs) + 1, outcome |-> o, priority |-> Priority(o)] :
                                   o \in {x \in outcomes : NeedsCase(x)}}
        /\ UNCHANGED graphVars

\* the graph is changed by others between runs
EditObject(e) ==
    /\ runs # <<>>
    /\ Len(runs) < MaxRuns
    /\ value' = [value EXCEPT ![e.object][e.field] = e.value]
    /\ UNCHANGED <<links, runs, cases>>

Next ==
    \/ \E r \in Request, edge \in BOOLEAN : Execute(r, edge)
    \/ \E e \in Edit : EditObject(e)

Spec == Init /\ [][Next]_vars

-----------------------------------------------------------------------------
(* Properties *)

TypeOK ==
    /\ value \in [Object -> [Field -> Content(value)]]
    /\ \A i \in DOMAIN links : links[i].type \in LinkType
    /\ Len(runs) <= MaxRuns
    /\ \A c \in cases : c.run \in DOMAIN runs /\ c.outcome \in runs[c.run].outcomes

MatchType == {"fully-reconciled", "candidate-match"}

MatchesOf(run) == {o \in run.outcomes : o.type \in MatchType}
MissingOf(run) == {o \in run.outcomes : o.mismatches \cap {"missing-in-target", "missing-in-source"} # {}}

\* Nothing gets lost between the scorer, the ranking and the classifier, which work on
\* the same candidates separately: a source object of a run is matched or reported
\* missing, never both and never neither.  A target may be neither, and then only
\* because every source it scores with prefers another target.
AccountedIn(run) ==
    LET matched == {<<o.source, o.target>> : o \in MatchesOf(run)}
    IN  /\ \A s \in run.src : (\E p \in matched : p[1] = s)
                                   # (\E o \in MissingOf(run) : o.source = s)
        /\ \A t \in run.tgt :
               LET rivals == {c.pair[1] : c \in {x \in run.trace : x.pair[2] = t /\ x.score > 0}}
               IN  /\ (\E o \in MissingOf(run) : o.target = t) <=> rivals = {}
                   /\ (\A p \in matched : p[2] # t)
                          => \A s \in rivals : \E p \in matched : p[1] = s
ObjectsAccounted == \A i \in DOMAIN runs : AccountedIn(runs[i])

\* A pair with a contradicting or blocking link is never reported as a match, however
\* well its other fields agree: the hard failure of one rule outweighs the sum of the
\* rest, and the source goes to another target or to the missing objects.
NoContradictionIn(run) ==
    \A c \in run.trace : c.hard_fail =>
        \A o \in MatchesOf(run) : <<o.source, o.target>> # c.pair
ContradictedNotMatched == \A i \in DOMAIN runs : NoContradictionIn(runs[i])

\* A match that another candidate comes near to is reported as a duplicate too, in the
\* same run, although matches and duplicates are worked out separately.
ReportedIn(run) ==
    \A o \in MatchesOf(run) :
        LET scores(t) == {c.score : c \in {x \in run.trace : x.pair = <<o.source, t>>}}
        IN  (\E t \in run.tgt \ {o.target} :
                \E m \in scores(o.target), n \in scores(t) : Distance(m, n) < GAP)
            => \E d \in run.outcomes : d.type = "duplicate-detected" /\ d.source = o.source
AmbiguityReported == \A i \in DOMAIN runs : ReportedIn(runs[i])

=============================================================================
