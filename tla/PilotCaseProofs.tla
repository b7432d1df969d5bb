-------------------------- MODULE PilotCaseProofs ---------------------------
(***************************************************************************)
(* Proofs about pilot cases, for every set of cases and timelines of any   *)
(* length.                                                                 *)
(***************************************************************************)
EXTENDS PilotCase, FiniteSetTheorems, TLAPS

Entry == CaseState \cup {"reviewer_assigned"}

CaseTypes ==
    /\ state \in [Case -> CaseState \cup {NoCase}]
    /\ timeline \in [Case -> Seq(Entry)]
    /\ records \in [Case -> [Decided -> Nat]]
    /\ direct \in [Case -> [Decided -> Nat]]

\* The entry at which a case in one of the first stages reached it; before and
\* between these there are only assignments.
AssignedBut(c, S) == \A m \in DOMAIN timeline[c] \ S : timeline[c][m] = "reviewer_assigned"

Created(c) == timeline[c] # <<>> /\ timeline[c][1] = "created"

EvidenceAt(c, i) == Created(c) /\ i \in DOMAIN timeline[c] /\ 1 < i
                    /\ timeline[c][i] = "evidence_ready"

WorkflowAt(c, i, j) == EvidenceAt(c, i) /\ j \in DOMAIN timeline[c] /\ i < j
                       /\ timeline[c][j] = "workflow_executed"

PathInv ==
    \A c \in Case :
        /\ state[c] = NoCase => timeline[c] = <<>>
        /\ state[c] = "created" => Created(c) /\ AssignedBut(c, {1})
        /\ state[c] = "evidence_ready" =>
              \E i \in Nat : EvidenceAt(c, i) /\ AssignedBut(c, {1, i})
        /\ state[c] = "workflow_executed" =>
              \E i, j \in Nat : WorkflowAt(c, i, j) /\ AssignedBut(c, {1, i, j})
        /\ state[c] \in Decided \cup {"validation_completed", "under_review", "exported"} =>
              ThroughValidation(c)

\* A case that is decided has its decision in the timeline, an exported one its
\* approval or override.
InTimelineInv ==
    \A c \in Case :
        /\ \A s \in Decided : state[c] = s => Times(c, s) > 0
        /\ state[c] = "exported" => Times(c, "approved") > 0 \/ Times(c, "overridden") > 0

\* The inductive invariant
CaseInv == CaseTypes /\ PathInv /\ InTimelineInv /\ DecisionsAccounted

-----------------------------------------------------------------------------
(* The timeline *)

\* What Append does to a sequence.
LEMMA AppendFacts ==
    ASSUME NEW S, NEW s \in Seq(S), NEW e \in S
    PROVE  /\ Append(s, e) \in Seq(S)
           /\ Len(s) \in Nat
           /\ DOMAIN s = 1..Len(s)
           /\ DOMAIN Append(s, e) = DOMAIN s \cup {Len(s) + 1}
           /\ Len(s) + 1 \notin DOMAIN s
           /\ \A i \in DOMAIN s : Append(s, e)[i] = s[i]
           /\ Append(s, e)[Len(s) + 1] = e
OBVIOUS

LEMMA EntriesFinite ==
    ASSUME CaseTypes, NEW c \in Case, NEW s
    PROVE  /\ IsFiniteSet({i \in DOMAIN timeline[c] : timeline[c][i] = s})
           /\ Times(c, s) \in Nat
<1>1. timeline[c] \in Seq(Entry)
  BY DEF CaseTypes
<1>2. PICK n \in Nat : DOMAIN timeline[c] = 1..n
  BY <1>1
<1>3. IsFiniteSet(1..n)
  BY FS_Interval
<1>4. {i \in DOMAIN timeline[c] : timeline[c][i] = s} \subseteq 1..n
  BY <1>2
<1>5. IsFiniteSet({i \in DOMAIN timeline[c] : timeline[c][i] = s})
  BY <1>3, <1>4, FS_Subset
<1> QED BY <1>5, FS_CardinalityType DEF Times

\* The timelines after an entry was added to one.
LEMMA EntryFacts ==
    ASSUME CaseTypes, NEW c \in Case, NEW e \in Entry, AppendEntry(c, e)
    PROVE  /\ timeline' \in [Case -> Seq(Entry)]
           /\ \A d \in Case \ {c} : timeline'[d] = timeline[d]
           /\ \E n \in Nat : /\ n = Len(timeline[c]) + 1 /\ n \notin DOMAIN timeline[c]
                             /\ DOMAIN timeline[c] = 1..(n - 1)
                             /\ DOMAIN timeline'[c] = DOMAIN timeline[c] \cup {n}
                             /\ timeline'[c][n] = e
                             /\ \A i \in DOMAIN timeline[c] : timeline'[c][i] = timeline[c][i]
<1>1. timeline[c] \in Seq(Entry)
  BY DEF CaseTypes
<1>2. /\ timeline' = [timeline EXCEPT ![c] = Append(timeline[c], e)]
      /\ timeline'[c] = Append(timeline[c], e)
  BY DEF AppendEntry, CaseTypes
<1>3. timeline' \in [Case -> Seq(Entry)]
  BY <1>1, <1>2, AppendFacts DEF CaseTypes
<1>4. \A d \in Case \ {c} : timeline'[d] = timeline[d]
  BY <1>2 DEF CaseTypes
<1>5. PICK n \in Nat : n = Len(timeline[c]) + 1
  BY <1>1
<1>6. /\ n \notin DOMAIN timeline[c] /\ DOMAIN timeline[c] = 1..(n - 1)
      /\ DOMAIN timeline'[c] = DOMAIN timeline[c] \cup {n}
      /\ timeline'[c][n] = e
      /\ \A i \in DOMAIN timeline[c] : timeline'[c][i] = timeline[c][i]
  BY <1>1, <1>2, <1>5, AppendFacts
<1> QED BY <1>3, <1>4, <1>5, <1>6

\* An entry counts once, for its state and for its case.
LEMMA TimesAppend ==
    ASSUME CaseTypes, NEW c \in Case, NEW e \in Entry, AppendEntry(c, e), NEW d \in Case, NEW s
    PROVE  Times(d, s)' = IF d = c /\ s = e THEN Times(d, s) + 1 ELSE Times(d, s)
<1> DEFINE T(x) == {i \in DOMAIN timeline[x] : timeline[x][i] = s}
<1>1. CASE d # c
  <2>1. timeline'[d] = timeline[d]
    BY <1>1, EntryFacts
  <2> QED BY <1>1, <2>1 DEF Times
<1>2. CASE d = c
  <2>1. PICK n \in Nat : /\ n \notin DOMAIN timeline[c]
                         /\ DOMAIN timeline'[c] = DOMAIN timeline[c] \cup {n}
                         /\ timeline'[c][n] = e
                         /\ \A i \in DOMAIN timeline[c] : timeline'[c][i] = timeline[c][i]
    BY EntryFacts
  <2>2. CASE s = e
    <3>1. T(c)' = T(c) \cup {n} /\ n \notin T(c)
      BY <2>1, <2>2
    <3>2. IsFiniteSet(T(c))
      BY EntriesFinite
    <3>3. Cardinality(T(c)') = Cardinality(T(c)) + 1
      <4> HIDE DEF T
      <4> QED BY <3>1, <3>2, FS_AddElement
    <3> QED BY <1>2, <2>2, <3>3 DEF Times
  <2>3. CASE s # e
    <3>1. T(c)' = T(c)
      BY <2>1, <2>3
    <3> QED BY <1>2, <2>3, <3>1 DEF Times
  <2> QED BY <2>2, <2>3
<1> QED BY <1>1, <1>2

\* Going through the stages is not undone.
LEMMA ValidationStays ==
    ASSUME CaseTypes, NEW c \in Case, NEW e \in Entry, AppendEntry(c, e),
           NEW d \in Case, ThroughValidation(d)
    PROVE  ThroughValidation(d)'
<1>1. CASE d # c
  <2>1. timeline'[d] = timeline[d]
    BY <1>1, EntryFacts
  <2> QED BY <2>1 DEF ThroughValidation
<1>2. CASE d = c
  <2>1. PICK n \in Nat : /\ DOMAIN timeline[c] = 1..(n - 1)
                         /\ DOMAIN timeline'[c] = DOMAIN timeline[c] \cup {n}
                         /\ \A i \in DOMAIN timeline[c] : timeline'[c][i] = timeline[c][i]
    BY EntryFacts
  <2>2. PICK i, j, k \in DOMAIN timeline[c] :
            /\ 1 < i /\ i < j /\ j < k
            /\ timeline[c][1] = "created"
            /\ timeline[c][i] = "evidence_ready"
            /\ timeline[c][j] = "workflow_executed"
            /\ timeline[c][k] = "validation_completed"
            /\ \A m \in 2..k \ {i, j, k} : timeline[c][m] = "reviewer_assigned"
    BY <1>2 DEF ThroughValidation
  <2>3. {i, j, k} \subseteq Nat /\ 1 \in DOMAIN timeline[c]
    BY <2>1, <2>2
  <2>4. 2..k \subseteq DOMAIN timeline[c]
    BY <2>1, <2>2
  <2>5. /\ i \in DOMAIN timeline'[c] /\ j \in DOMAIN timeline'[c] /\ k \in DOMAIN timeline'[c]
        /\ timeline'[c][1] = "created"
        /\ timeline'[c][i] = "evidence_ready"
        /\ timeline'[c][j] = "workflow_executed"
        /\ timeline'[c][k] = "validation_completed"
        /\ \A m \in 2..k \ {i, j, k} : timeline'[c][m] = "reviewer_assigned"
    BY <2>1, <2>2, <2>3, <2>4
  <2> QED BY <1>2, <2>2, <2>5 DEF ThroughValidation
<1> QED BY <1>1, <1>2

-----------------------------------------------------------------------------
(* transition_state *)

\* What VALID_TRANSITIONS says of the way into a state.
LEMMA Predecessors ==
    ASSUME NEW s \in CaseState, NEW t \in VALID_TRANSITIONS[s]
    PROVE  /\ t \in CaseState /\ t # "created"
           /\ t = "evidence_ready" => s = "created"
           /\ t = "workflow_executed" => s = "evidence_ready"
           /\ t = "validation_completed" => s = "workflow_executed"
           /\ t \in Decided \cup {"under_review"} =>
                 s \in Decided \cup {"validation_completed", "under_review"}
           /\ t = "exported" => s \in {"approved", "overridden"}
BY DEF VALID_TRANSITIONS, CaseState, Decided

LEMMA OthersPathKept ==
    ASSUME CaseInv, NEW d \in Case, timeline'[d] = timeline[d], state'[d] = state[d]
    PROVE  /\ state'[d] = NoCase => timeline'[d] = <<>>
           /\ state'[d] = "created" => Created(d)' /\ AssignedBut(d, {1})'
           /\ state'[d] = "evidence_ready" =>
                 \E i \in Nat : EvidenceAt(d, i)' /\ AssignedBut(d, {1, i})'
           /\ state'[d] = "workflow_executed" =>
                 \E i, j \in Nat : WorkflowAt(d, i, j)' /\ AssignedBut(d, {1, i, j})'
           /\ state'[d] \in Decided \cup {"validation_completed", "under_review", "exported"} =>
                 ThroughValidation(d)'
BY DEF CaseInv, PathInv, Created, EvidenceAt, WorkflowAt, AssignedBut, ThroughValidation

LEMMA TransitionPath ==
    ASSUME CaseInv, NEW c \in Case, NEW t, Transition(c, t)
    PROVE  PathInv'
<1>1. CaseTypes
  BY DEF CaseInv
<1>2. /\ state[c] \in CaseState /\ t \in VALID_TRANSITIONS[state[c]] /\ AppendEntry(c, t)
      /\ state'[c] = t /\ \A d \in Case \ {c} : state'[d] = state[d]
  BY <1>1 DEF Transition, CaseTypes
<1>3. t \in CaseState /\ t \in Entry /\ t # NoCase
  BY <1>2, Predecessors DEF Entry, CaseState, NoCase
<1>4. \A d \in Case \ {c} : timeline'[d] = timeline[d]
  BY <1>1, <1>2, <1>3, EntryFacts
<1>5. PICK n \in Nat : /\ n = Len(timeline[c]) + 1 /\ n \notin DOMAIN timeline[c]
                       /\ DOMAIN timeline[c] = 1..(n - 1)
                       /\ DOMAIN timeline'[c] = DOMAIN timeline[c] \cup {n}
                       /\ timeline'[c][n] = t
                       /\ \A i \in DOMAIN timeline[c] : timeline'[c][i] = timeline[c][i]
  BY <1>1, <1>2, <1>3, EntryFacts
<1>6. timeline[c] \in Seq(Entry) /\ timeline'[c] # <<>>
  <2>1. timeline[c] \in Seq(Entry)
    BY <1>1 DEF CaseTypes
  <2>2. n \in DOMAIN timeline'[c] /\ DOMAIN <<>> = {}
    BY <1>5
  <2> QED BY <2>1, <2>2
<1>7. Created(c) => Created(c)' /\ 1 \in DOMAIN timeline[c] /\ n > 1
  <2> SUFFICES ASSUME Created(c) PROVE Created(c)' /\ 1 \in DOMAIN timeline[c] /\ n > 1
    OBVIOUS
  <2>1. 1 \in DOMAIN timeline[c]
    BY <1>6 DEF Created
  <2> QED BY <1>5, <1>6, <2>1 DEF Created
<1>8. t = "evidence_ready" => \E i \in Nat : EvidenceAt(c, i)' /\ AssignedBut(c, {1, i})'
  <2> SUFFICES ASSUME t = "evidence_ready" PROVE EvidenceAt(c, n)' /\ AssignedBut(c, {1, n})'
    OBVIOUS
  <2>1. Created(c) /\ AssignedBut(c, {1})
    BY <1>2, Predecessors DEF CaseInv, PathInv
  <2>2. EvidenceAt(c, n)'
    BY <1>5, <1>7, <2>1 DEF EvidenceAt
  <2>3. AssignedBut(c, {1, n})'
    BY <1>5, <2>1 DEF AssignedBut
  <2> QED BY <2>2, <2>3
<1>9. t = "workflow_executed" =>
          \E i, j \in Nat : WorkflowAt(c, i, j)' /\ AssignedBut(c, {1, i, j})'
  <2> SUFFICES ASSUME t = "workflow_executed"
               PROVE  \E i, j \in Nat : WorkflowAt(c, i, j)' /\ AssignedBut(c, {1, i, j})'
    OBVIOUS
  <2>1. PICK i \in Nat : EvidenceAt(c, i) /\ AssignedBut(c, {1, i})
    BY <1>2, Predecessors DEF CaseInv, PathInv
  <2>2. i \in DOMAIN timeline[c] /\ i < n
    BY <1>5, <2>1 DEF EvidenceAt
  <2>3. WorkflowAt(c, i, n)'
    BY <1>5, <1>7, <2>1, <2>2 DEF WorkflowAt, EvidenceAt
  <2>4. AssignedBut(c, {1, i, n})'
    BY <1>5, <2>1 DEF AssignedBut
  <2> QED BY <2>3, <2>4
<1>10. t = "validation_completed" => ThroughValidation(c)'
  <2> SUFFICES ASSUME t = "validation_completed" PROVE ThroughValidation(c)'
    OBVIOUS
  <2>1. PICK i, j \in Nat : WorkflowAt(c, i, j) /\ AssignedBut(c, {1, i, j})
    BY <1>2, Predecessors DEF CaseInv, PathInv
  <2>2. /\ i \in DOMAIN timeline[c] /\ j \in DOMAIN timeline[c] /\ 1 < i /\ i < j /\ j < n
        /\ 1 \in DOMAIN timeline[c] /\ timeline[c][1] = "created"
        /\ timeline[c][i] = "evidence_ready" /\ timeline[c][j] = "workflow_executed"
    BY <1>5, <1>7, <2>1 DEF WorkflowAt, EvidenceAt, Created
  <2>3. \A m \in 2..n \ {i, j, n} : timeline'[c][m] = "reviewer_assigned"
    <3> SUFFICES ASSUME NEW m \in 2..n \ {i, j, n}
                 PROVE  timeline'[c][m] = "reviewer_assigned"
      OBVIOUS
    <3>1. m \in DOMAIN timeline[c] \ {1, i, j}
      BY <1>5
    <3> QED BY <1>5, <2>1, <3>1 DEF AssignedBut
  <2>4. /\ i \in DOMAIN timeline'[c] /\ j \in DOMAIN timeline'[c] /\ n \in DOMAIN timeline'[c]
        /\ timeline'[c][1] = "created"
        /\ timeline'[c][i] = "evidence_ready"
        /\ timeline'[c][j] = "workflow_executed"
        /\ timeline'[c][n] = "validation_completed"
    BY <1>5, <2>2
  <2> QED BY <2>2, <2>3, <2>4 DEF ThroughValidation
<1>11. t \in Decided \cup {"under_review", "exported"} => ThroughValidation(c)'
  <2>1. t \in Decided \cup {"under_review", "exported"} => ThroughValidation(c)
    BY <1>2, Predecessors DEF CaseInv, PathInv, Decided
  <2> QED BY <1>1, <1>2, <1>3, <2>1, ValidationStays
<1>12. t # "created"
  BY <1>2, Predecessors
<1> SUFFICES ASSUME NEW d \in Case
             PROVE  /\ state'[d] = NoCase => timeline'[d] = <<>>
                    /\ state'[d] = "created" => Created(d)' /\ AssignedBut(d, {1})'
                    /\ state'[d] = "evidence_ready" =>
                          \E i \in Nat : EvidenceAt(d, i)' /\ AssignedBut(d, {1, i})'
                    /\ state'[d] = "workflow_executed" =>
                          \E i, j \in Nat : WorkflowAt(d, i, j)' /\ AssignedBut(d, {1, i, j})'
                    /\ state'[d] \in Decided \cup {"validation_completed", "under_review",
                                                   "exported"} =>
                          ThroughValidation(d)'
  BY DEF PathInv
<1>13. CASE d # c
  BY <1>2, <1>4, <1>13, OthersPathKept
<1>14. CASE d = c
  BY <1>2, <1>3, <1>8, <1>9, <1>10, <1>11, <1>12, <1>14
<1> QED BY <1>13, <1>14

LEMMA TransitionTimes ==
    ASSUME CaseInv, NEW c \in Case, NEW t, Transition(c, t)
    PROVE  InTimelineInv'
<1>1. CaseTypes
  BY DEF CaseInv
<1>2. /\ state[c] \in CaseState /\ t \in VALID_TRANSITIONS[state[c]] /\ AppendEntry(c, t)
      /\ state'[c] = t /\ \A d \in Case \ {c} : state'[d] = state[d]
  BY <1>1 DEF Transition, CaseTypes
<1>3. t \in Entry /\ (t = "exported" => state[c] \in {"approved", "overridden"})
  BY <1>2, Predecessors DEF Entry
<1>4. \A d \in Case, s \in CaseState :
          Times(d, s)' = IF d = c /\ s = t THEN Times(d, s) + 1 ELSE Times(d, s)
  BY <1>1, <1>2, <1>3, TimesAppend
<1>5. \A d \in Case, s \in CaseState : Times(d, s) \in Nat
  BY <1>1, EntriesFinite
<1>6. Decided \subseteq CaseState /\ {"approved", "overridden"} \subseteq Decided
  BY DEF Decided, CaseState
<1>7. \A d \in Case, s \in CaseState : Times(d, s) > 0 => Times(d, s)' > 0
  BY <1>4, <1>5
<1> SUFFICES ASSUME NEW d \in Case
             PROVE  /\ \A s \in Decided : state'[d] = s => Times(d, s)' > 0
                    /\ state'[d] = "exported" => \/ Times(d, "approved")' > 0
                                                 \/ Times(d, "overridden")' > 0
  BY DEF InTimelineInv
<1>8. CASE d # c
  BY <1>2, <1>6, <1>7, <1>8 DEF CaseInv, InTimelineInv
<1>9. CASE d = c
  <2>1. t \in Decided => Times(c, t)' > 0
    BY <1>4, <1>5, <1>6
  <2>2. t = "exported" => Times(c, "approved")' > 0 \/ Times(c, "overridden")' > 0
    BY <1>3, <1>6, <1>7 DEF CaseInv, InTimelineInv
  <2> QED BY <1>2, <1>9, <2>1, <2>2
<1> QED BY <1>8, <1>9

-----------------------------------------------------------------------------
(* The steps *)

LEMMA CaseInit == Init => CaseInv
<1> SUFFICES ASSUME Init PROVE CaseInv
  OBVIOUS
<1>1. CaseTypes
  BY DEF Init, CaseTypes, CaseState
<1>2. PathInv
  BY DEF Init, PathInv, NoCase, Decided
<1>3. InTimelineInv
  BY DEF Init, InTimelineInv, NoCase, Decided
<1>4. DecisionsAccounted
  <2>1. ASSUME NEW c \in Case, NEW d \in Decided PROVE Times(c, d) = records[c][d] + direct[c][d]
    <3>1. {i \in DOMAIN timeline[c] : timeline[c][i] = d} = {}
      BY DEF Init
    <3>2. Times(c, d) = 0
      BY <3>1, FS_EmptySet DEF Times
    <3>3. records[c][d] = 0 /\ direct[c][d] = 0
      BY DEF Init
    <3> QED BY <3>2, <3>3
  <2> QED BY <2>1 DEF DecisionsAccounted
<1> QED BY <1>1, <1>2, <1>3, <1>4 DEF CaseInv

LEMMA CreateKeeps ==
    ASSUME CaseInv, NEW c \in Case, CreateCase(c)
    PROVE  CaseInv'
<1>1. CaseTypes
  BY DEF CaseInv
<1>2. /\ state[c] = NoCase /\ state' = [state EXCEPT ![c] = "created"]
      /\ AppendEntry(c, "created") /\ "created" \in Entry /\ UNCHANGED <<records, direct>>
      /\ state'[c] = "created" /\ \A d \in Case \ {c} : state'[d] = state[d]
  BY <1>1 DEF CreateCase, Entry, CaseState, CaseTypes
<1>3. CaseTypes'
  BY <1>1, <1>2, EntryFacts DEF CaseTypes, CaseState
<1>4. timeline[c] = <<>>
  BY <1>2 DEF CaseInv, PathInv
<1>5. PICK n \in Nat : /\ n = Len(timeline[c]) + 1
                       /\ DOMAIN timeline'[c] = DOMAIN timeline[c] \cup {n}
                       /\ timeline'[c][n] = "created"
  BY <1>1, <1>2, EntryFacts
<1>6. /\ n = 1 /\ DOMAIN timeline'[c] = {1} /\ timeline'[c] # <<>>
  BY <1>4, <1>5
<1>7. Created(c)' /\ AssignedBut(c, {1})'
  BY <1>5, <1>6 DEF Created, AssignedBut
<1>8. \A d \in Case \ {c} : timeline'[d] = timeline[d]
  BY <1>1, <1>2, EntryFacts
<1>9. PathInv'
  BY <1>2, <1>7, <1>8, OthersPathKept DEF PathInv, NoCase, Decided
<1>10. \A d \in Case, s \in Decided : Times(d, s)' = Times(d, s)
  <2>1. "created" \notin Decided
    BY DEF Decided
  <2> QED BY <1>1, <1>2, <2>1, TimesAppend
<1>11. InTimelineInv'
  BY <1>2, <1>10 DEF CaseInv, InTimelineInv, Decided
<1>12. DecisionsAccounted'
  BY <1>2, <1>10 DEF CaseInv, DecisionsAccounted
<1> QED BY <1>3, <1>9, <1>11, <1>12 DEF CaseInv

\* An assignment goes between the stages.
LEMMA AssignKeeps ==
    ASSUME CaseInv, NEW c \in Case, AssignReviewer(c)
    PROVE  CaseInv'
<1>1. CaseTypes
  BY DEF CaseInv
<1> DEFINE e == "reviewer_assigned"
<1>2. /\ state[c] # NoCase /\ AppendEntry(c, e) /\ e \in Entry
      /\ UNCHANGED <<state, records, direct>>
  BY DEF AssignReviewer, Entry
<1>3. CaseTypes'
  BY <1>1, <1>2, EntryFacts DEF CaseTypes
<1>4. PICK n \in Nat : /\ n \notin DOMAIN timeline[c]
                       /\ DOMAIN timeline[c] = 1..(n - 1)
                       /\ DOMAIN timeline'[c] = DOMAIN timeline[c] \cup {n}
                       /\ timeline'[c][n] = e
                       /\ \A i \in DOMAIN timeline[c] : timeline'[c][i] = timeline[c][i]
  BY <1>1, <1>2, EntryFacts
<1>5. \A S : AssignedBut(c, S) => AssignedBut(c, S)'
  BY <1>4 DEF AssignedBut
<1>6. Created(c) => Created(c)'
  <2> SUFFICES ASSUME Created(c) PROVE Created(c)'
    OBVIOUS
  <2>1. timeline[c] \in Seq(Entry)
    BY <1>1 DEF CaseTypes
  <2>2. 1 \in DOMAIN timeline[c]
    BY <2>1 DEF Created
  <2>3. timeline'[c] # <<>>
    <3>1. 1 \in DOMAIN timeline'[c] /\ DOMAIN <<>> = {}
      BY <1>4, <2>2
    <3> QED BY <3>1
  <2> QED BY <1>4, <2>2, <2>3 DEF Created
<1>7. \A i \in Nat : EvidenceAt(c, i) => EvidenceAt(c, i)'
  BY <1>4, <1>6 DEF EvidenceAt
<1>8. \A i, j \in Nat : WorkflowAt(c, i, j) => WorkflowAt(c, i, j)'
  BY <1>4, <1>7 DEF WorkflowAt, EvidenceAt
<1>9. ThroughValidation(c) => ThroughValidation(c)'
  BY <1>1, <1>2, ValidationStays
<1>10. \A d \in Case \ {c} : timeline'[d] = timeline[d]
  BY <1>1, <1>2, EntryFacts
<1>11. PathInv'
  <2> SUFFICES ASSUME NEW d \in Case
               PROVE  /\ state'[d] = NoCase => timeline'[d] = <<>>
                      /\ state'[d] = "created" => Created(d)' /\ AssignedBut(d, {1})'
                      /\ state'[d] = "evidence_ready" =>
                            \E i \in Nat : EvidenceAt(d, i)' /\ AssignedBut(d, {1, i})'
                      /\ state'[d] = "workflow_executed" =>
                            \E i, j \in Nat : WorkflowAt(d, i, j)' /\ AssignedBut(d, {1, i, j})'
                      /\ state'[d] \in Decided \cup {"validation_completed", "under_review",
                                                     "exported"} =>
                            ThroughValidation(d)'
    BY DEF PathInv
  <2>1. CASE d # c
    BY <1>2, <1>10, <2>1, OthersPathKept
  <2>2. CASE d = c
    BY <1>2, <1>5, <1>6, <1>7, <1>8, <1>9, <2>2 DEF CaseInv, PathInv
  <2> QED BY <2>1, <2>2
<1>12. \A d \in Case, s \in Decided : Times(d, s)' = Times(d, s)
  <2>1. e \notin Decided
    BY DEF Decided
  <2> QED BY <1>1, <1>2, <2>1, TimesAppend
<1>13. InTimelineInv'
  BY <1>2, <1>12 DEF CaseInv, InTimelineInv, Decided
<1>14. DecisionsAccounted'
  BY <1>2, <1>12 DEF CaseInv, DecisionsAccounted
<1> QED BY <1>3, <1>11, <1>13, <1>14 DEF CaseInv

\* The transition route and ApprovalService: the decision is counted on one side.
LEMMA MoveKeeps ==
    ASSUME CaseInv, NEW c \in Case, NEW t, Transition(c, t),
           records' \in [Case -> [Decided -> Nat]], direct' \in [Case -> [Decided -> Nat]],
           \A d \in Case, s \in Decided :
               records'[d][s] + direct'[d][s] =
                   IF d = c /\ s = t THEN records[d][s] + direct[d][s] + 1
                                     ELSE records[d][s] + direct[d][s]
    PROVE  CaseInv'
<1>1. CaseTypes
  BY DEF CaseInv
<1>2. /\ state[c] \in CaseState /\ t \in VALID_TRANSITIONS[state[c]] /\ AppendEntry(c, t)
      /\ state' = [state EXCEPT ![c] = t]
  BY <1>1 DEF Transition, CaseTypes
<1>3. t \in CaseState /\ t \in Entry
  BY <1>2, Predecessors DEF Entry
<1>4. CaseTypes'
  BY <1>1, <1>2, <1>3, EntryFacts DEF CaseTypes
<1>5. \A d \in Case, s \in Decided :
          Times(d, s)' = IF d = c /\ s = t THEN Times(d, s) + 1 ELSE Times(d, s)
  BY <1>1, <1>2, <1>3, TimesAppend
<1>6. DecisionsAccounted'
  BY <1>5 DEF CaseInv, DecisionsAccounted
<1> QED BY <1>4, <1>6, TransitionPath, TransitionTimes DEF CaseInv

LEMMA RouteKeeps ==
    ASSUME CaseInv, NEW c \in Case, NEW t \in CaseState, TransitionRoute(c, t)
    PROVE  CaseInv'
<1>1. records \in [Case -> [Decided -> Nat]] /\ direct \in [Case -> [Decided -> Nat]]
  BY DEF CaseInv, CaseTypes
<1>2. /\ Transition(c, t) /\ records' = records
      /\ direct' = IF t \in Decided THEN [direct EXCEPT ![c][t] = @ + 1] ELSE direct
  BY DEF TransitionRoute
<1>3. direct' \in [Case -> [Decided -> Nat]]
  BY <1>1, <1>2
<1>4. \A d \in Case, s \in Decided :
          records'[d][s] + direct'[d][s] =
              IF d = c /\ s = t THEN records[d][s] + direct[d][s] + 1
                                ELSE records[d][s] + direct[d][s]
  BY <1>1, <1>2
<1> QED BY <1>1, <1>2, <1>3, <1>4, MoveKeeps

LEMMA DecideKeeps ==
    ASSUME CaseInv, NEW c \in Case, NEW t \in Decided, Decide(c, t)
    PROVE  CaseInv'
<1>1. records \in [Case -> [Decided -> Nat]] /\ direct \in [Case -> [Decided -> Nat]]
  BY DEF CaseInv, CaseTypes
<1>2. /\ Transition(c, t) /\ direct' = direct
      /\ records' = [records EXCEPT ![c][t] = @ + 1]
  BY DEF Decide
<1>3. records' \in [Case -> [Decided -> Nat]]
  BY <1>1, <1>2
<1>4. \A d \in Case, s \in Decided :
          records'[d][s] + direct'[d][s] =
              IF d = c /\ s = t THEN records[d][s] + direct[d][s] + 1
                                ELSE records[d][s] + direct[d][s]
  BY <1>1, <1>2
<1> QED BY <1>1, <1>2, <1>3, <1>4, MoveKeeps

LEMMA CaseStutters ==
    ASSUME CaseInv, UNCHANGED <<caseVars, records, direct>>
    PROVE  CaseInv'
<1>1. UNCHANGED <<state, timeline, records, direct>>
  BY DEF caseVars
<1>2. CaseTypes'
  BY <1>1 DEF CaseInv, CaseTypes
<1>3. PathInv'
  BY <1>1, OthersPathKept DEF PathInv
<1>4. InTimelineInv' /\ DecisionsAccounted'
  BY <1>1 DEF CaseInv, InTimelineInv, DecisionsAccounted, Times
<1> QED BY <1>2, <1>3, <1>4 DEF CaseInv

LEMMA CaseStep == CaseInv /\ [Next]_vars => CaseInv'
<1> SUFFICES ASSUME CaseInv, [Next]_vars PROVE CaseInv'
  OBVIOUS
<1>1. ASSUME NEW c \in Case,
             \/ CreateReview(c)
             \/ \E outcome \in ReviewOutcome : AddDecision(c, outcome)
             \/ \E outcome \in ReviewOutcome, o \in BOOLEAN : RunReview(c, outcome, o)
             \/ ExportCase(c)
      PROVE  UNCHANGED <<caseVars, records, direct>>
  BY <1>1 DEF CreateReview, AddDecision, RunReview, ExportCase
<1>2. CASE UNCHANGED vars
  BY <1>2, CaseStutters DEF vars
<1> QED
  BY <1>1, <1>2, CreateKeeps, AssignKeeps, RouteKeeps, DecideKeeps, CaseStutters DEF Next

LEMMA CaseInvariant == Spec => []CaseInv
BY CaseInit, CaseStep, PTL DEF Spec

-----------------------------------------------------------------------------
(* The results *)

(***************************************************************************)
(* transition_state lets no case be approved, overridden, escalated or     *)
(* exported that has not gone through evidence, workflow and validation in *)
(* this order, nor exported that was neither approved nor overridden,      *)
(* whatever routes are called between.                                     *)
(***************************************************************************)
THEOREM NothingDecidedUnvalidated == Spec => []DecidedAfterValidation
<1>1. CaseInv => DecidedAfterValidation
  <2> SUFFICES ASSUME CaseInv, NEW c \in Case
               PROVE  /\ state[c] \in Decided \cup {"exported"} => ThroughValidation(c)
                      /\ state[c] = "exported" =>
                            Times(c, "approved") + Times(c, "overridden") > 0
    BY DEF DecidedAfterValidation
  <2>1. state[c] \in Decided \cup {"exported"} => ThroughValidation(c)
    BY DEF CaseInv, PathInv
  <2>2. Times(c, "approved") \in Nat /\ Times(c, "overridden") \in Nat
    BY EntriesFinite DEF CaseInv
  <2>3. state[c] = "exported" => Times(c, "approved") + Times(c, "overridden") > 0
    BY <2>2 DEF CaseInv, InTimelineInv
  <2> QED BY <2>1, <2>3
<1> QED BY <1>1, CaseInvariant, PTL

(***************************************************************************)
(* Every decision in a timeline has its record in ApprovalService or was   *)
(* made through the transition route, and no record is without one.        *)
(***************************************************************************)
THEOREM EveryDecisionAccounted == Spec => []DecisionsAccounted
<1>1. CaseInv => DecisionsAccounted
  BY DEF CaseInv
<1> QED BY <1>1, CaseInvariant, PTL

(***************************************************************************)
(* The case report's approval_type is a decision the case really had, and  *)
(* none graver was made through ApprovalService, in any order of approvals,*)
(* overrides and escalations.                                              *)
(***************************************************************************)
THEOREM GravestReported == Spec => []ReportShowsGravest
<1>1. CaseInv => ReportShowsGravest
  <2> SUFFICES ASSUME CaseInv, NEW c \in Case
               PROVE  /\ ApprovalType(c) # Nothing => Times(c, ApprovalType(c)) > 0
                      /\ \A d \in Decided : /\ Times(c, d) > 0
                                             /\ Severity(d) > Severity(ApprovalType(c))
                                             => direct[c][d] = Times(c, d)
    BY DEF ReportShowsGravest
  <2>1. \A d \in Decided : /\ records[c][d] \in Nat /\ direct[c][d] \in Nat
                           /\ Times(c, d) = records[c][d] + direct[c][d]
    BY DEF CaseInv, CaseTypes, DecisionsAccounted
  <2>2. ApprovalType(c) # Nothing =>
            ApprovalType(c) \in Decided /\ records[c][ApprovalType(c)] > 0
    BY DEF ApprovalType, Decided, Nothing
  <2>3. ApprovalType(c) # Nothing => Times(c, ApprovalType(c)) > 0
    BY <2>1, <2>2
  <2>4. ASSUME NEW d \in Decided, Severity(d) > Severity(ApprovalType(c))
        PROVE  ~(records[c][d] > 0)
    <3>1. /\ Severity("escalated") = 3 /\ Severity("overridden") = 2
          /\ Severity("approved") = 1 /\ Severity(Nothing) = 0
      BY DEF Severity, Nothing
    <3>2. /\ records[c]["escalated"] > 0 => ApprovalType(c) = "escalated"
          /\ records[c]["overridden"] > 0 => ApprovalType(c) \in {"escalated", "overridden"}
          /\ records[c]["approved"] > 0 =>
                ApprovalType(c) \in {"escalated", "overridden", "approved"}
      BY DEF ApprovalType
    <3>3. CASE d = "escalated"
      BY <2>4, <3>1, <3>2, <3>3
    <3>4. CASE d = "overridden"
      BY <2>4, <3>1, <3>2, <3>4
    <3>5. CASE d = "approved"
      BY <2>4, <3>1, <3>2, <3>5
    <3> QED BY <3>3, <3>4, <3>5 DEF Decided
  <2>5. ASSUME NEW d \in Decided, Severity(d) > Severity(ApprovalType(c))
        PROVE  direct[c][d] = Times(c, d)
    BY <2>1, <2>4, <2>5
  <2> QED BY <2>3, <2>5
<1> QED BY <1>1, CaseInvariant, PTL
=============================================================================
