------------------------ MODULE ReconciliationProofs ------------------------
(***************************************************************************)
(* What the runs of the wave-2 reconciliation report, for all objects,     *)
(* keys, links and requests, proved.                                       *)
(***************************************************************************)
EXTENDS Reconciliation, FiniteSetTheorems, SequenceTheorems, WellFoundedInduction, TLAPS

-----------------------------------------------------------------------------
(* Numbers and sequences.                                                  *)

\* A set of numbers that is not empty has a first one.
LEMMA LeastExists ==
    ASSUME NEW s \in SUBSET Nat, s # {}
    PROVE  \E i \in s : \A j \in s : i <= j
<1>1. PICK i \in s : \A j \in s : <<j, i>> \notin OpToRel(<, Nat)
  BY NatLessThanWellFounded, WFMin
<1>2. \A m, n \in Nat : m < n => <<m, n>> \in OpToRel(<, Nat)
  BY Zenon DEF OpToRel
<1>3. \A j \in s : ~(j < i)
  BY <1>1, <1>2, Zenon
<1>4. \A j \in s : i <= j
  BY <1>3
<1> QED BY <1>4

\* A function on the first n numbers is a sequence.
LEMMA FunctionIsSeq ==
    ASSUME NEW S, NEW n \in Nat, NEW f \in [1..n -> S]
    PROVE  f \in Seq(S)
OBVIOUS

\* The parts of a sequence of sequences joined up to the n-th one, as FlattenSeq does it.
Joins(f, seqs, n) == f = [i \in 1..n |-> IF i = 1 THEN seqs[i] ELSE f[i-1] \o seqs[i]]

\* There is such a function, however many parts there are.
LEMMA JoinsExists ==
    ASSUME NEW seqs, NEW n \in Nat, n > 0
    PROVE  \E f : Joins(f, seqs, n)
<1> DEFINE bad == {m \in 1..n : ~\E f : Joins(f, seqs, m)}
<1> SUFFICES ASSUME bad # {} PROVE FALSE
  OBVIOUS
<1>1. bad \in SUBSET Nat
  OBVIOUS
<1>2. PICK m \in bad : \A j \in bad : m <= j
  BY <1>1, LeastExists
<1>3. m # 1
  <2>1. Joins([i \in 1..1 |-> seqs[1]], seqs, 1)
    BY DEF Joins
  <2> QED BY <2>1
<1>4. m \in 1..n /\ m - 1 \in 1..n
  BY <1>3
<1>5. m - 1 \notin bad
  <2> HIDE DEF bad
  <2> QED BY <1>2, <1>4
<1>6. PICK g : Joins(g, seqs, m - 1)
  BY <1>4, <1>5
<1> DEFINE f == [i \in 1..m |-> IF i = 1 THEN seqs[1] ELSE g[i-1] \o seqs[i]]
<1>7. \A i \in 1..(m - 1) : f[i] = g[i]
  <2> SUFFICES ASSUME NEW i \in 1..(m - 1) PROVE f[i] = g[i]
    OBVIOUS
  <2>1. g[i] = IF i = 1 THEN seqs[i] ELSE g[i-1] \o seqs[i]
    BY <1>6, Zenon DEF Joins
  <2>2. i \in 1..m
    BY <1>4
  <2> QED BY <2>1, <2>2
<1>8. \A i \in 1..m : f[i] = IF i = 1 THEN seqs[i] ELSE f[i-1] \o seqs[i]
  <2> SUFFICES ASSUME NEW i \in 1..m, i # 1 PROVE f[i] = f[i-1] \o seqs[i]
    OBVIOUS
  <2>1. i - 1 \in 1..(m - 1)
    BY <1>4
  <2>2. f[i] = g[i-1] \o seqs[i]
    OBVIOUS
  <2> HIDE DEF f
  <2> QED BY <1>7, <2>1, <2>2
<1>9. Joins(f, seqs, m)
  <2>1. f = [i \in 1..m |-> f[i]]
    OBVIOUS
  <2> HIDE DEF f
  <2> QED BY <1>8, <2>1 DEF Joins
<1> QED BY <1>9

\* Joining sequences of elements of a set gives a sequence of elements of that set.
LEMMA FlattenIsSeq ==
    ASSUME NEW S, NEW seqs \in Seq(Seq(S))
    PROVE  FlattenSeq(seqs) \in Seq(S)
<1>1. CASE Len(seqs) = 0
  BY <1>1 DEF FlattenSeq
<1>2. CASE Len(seqs) # 0
  <2>1. PICK n \in Nat : n = Len(seqs) /\ n > 0
    BY <1>2
  <2>2. PICK f : f = CHOOSE g : Joins(g, seqs, n)
    OBVIOUS
  <2>3. Joins(f, seqs, n)
    BY <2>1, <2>2, JoinsExists
  <2>4. FlattenSeq(seqs) = f[n]
    BY <2>1, <2>2 DEF FlattenSeq, Joins
  <2>5. \A i \in 1..n : f[i] = IF i = 1 THEN seqs[i] ELSE f[i-1] \o seqs[i]
    BY <2>3, Zenon DEF Joins
  <2> DEFINE bad == {m \in 1..n : f[m] \notin Seq(S)}
  <2>6. bad = {}
    <3> SUFFICES ASSUME bad # {} PROVE FALSE
      OBVIOUS
    <3>1. bad \in SUBSET Nat
      OBVIOUS
    <3>2. PICK m \in bad : \A j \in bad : m <= j
      BY <3>1, LeastExists
    <3>3. seqs[m] \in Seq(S)
      BY <2>1
    <3>4. m # 1
      BY <2>5, <3>3
    <3>5. m - 1 \in 1..n
      BY <3>4
    <3>6. m - 1 \notin bad
      <4> HIDE DEF bad
      <4> QED BY <3>1, <3>2, <3>5
    <3>7. f[m - 1] \in Seq(S)
      BY <3>5, <3>6
    <3>8. f[m] = f[m - 1] \o seqs[m]
      BY <2>5, <3>4
    <3>9. f[m] \in Seq(S)
      <4> HIDE DEF bad
      <4> QED BY <3>3, <3>7, <3>8, ConcatProperties
    <3> QED BY <3>9
  <2> QED BY <2>1, <2>4, <2>6
<1> QED BY <1>1, <1>2

\* What is kept of a sequence is a sequence of its elements.
LEMMA KeptIsSeq ==
    ASSUME NEW S, NEW T, NEW seq \in Seq(S)
    PROVE  Kept(seq, T) \in Seq(S \cap T)
<1> DEFINE parts == [i \in DOMAIN seq |-> IF seq[i] \in T THEN <<seq[i]>> ELSE <<>>]
<1>1. DOMAIN seq = 1..Len(seq) /\ Len(seq) \in Nat
  OBVIOUS
<1>2. \A i \in DOMAIN seq : parts[i] \in Seq(S \cap T)
  <2> SUFFICES ASSUME NEW i \in DOMAIN seq PROVE parts[i] \in Seq(S \cap T)
    OBVIOUS
  <2>1. CASE seq[i] \in T
    <3>1. seq[i] \in S \cap T /\ parts[i] = <<seq[i]>>
      BY <2>1
    <3> QED BY <3>1
  <2>2. CASE seq[i] \notin T
    BY <2>2
  <2> QED BY <2>1, <2>2
<1>3. parts \in Seq(Seq(S \cap T))
  <2>1. parts \in [1..Len(seq) -> Seq(S \cap T)]
    BY <1>1, <1>2
  <2> HIDE DEF parts
  <2> QED BY <1>1, <2>1, FunctionIsSeq
<1>4. Kept(seq, T) = FlattenSeq(parts)
  BY Zenon DEF Kept
<1> HIDE DEF parts
<1> QED BY <1>3, <1>4, FlattenIsSeq

\* The pairs found by a field, and by a link, are pairs of the two planes.
LEMMA PairsIsSeq ==
    ASSUME NEW S, NEW T, NEW F, NEW src \in Seq(S), NEW tgt \in Seq(T), NEW fields \in Seq(F)
    PROVE  Pairs(fields, src, tgt) \in Seq(S \X T)
<1> DEFINE sharing(f) == {p \in Range(src) \X Range(tgt) : Same(p, f)}
           row(s) == [i \in DOMAIN tgt |-> <<s, tgt[i]>>]
           ofField(s, f) == Kept(row(s), sharing(f))
           ofFields(s) == [i \in DOMAIN fields |-> ofField(s, fields[i])]
           ofSource(s) == FlattenSeq(ofFields(s))
           all == [i \in DOMAIN src |-> ofSource(src[i])]
<1>1. \A s \in S : row(s) \in Seq(S \X T)
  <2> SUFFICES ASSUME NEW s \in S PROVE row(s) \in Seq(S \X T)
    OBVIOUS
  <2>1. \A i \in DOMAIN tgt : tgt[i] \in T
    OBVIOUS
  <2>2. row(s) \in [1..Len(tgt) -> S \X T] /\ Len(tgt) \in Nat
    BY <2>1
  <2> HIDE DEF row
  <2> QED BY <2>2, FunctionIsSeq
<1>2. \A s \in S : \A f : ofField(s, f) \in Seq(S \X T)
  <2> SUFFICES ASSUME NEW s \in S, NEW f PROVE ofField(s, f) \in Seq(S \X T)
    OBVIOUS
  <2>1. PICK r, sh : r = row(s) /\ sh = sharing(f)
    OBVIOUS
  <2>2. Kept(r, sh) \in Seq((S \X T) \cap sh)
    BY <1>1, <2>1, KeptIsSeq
  <2>3. (S \X T) \cap sh \subseteq S \X T
    OBVIOUS
  <2>4. Kept(r, sh) \in Seq(S \X T)
    BY <2>2, <2>3, SeqMonotonic
  <2> QED BY <2>1, <2>4, Zenon
<1> HIDE DEF ofField
<1>3. \A s \in S : ofSource(s) \in Seq(S \X T)
  <2> SUFFICES ASSUME NEW s \in S PROVE ofSource(s) \in Seq(S \X T)
    OBVIOUS
  <2>1. ofFields(s) \in [1..Len(fields) -> Seq(S \X T)] /\ Len(fields) \in Nat
    BY <1>2
  <2> HIDE DEF ofFields
  <2>2. ofFields(s) \in Seq(Seq(S \X T))
    BY <2>1, FunctionIsSeq
  <2> QED BY <2>2, FlattenIsSeq
<1> HIDE DEF ofSource
<1>4. all \in Seq(Seq(S \X T))
  <2>1. \A i \in DOMAIN src : src[i] \in S
    OBVIOUS
  <2>2. all \in [1..Len(src) -> Seq(S \X T)] /\ Len(src) \in Nat
    BY <1>3, <2>1
  <2> HIDE DEF all
  <2> QED BY <2>2, FunctionIsSeq
<1>5. Pairs(fields, src, tgt) = FlattenSeq(all)
  BY Zenon DEF Pairs, all, ofSource, ofField
<1> HIDE DEF all
<1> QED BY <1>4, <1>5, FlattenIsSeq

LEMMA LinkedIsSeq ==
    ASSUME NEW S, NEW T, NEW L, NEW src \in Seq(S), NEW tgt \in Seq(T), NEW lnks \in Seq(L)
    PROVE  Linked(src, tgt, lnks) \in Seq(S \X T)
<1> DEFINE ways(l) == <<<<l.source, l.target>>, <<l.target, l.source>>>>
           one(l) == Kept(ways(l), Range(src) \X Range(tgt))
           all == [i \in DOMAIN lnks |-> one(lnks[i])]
<1>1. Range(src) \subseteq S /\ Range(tgt) \subseteq T
  BY DEF Range
<1>2. \A l : one(l) \in Seq(S \X T)
  <2> SUFFICES ASSUME NEW l PROVE one(l) \in Seq(S \X T)
    OBVIOUS
  <2>1. PICK w, sh : w = ways(l) /\ sh = Range(src) \X Range(tgt)
    OBVIOUS
  <2>2. PICK a, b : a = <<l.source, l.target>> /\ b = <<l.target, l.source>>
    OBVIOUS
  <2>3. w \in Seq({a, b})
    BY <2>1, <2>2
  <2>4. Kept(w, sh) \in Seq({a, b} \cap sh)
    BY <2>3, KeptIsSeq
  <2>5. {a, b} \cap sh \subseteq S \X T
    BY <1>1, <2>1
  <2>6. Kept(w, sh) \in Seq(S \X T)
    BY <2>4, <2>5, SeqMonotonic
  <2> QED BY <2>1, <2>6, Zenon
<1> HIDE DEF one
<1>3. all \in Seq(Seq(S \X T))
  <2>1. all \in [1..Len(lnks) -> Seq(S \X T)] /\ Len(lnks) \in Nat
    BY <1>2
  <2> HIDE DEF all
  <2> QED BY <2>1, FunctionIsSeq
<1>4. Linked(src, tgt, lnks) = FlattenSeq(all)
  BY Zenon DEF Linked, all, one
<1> HIDE DEF all
<1> QED BY <1>3, <1>4, FlattenIsSeq

\* A list of candidates: finitely many places, each with a pair of the two planes.
CandidateList(cands, S, T) ==
    /\ DOMAIN cands \in SUBSET Nat
    /\ IsFiniteSet(DOMAIN cands)
    /\ \A i \in DOMAIN cands : cands[i] \in S \X T

LEMMA CandidatesAreList ==
    ASSUME NEW S, NEW T, NEW L, NEW src \in Seq(S), NEW tgt \in Seq(T), NEW lnks \in Seq(L)
    PROVE  CandidateList(Candidates(src, tgt, lnks), S, T)
<1> DEFINE found == Linked(src, tgt, lnks) \o Pairs(Key, src, tgt) \o Pairs(Ref, src, tgt)
           first == {k \in DOMAIN found : ~\E j \in DOMAIN found : j < k /\ found[j] = found[k]}
<1>1. PICK a, b, c \in Seq(S \X T) : /\ a = Linked(src, tgt, lnks)
                                     /\ b = Pairs(Key, src, tgt)
                                     /\ c = Pairs(Ref, src, tgt)
  BY LinkedIsSeq, PairsIsSeq, ListsAssumption
<1>2. found \in Seq(S \X T)
  <2>1. (a \o b) \in Seq(S \X T)
    BY ConcatProperties
  <2>2. (a \o b) \o c \in Seq(S \X T)
    BY <2>1, ConcatProperties
  <2> QED BY <1>1, <2>2
<1>3. Candidates(src, tgt, lnks) = [i \in first |-> found[i]]
  BY Zenon DEF Candidates
<1> HIDE DEF found
<1>4. DOMAIN found = 1..Len(found) /\ Len(found) \in Nat /\ \A i \in DOMAIN found : found[i] \in S \X T
  BY <1>2
<1>5. first \subseteq 1..Len(found)
  BY <1>4
<1>6. IsFiniteSet(first)
  <2>1. IsFiniteSet(1..Len(found))
    BY <1>4, FS_Interval
  <2> QED BY <1>5, <2>1, FS_Subset
<1>7. first \in SUBSET Nat /\ \A i \in first : found[i] \in S \X T
  BY <1>4
<1> HIDE DEF first
<1> QED BY <1>3, <1>6, <1>7 DEF CandidateList

-----------------------------------------------------------------------------
(* Scores.                                                                 *)

LEMMA MatchingIsNat ==
    ASSUME NEW p, NEW fields, fields \in Seq(Range(fields))
    PROVE  Matching(p, fields) \in Nat
<1>1. PICK n \in Nat : DOMAIN fields = 1..n
  OBVIOUS
<1>2. IsFiniteSet(Range(fields))
  <2>1. IsFiniteSet(1..n)
    BY FS_Interval
  <2>2. fields \in Surjection(1..n, Range(fields))
    BY <1>1 DEF Surjection, Range
  <2> QED BY <2>1, <2>2, FS_Surjection
<1>3. IsFiniteSet({f \in Range(fields) : Same(p, f)})
  BY <1>2, FS_Subset
<1> QED BY <1>3, FS_CardinalityType DEF Matching

LEMMA LinkScoreIs ==
    ASSUME NEW type
    PROVE  LinkScore(type) \in {30, 50, 60, 70, 80, 90}
<1>1. DOMAIN SCORING_LINK_TYPES = {"correlates_with", "fulfills", "bills_for", "derives_from",
                                   "evidences", "implements"}
      /\ SCORING_LINK_TYPES["correlates_with"] = 80 /\ SCORING_LINK_TYPES["fulfills"] = 90
      /\ SCORING_LINK_TYPES["bills_for"] = 90 /\ SCORING_LINK_TYPES["derives_from"] = 60
      /\ SCORING_LINK_TYPES["evidences"] = 50 /\ SCORING_LINK_TYPES["implements"] = 70
  BY DEF SCORING_LINK_TYPES
<1> QED BY <1>1 DEF LinkScore

LEMMA TopologyBounds ==
    ASSUME NEW p, NEW lnks
    PROVE  Topology(p, lnks) \in 0..180
<1> DEFINE scores == {LinkScore(lnks[i].type) : i \in Between(p, lnks)}
           best == CHOOSE m \in scores : \A n \in scores : n <= m
<1>1. scores \subseteq {30, 50, 60, 70, 80, 90}
  BY LinkScoreIs
<1>2. Topology(p, lnks) = IF scores = {} \/ HardFail(p, lnks) THEN 0
                          ELSE (best * Weight.topology) \div 100
  BY DEF Topology
<1>3. Weight.topology = 180
  BY DEF Weight
<1> HIDE DEF scores
<1>4. CASE scores # {}
  <2>1. \E m \in scores : \A n \in scores : n <= m
    <3>1. CASE 90 \in scores
      BY <1>1, <3>1
    <3>2. CASE 90 \notin scores /\ 80 \in scores
      BY <1>1, <3>2
    <3>3. CASE 90 \notin scores /\ 80 \notin scores /\ 70 \in scores
      BY <1>1, <3>3
    <3>4. CASE 90 \notin scores /\ 80 \notin scores /\ 70 \notin scores /\ 60 \in scores
      BY <1>1, <3>4
    <3>5. CASE scores \subseteq {30, 50} /\ 50 \in scores
      BY <3>5
    <3>6. CASE scores \subseteq {30}
      <4>1. scores = {30}
        BY <1>4, <3>6
      <4> QED BY <4>1
    <3> QED BY <1>1, <3>1, <3>2, <3>3, <3>4, <3>5, <3>6
  <2>2. best \in scores
    BY <2>1
  <2>3. best \in {30, 50, 60, 70, 80, 90}
    BY <1>1, <2>2
  <2> HIDE DEF best
  <2>4. (best * 180) \div 100 \in 0..180
    BY <2>3
  <2> QED BY <1>2, <1>3, <2>4
<1> QED BY <1>2, <1>4

\* Every candidate's score is a number between nothing and the sum of the weights.
LEMMA ScoreBounds ==
    ASSUME NEW p, NEW lnks
    PROVE  Score(p, lnks) \in 0..MAX_POSSIBLE
<1>1. /\ Weight.identity = 200 /\ Weight.external = 150 /\ Weight.state = 100
      /\ Weight.quantity = 120 /\ Weight.cost = 150 /\ Weight.chronology = 80
      /\ Weight.coverage = 100 /\ Weight.evidence = 80
  BY DEF Weight
<1>2. Identity(p) \in 0..200
  <2>1. 100 * Matching(p, Key) \in Nat
    BY MatchingIsNat, ListsAssumption
  <2>2. PICK n \in Nat : n = 100 * Matching(p, Key)
    BY <2>1
  <2>3. Identity(p) = AtMost(n, 200)
    BY <1>1, <2>2 DEF Identity
  <2> QED BY <2>3 DEF AtMost
<1>3. External(p) \in 0..150
  <2>1. 60 * Matching(p, Ref) \in Nat
    BY MatchingIsNat, ListsAssumption
  <2>2. PICK n \in Nat : n = 60 * Matching(p, Ref)
    BY <2>1
  <2>3. External(p) = AtMost(n, 150)
    BY <1>1, <2>2 DEF External
  <2> QED BY <2>3 DEF AtMost
<1>4. Topology(p, lnks) \in 0..180
  BY TopologyBounds
<1>5. StateAlignment(p) \in 0..100
  BY <1>1 DEF StateAlignment
<1>6. /\ QuantityAlignment(p) \in 0..120 /\ CostAlignment(p) \in 0..150
      /\ ChronologyAlignment(p) \in 0..80 /\ CoverageExpectation(p, lnks) \in 0..100
      /\ (IF HasEvidence(p) THEN Weight.evidence ELSE 0) \in 0..80
  BY <1>1 DEF QuantityAlignment, CostAlignment, ChronologyAlignment, CoverageExpectation
<1>7. Total(p, lnks) \in 0..1160
  <2>1. PICK a \in 0..200, b \in 0..150, c \in 0..180, d \in 0..100, e \in 0..120 :
          /\ a = Identity(p) /\ b = External(p) /\ c = Topology(p, lnks)
          /\ d = StateAlignment(p) /\ e = QuantityAlignment(p)
    BY <1>2, <1>3, <1>4, <1>5, <1>6
  <2>2. PICK f \in 0..150, g \in 0..80, h \in 0..100 :
          f = CostAlignment(p) /\ g = ChronologyAlignment(p) /\ h = CoverageExpectation(p, lnks)
    BY <1>6
  <2> DEFINE i == IF HasEvidence(p) THEN Weight.evidence ELSE 0
  <2>5. i \in 0..80
    BY <1>6
  <2>3. Total(p, lnks) = a + b + c + d + e + f + g + h + i
    BY <2>1, <2>2, Zenon DEF Total
  <2> HIDE DEF i
  <2>4. a + b + c + d + e + f + g + h + i \in 0..1160
    BY <2>5
  <2> QED BY <2>3, <2>4
<1> QED BY <1>7 DEF Score, MAX_POSSIBLE

LEMMA ScoreIsNat == \A p, lnks : Score(p, lnks) \in Nat /\ Score(p, lnks) <= 1160
<1> SUFFICES ASSUME NEW p, NEW lnks PROVE Score(p, lnks) \in Nat /\ Score(p, lnks) <= 1160
  OBVIOUS
<1>1. Score(p, lnks) \in 0..1160
  BY ScoreBounds DEF MAX_POSSIBLE
<1> QED BY <1>1

-----------------------------------------------------------------------------
(* Ranking.                                                                *)

\* There is a best candidate of every source that has one, and Top is it.
LEMMA TopIsBest ==
    ASSUME NEW S, NEW T, NEW cands, NEW lnks, CandidateList(cands, S, T),
           NEW s \in Sources(cands)
    PROVE  \E i \in OfSource(s, cands) :
               /\ Top(s, cands, lnks) = cands[i]
               /\ \A j \in OfSource(s, cands) : Score(cands[j], lnks) <= Score(cands[i], lnks)
<1> DEFINE mine == OfSource(s, cands)
           sc(i) == Score(cands[i], lnks)
           short == {1160 - sc(i) : i \in mine}
           Wins(i) == \A j \in mine : sc(j) < sc(i) \/ (sc(j) = sc(i) /\ i <= j)
<1>1. mine # {} /\ mine \in SUBSET Nat
  BY DEF OfSource, Sources, CandidateList
<1>2. \A i \in mine : sc(i) \in Nat /\ sc(i) <= 1160
  BY ScoreIsNat
<1>3. Top(s, cands, lnks) = cands[CHOOSE i \in mine : Wins(i)]
  BY Zenon DEF Top
<1> HIDE DEF mine, sc
<1>4. PICK b \in mine : \A j \in mine : sc(j) <= sc(b)
  <2>1. short # {} /\ short \in SUBSET Nat
    <3>1. ASSUME NEW i \in mine PROVE 1160 - sc(i) \in Nat
      <4>1. sc(i) \in Nat /\ sc(i) <= 1160
        BY <1>2
      <4> QED BY <4>1
    <3>2. PICK k : k \in mine
      BY <1>1
    <3> QED BY <3>1, <3>2
  <2>2. PICK g \in short : \A h \in short : g <= h
    BY <2>1, LeastExists
  <2>3. PICK b \in mine : g = 1160 - sc(b)
    BY <2>2
  <2>4. \A j \in mine : 1160 - sc(b) <= 1160 - sc(j)
    BY <2>2, <2>3
  <2>5. \A j \in mine : sc(j) <= sc(b)
    <3> SUFFICES ASSUME NEW j \in mine PROVE sc(j) <= sc(b)
      OBVIOUS
    <3>1. sc(j) \in Nat /\ sc(b) \in Nat /\ 1160 - sc(b) <= 1160 - sc(j)
      BY <1>2, <2>4
    <3> QED BY <3>1
  <2> QED BY <2>5
<1>5. PICK i \in mine : Wins(i)
  <2> DEFINE best == {k \in mine : sc(k) = sc(b)}
  <2>1. best # {} /\ best \in SUBSET Nat
    BY <1>1
  <2>2. PICK i \in best : \A k \in best : i <= k
    BY <2>1, LeastExists
  <2>3. Wins(i)
    <3> SUFFICES ASSUME NEW j \in mine PROVE sc(j) < sc(i) \/ (sc(j) = sc(i) /\ i <= j)
      OBVIOUS
    <3>1. sc(i) = sc(b) /\ sc(j) <= sc(b)
      BY <1>4, <2>2
    <3>2. CASE sc(j) = sc(b)
      BY <2>2, <3>1, <3>2
    <3>3. CASE sc(j) # sc(b)
      <4>1. sc(j) \in Nat /\ sc(b) \in Nat /\ sc(j) <= sc(b) /\ sc(j) # sc(b) /\ sc(i) = sc(b)
        BY <1>2, <3>1, <3>3
      <4>2. sc(j) < sc(b)
        BY <4>1
      <4> QED BY <4>1, <4>2
    <3> QED BY <3>2, <3>3
  <2> QED BY <2>2, <2>3
<1>6. PICK f \in mine : f = (CHOOSE k \in mine : Wins(k)) /\ Wins(f)
  <2> HIDE DEF Wins
  <2> QED BY <1>5
<1>7. \A j \in mine : sc(j) <= sc(f)
  <2> SUFFICES ASSUME NEW j \in mine PROVE sc(j) <= sc(f)
    OBVIOUS
  <2>1. sc(j) \in Nat /\ sc(f) \in Nat /\ (sc(j) < sc(f) \/ sc(j) = sc(f))
    BY <1>2, <1>6
  <2> QED BY <2>1
<1>8. Top(s, cands, lnks) = cands[f]
  BY <1>3, <1>6
<1> QED BY <1>7, <1>8 DEF mine, sc

\* It is a pair of the planes and of that source, and no pair of that source scores more.
LEMMA TopPair ==
    ASSUME NEW S, NEW T, NEW cands, NEW lnks, CandidateList(cands, S, T)
    PROVE  \A s \in Sources(cands) : \E p \in S \X T :
               /\ p = Top(s, cands, lnks) /\ p[1] = s
               /\ \E i \in DOMAIN cands : p = cands[i]
<1> SUFFICES ASSUME NEW s \in Sources(cands)
             PROVE  \E p \in S \X T : /\ p = Top(s, cands, lnks) /\ p[1] = s
                                      /\ \E i \in DOMAIN cands : p = cands[i]
  OBVIOUS
<1>1. PICK i \in OfSource(s, cands) : Top(s, cands, lnks) = cands[i]
  BY TopIsBest
<1> QED BY <1>1 DEF OfSource, CandidateList

LEMMA TopScore ==
    ASSUME NEW S, NEW T, NEW cands, NEW lnks, CandidateList(cands, S, T),
           NEW s \in Sources(cands), NEW j \in DOMAIN cands, cands[j][1] = s
    PROVE  Score(cands[j], lnks) <= Score(Top(s, cands, lnks), lnks)
<1>1. PICK i \in OfSource(s, cands) :
          /\ Top(s, cands, lnks) = cands[i]
          /\ \A k \in OfSource(s, cands) : Score(cands[k], lnks) <= Score(cands[i], lnks)
  BY TopIsBest
<1> QED BY <1>1 DEF OfSource

-----------------------------------------------------------------------------
(* What a run records.                                                     *)

Report(src, tgt, lnks, cands, expectations, edge) ==
    [src |-> Range(src), tgt |-> Range(tgt),
     outcomes |-> Assemble(src, tgt, lnks, cands, expectations, edge),
     trace |-> {[pair |-> p, score |-> Score(p, lnks), hard_fail |-> HardFail(p, lnks)] :
                    p \in Range(cands)}]

\* The source has a candidate, and the best of them scores.
Wanted(s, cands, lnks) == s \in Sources(cands) /\ Score(Top(s, cands, lnks), lnks) > 0

\* The matches a run reports are the best candidates of the sources whose best one
\* scores: no other part of a run reports one.
LEMMA MatchesAre ==
    ASSUME NEW src, NEW tgt, NEW lnks, NEW cands, NEW expectations, NEW edge,
           NEW run, run = Report(src, tgt, lnks, cands, expectations, edge)
    PROVE  /\ \A o \in MatchesOf(run) : \E s : /\ Wanted(s, cands, lnks)
                                              /\ o.source = Top(s, cands, lnks)[1]
                                              /\ o.target = Top(s, cands, lnks)[2]
           /\ \A s : Wanted(s, cands, lnks) =>
                  \E o \in MatchesOf(run) : /\ o.source = Top(s, cands, lnks)[1]
                                            /\ o.target = Top(s, cands, lnks)[2]
<1> DEFINE kind(p) == IF Score(p, lnks) >= MATCH THEN "fully-reconciled" ELSE "candidate-match"
           match(s) == Outcome(kind(Top(s, cands, lnks)), Top(s, cands, lnks)[1],
                               Top(s, cands, lnks)[2], RuleMismatches(Top(s, cands, lnks), lnks))
<1>1. MatchOutcomes(cands, lnks) = {match(s) : s \in {x \in Sources(cands) : Wanted(x, cands, lnks)}}
  BY DEF MatchOutcomes, Wanted
<1>2. \A s : /\ match(s).type \in MatchType
             /\ match(s).source = Top(s, cands, lnks)[1]
             /\ match(s).target = Top(s, cands, lnks)[2]
  BY DEF Outcome, MatchType
<1>3. MatchesOf(run) = MatchOutcomes(cands, lnks)
  <2>1. run.outcomes = Assemble(src, tgt, lnks, cands, expectations, edge)
    BY DEF Report
  <2>2. \A o \in MatchOutcomes(cands, lnks) : o.type \in MatchType
    BY <1>1, <1>2
  <2>3. \A o \in run.outcomes : o.type \in MatchType => o \in MatchOutcomes(cands, lnks)
    BY <2>1 DEF Assemble, Outcome, MatchType
  <2>4. MatchOutcomes(cands, lnks) \subseteq run.outcomes
    BY <2>1 DEF Assemble
  <2> QED BY <2>2, <2>3, <2>4 DEF MatchesOf
<1> HIDE DEF match
<1>4. \A s : Wanted(s, cands, lnks) => s \in Sources(cands)
  BY DEF Wanted
<1>5. \A o \in MatchesOf(run) : \E s : Wanted(s, cands, lnks) /\ o = match(s)
  BY <1>1, <1>3
<1>6. \A s : Wanted(s, cands, lnks) => match(s) \in MatchesOf(run)
  BY <1>1, <1>3, <1>4
<1> QED BY <1>2, <1>5, <1>6

\* Some candidate of the place-th plane's object x scores.
Scoring(place, x, cands, lnks) ==
    \E j \in DOMAIN cands : cands[j][place] = x /\ Score(cands[j], lnks) > 0

\* The objects a run reports missing are those without a candidate that scores: no other
\* outcome carries the category of a missing object.
LEMMA MissingAre ==
    ASSUME NEW src, NEW tgt, NEW lnks, NEW cands, NEW expectations, NEW edge,
           NEW run, run = Report(src, tgt, lnks, cands, expectations, edge),
           None \notin Range(src), None \notin Range(tgt)
    PROVE  /\ \A s \in Range(src) :
                  (\E o \in MissingOf(run) : o.source = s) <=> ~Scoring(1, s, cands, lnks)
           /\ \A t \in Range(tgt) :
                  (\E o \in MissingOf(run) : o.target = t) <=> ~Scoring(2, t, cands, lnks)
<1> DEFINE missing == Missing(src, tgt, cands, lnks)
           report(m) == Outcome("mismatch-detected", m.source, m.target, {m.category})
           categories == {"missing-in-target", "missing-in-source"}
           matched(i) == {cands[k][i] : k \in {j \in DOMAIN cands : Score(cands[j], lnks) > 0}}
<1>1. run.outcomes = Assemble(src, tgt, lnks, cands, expectations, edge)
  BY DEF Report
<1>2. missing = [category : {"missing-in-target"}, source : Range(src) \ matched(1), target : {None}]
            \cup [category : {"missing-in-source"}, source : {None}, target : Range(tgt) \ matched(2)]
  BY Zenon DEF Missing
<1>3. \A i, x : x \in matched(i) <=> Scoring(i, x, cands, lnks)
  BY DEF Scoring
<1>4. \A m : /\ report(m).source = m.source /\ report(m).target = m.target
             /\ report(m).mismatches = {m.category}
  BY DEF Outcome
<1> HIDE DEF missing, report, matched
<1>5. \A m \in missing : m.category \in categories /\ report(m) \in run.outcomes
  <2>1. \A m \in missing : report(m) \in run.outcomes
    BY <1>1 DEF Assemble, missing, report
  <2> QED BY <1>2, <2>1
<1>6. \A o \in MissingOf(run) : \E m \in missing : o = report(m)
  <2> SUFFICES ASSUME NEW o \in run.outcomes, NEW c \in categories, c \in o.mismatches
               PROVE  \E m \in missing : o = report(m)
    BY DEF MissingOf
  <2>1. CASE o \in MatchOutcomes(cands, lnks)
    <3>1. PICK p : o.mismatches = RuleMismatches(p, lnks)
      BY <2>1 DEF MatchOutcomes, Outcome
    <3> QED BY <3>1 DEF RuleMismatches
  <2>2. CASE \E s : o = Outcome("duplicate-detected", s, None, {"duplicate-candidate"})
    BY <2>2 DEF Outcome
  <2>3. CASE \E e : o = Outcome("coverage-gap", e.kind, None, {})
    BY <2>3 DEF Outcome
  <2>4. CASE \E m \in IdentifierConflicts(src, tgt) : o = report(m)
    <3>1. PICK m \in IdentifierConflicts(src, tgt) : o = report(m)
      BY <2>4
    <3>2. m.category = "identifier-conflict"
      BY DEF IdentifierConflicts
    <3>3. o.mismatches = {"identifier-conflict"}
      BY <1>4, <3>1, <3>2
    <3> QED BY <3>3
  <2>5. CASE \E m \in missing : o = report(m)
    BY <2>5
  <2>6. \/ o \in MatchOutcomes(cands, lnks)
        \/ \E s : o = Outcome("duplicate-detected", s, None, {"duplicate-candidate"})
        \/ \E e : o = Outcome("coverage-gap", e.kind, None, {})
        \/ \E m \in missing \cup IdentifierConflicts(src, tgt) : o = report(m)
    BY <1>1, Zenon DEF Assemble, missing, report
  <2> QED BY <2>1, <2>2, <2>3, <2>4, <2>5, <2>6
<1>7. \A m \in missing : report(m) \in MissingOf(run)
  BY <1>4, <1>5 DEF MissingOf
<1>8. \A o \in MissingOf(run) : \E m \in missing : o.source = m.source /\ o.target = m.target
  BY <1>4, <1>6
<1>9. ASSUME NEW s \in Range(src)
      PROVE  (\E o \in MissingOf(run) : o.source = s) <=> ~Scoring(1, s, cands, lnks)
  <2>1. ASSUME NEW o \in MissingOf(run), o.source = s PROVE s \notin matched(1)
    <3>1. PICK m \in missing : s = m.source
      BY <1>8, <2>1
    <3>2. s # None
      OBVIOUS
    <3> QED BY <1>2, <3>1, <3>2
  <2>2. ASSUME s \notin matched(1) PROVE \E o \in MissingOf(run) : o.source = s
    <3> DEFINE m == [category |-> "missing-in-target", source |-> s, target |-> None]
    <3>1. m \in missing
      BY <1>2, <2>2
    <3>2. m.source = s
      OBVIOUS
    <3> HIDE DEF m
    <3> QED BY <1>4, <1>7, <3>1, <3>2
  <2> QED BY <1>3, <2>1, <2>2
<1>10. ASSUME NEW t \in Range(tgt)
       PROVE  (\E o \in MissingOf(run) : o.target = t) <=> ~Scoring(2, t, cands, lnks)
  <2>1. ASSUME NEW o \in MissingOf(run), o.target = t PROVE t \notin matched(2)
    <3>1. PICK m \in missing : t = m.target
      BY <1>8, <2>1
    <3>2. t # None
      OBVIOUS
    <3> QED BY <1>2, <3>1, <3>2
  <2>2. ASSUME t \notin matched(2) PROVE \E o \in MissingOf(run) : o.target = t
    <3> DEFINE m == [category |-> "missing-in-source", source |-> None, target |-> t]
    <3>1. m \in missing
      BY <1>2, <2>2
    <3>2. m.target = t
      OBVIOUS
    <3> HIDE DEF m
    <3> QED BY <1>4, <1>7, <3>1, <3>2
  <2> QED BY <1>3, <2>1, <2>2
<1> QED BY <1>9, <1>10

\* A source has a match exactly when one of its candidates scores.
LEMMA MatchedIfScoring ==
    ASSUME NEW S, NEW T, NEW src, NEW tgt, NEW lnks, NEW cands, NEW expectations, NEW edge,
           NEW run, run = Report(src, tgt, lnks, cands, expectations, edge),
           CandidateList(cands, S, T), NEW s
    PROVE  (\E o \in MatchesOf(run) : o.source = s) <=> Scoring(1, s, cands, lnks)
<1>0. \A x \in Sources(cands) : \E p \in S \X T :
          /\ p = Top(x, cands, lnks) /\ p[1] = x
          /\ \E i \in DOMAIN cands : p = cands[i]
  BY TopPair
<1>1. ASSUME NEW o \in MatchesOf(run), o.source = s PROVE Scoring(1, s, cands, lnks)
  <2>1. PICK x : Wanted(x, cands, lnks) /\ o.source = Top(x, cands, lnks)[1]
    BY MatchesAre
  <2>2. x \in Sources(cands) /\ Score(Top(x, cands, lnks), lnks) > 0
    BY <2>1 DEF Wanted
  <2>3. PICK p \in S \X T : p = Top(x, cands, lnks) /\ \E i \in DOMAIN cands : p = cands[i]
    BY <1>0, <2>2
  <2>4. p[1] = s /\ Score(p, lnks) > 0
    BY <1>1, <2>1, <2>2, <2>3
  <2> QED BY <2>3, <2>4 DEF Scoring
<1>2. ASSUME Scoring(1, s, cands, lnks) PROVE \E o \in MatchesOf(run) : o.source = s
  <2>1. PICK j \in DOMAIN cands : cands[j][1] = s /\ Score(cands[j], lnks) > 0
    BY <1>2 DEF Scoring
  <2>2. s \in Sources(cands)
    BY <2>1 DEF Sources
  <2>3. PICK p \in S \X T : p = Top(s, cands, lnks) /\ p[1] = s
    BY <1>0, <2>2
  <2>4. Score(cands[j], lnks) <= Score(Top(s, cands, lnks), lnks)
    BY <2>1, <2>2, TopScore
  <2>5. Score(cands[j], lnks) \in Nat /\ Score(p, lnks) \in Nat
    BY ScoreIsNat
  <2>6. Wanted(s, cands, lnks)
    BY <2>1, <2>2, <2>3, <2>5, <2>4 DEF Wanted
  <2>7. PICK o \in MatchesOf(run) : o.source = Top(s, cands, lnks)[1]
    BY <2>6, MatchesAre
  <2> QED BY <2>3, <2>7
<1> QED BY <1>1, <1>2

\* Every object of a run is accounted for.
LEMMA ReportAccounts ==
    ASSUME NEW S, NEW T, NEW src, NEW tgt, NEW lnks, NEW cands, NEW expectations, NEW edge,
           NEW run, run = Report(src, tgt, lnks, cands, expectations, edge),
           CandidateList(cands, S, T), None \notin Range(src), None \notin Range(tgt)
    PROVE  AccountedIn(run)
<1> DEFINE matched == {<<o.source, o.target>> : o \in MatchesOf(run)}
           rivals(t) == {c.pair[1] : c \in {x \in run.trace : x.pair[2] = t /\ x.score > 0}}
<1>1. run.src = Range(src) /\ run.tgt = Range(tgt)
  BY DEF Report
<1>2. \A s : (\E p \in matched : p[1] = s) <=> Scoring(1, s, cands, lnks)
  <2> SUFFICES ASSUME NEW s
               PROVE  (\E p \in matched : p[1] = s) <=> \E o \in MatchesOf(run) : o.source = s
    BY MatchedIfScoring
  <2>1. \A o \in MatchesOf(run) : <<o.source, o.target>>[1] = o.source
    OBVIOUS
  <2>2. \A o \in MatchesOf(run) : <<o.source, o.target>> \in matched
    OBVIOUS
  <2>3. \A p \in matched : \E o \in MatchesOf(run) : p = <<o.source, o.target>>
    OBVIOUS
  <2> HIDE DEF matched
  <2> QED BY <2>1, <2>2, <2>3
<1>3. \A t, s : s \in rivals(t) <=>
          \E j \in DOMAIN cands : cands[j][2] = t /\ Score(cands[j], lnks) > 0 /\ cands[j][1] = s
  <2>1. run.trace = {[pair |-> p, score |-> Score(p, lnks), hard_fail |-> HardFail(p, lnks)] :
                         p \in {cands[j] : j \in DOMAIN cands}}
    BY DEF Report, Range
  <2> DEFINE entry(p) == [pair |-> p, score |-> Score(p, lnks), hard_fail |-> HardFail(p, lnks)]
  <2>2. \A p : entry(p).pair = p /\ entry(p).score = Score(p, lnks)
    OBVIOUS
  <2>3. /\ \A j \in DOMAIN cands : entry(cands[j]) \in run.trace
        /\ \A c \in run.trace : \E j \in DOMAIN cands : c = entry(cands[j])
    BY <2>1
  <2> HIDE DEF entry
  <2>4. \A t, s : s \in rivals(t) <=>
            \E c \in run.trace : c.pair[2] = t /\ c.score > 0 /\ c.pair[1] = s
    OBVIOUS
  <2> HIDE DEF rivals
  <2> QED BY <2>2, <2>3, <2>4
<1>4. \A t : rivals(t) = {} <=> ~Scoring(2, t, cands, lnks)
  <2> HIDE DEF rivals
  <2> QED BY <1>3 DEF Scoring
<1>5. \A t : \A s \in rivals(t) : Scoring(1, s, cands, lnks)
  <2> HIDE DEF rivals
  <2> QED BY <1>3 DEF Scoring
<1> HIDE DEF matched, rivals
<1>6. \A s \in run.src : (\E p \in matched : p[1] = s) # (\E o \in MissingOf(run) : o.source = s)
  <2> SUFFICES ASSUME NEW s \in Range(src)
               PROVE  (\E p \in matched : p[1] = s) # (\E o \in MissingOf(run) : o.source = s)
    BY <1>1
  <2>1. (\E p \in matched : p[1] = s) <=> Scoring(1, s, cands, lnks)
    BY <1>2
  <2>2. (\E o \in MissingOf(run) : o.source = s) <=> ~Scoring(1, s, cands, lnks)
    BY MissingAre
  <2> QED BY <2>1, <2>2
<1>7. \A t \in run.tgt : /\ (\E o \in MissingOf(run) : o.target = t) <=> rivals(t) = {}
                         /\ \A s \in rivals(t) : \E p \in matched : p[1] = s
  <2> SUFFICES ASSUME NEW t \in Range(tgt)
               PROVE  /\ (\E o \in MissingOf(run) : o.target = t) <=> rivals(t) = {}
                      /\ \A s \in rivals(t) : \E p \in matched : p[1] = s
    BY <1>1
  <2>1. (\E o \in MissingOf(run) : o.target = t) <=> ~Scoring(2, t, cands, lnks)
    BY MissingAre
  <2> QED BY <1>2, <1>4, <1>5, <2>1
<1> QED BY <1>6, <1>7 DEF AccountedIn, matched, rivals

\* A pair with a hard failure is no match of a run.
LEMMA ReportHonoursHardFail ==
    ASSUME NEW S, NEW T, NEW src, NEW tgt, NEW lnks, NEW cands, NEW expectations, NEW edge,
           NEW run, run = Report(src, tgt, lnks, cands, expectations, edge),
           CandidateList(cands, S, T)
    PROVE  NoContradictionIn(run)
<1>0. \A s \in Sources(cands) : \E p \in S \X T :
          /\ p = Top(s, cands, lnks) /\ p[1] = s
          /\ \E i \in DOMAIN cands : p = cands[i]
  BY TopPair
<1> SUFFICES ASSUME NEW c \in run.trace, c.hard_fail, NEW o \in MatchesOf(run),
                    <<o.source, o.target>> = c.pair
             PROVE  FALSE
  BY DEF NoContradictionIn
<1>1. HardFail(c.pair, lnks)
  BY DEF Report
<1>2. PICK s : /\ Wanted(s, cands, lnks) /\ o.source = Top(s, cands, lnks)[1]
               /\ o.target = Top(s, cands, lnks)[2]
  BY MatchesAre
<1>3. s \in Sources(cands) /\ Score(Top(s, cands, lnks), lnks) > 0
  BY <1>2 DEF Wanted
<1>4. PICK p \in S \X T : p = Top(s, cands, lnks)
  BY <1>0, <1>3
<1>5. p = c.pair
  BY <1>2, <1>4
<1>6. Score(p, lnks) = 0
  BY <1>1, <1>5 DEF Score
<1> QED BY <1>3, <1>4, <1>6

\* A match with another candidate near it is a duplicate of the same run.
LEMMA ReportNamesRivals ==
    ASSUME NEW S, NEW T, NEW src, NEW tgt, NEW lnks, NEW cands, NEW expectations, NEW edge,
           NEW run, run = Report(src, tgt, lnks, cands, expectations, edge),
           CandidateList(cands, S, T)
    PROVE  ReportedIn(run)
<1>0. \A s \in Sources(cands) : \E p \in S \X T :
          /\ p = Top(s, cands, lnks) /\ p[1] = s
          /\ \E i \in DOMAIN cands : p = cands[i]
  BY TopPair
<1> SUFFICES ASSUME NEW o \in MatchesOf(run), NEW t \in run.tgt \ {o.target},
                    NEW c \in run.trace, NEW d \in run.trace,
                    c.pair = <<o.source, o.target>>, d.pair = <<o.source, t>>,
                    Distance(c.score, d.score) < GAP
             PROVE  \E e \in run.outcomes : e.type = "duplicate-detected" /\ e.source = o.source
  BY DEF ReportedIn
<1>1. \A x \in run.trace : /\ x.score = Score(x.pair, lnks)
                           /\ \E j \in DOMAIN cands : x.pair = cands[j]
  BY DEF Report, Range
<1>2. PICK s : /\ Wanted(s, cands, lnks) /\ o.source = Top(s, cands, lnks)[1]
               /\ o.target = Top(s, cands, lnks)[2]
  BY MatchesAre
<1>3. s \in Sources(cands)
  BY <1>2 DEF Wanted
<1>4. PICK p \in S \X T : p = Top(s, cands, lnks) /\ p[1] = s
  BY <1>0, <1>3
<1>5. o.source = s /\ c.pair = Top(s, cands, lnks)
  BY <1>2, <1>4
<1>6. PICK i, k \in OfSource(s, cands) : cands[i] = c.pair /\ cands[k] = d.pair
  <2>1. PICK i, k \in DOMAIN cands : cands[i] = c.pair /\ cands[k] = d.pair
    BY <1>1
  <2>2. cands[i][1] = s /\ cands[k][1] = s
    BY <1>5, <2>1
  <2> QED BY <2>1, <2>2 DEF OfSource
<1>7. i # k
  BY <1>6
<1>8. {i, k} \subseteq Close(s, cands, lnks, edge)
  <2> DEFINE top == Score(Top(s, cands, lnks), lnks)
  <2>1. c.score = top /\ Score(cands[i], lnks) = top /\ Score(cands[k], lnks) = d.score
    BY <1>1, <1>5, <1>6
  <2>2. top \in Nat /\ d.score \in Nat
    <3>1. top \in Nat /\ Score(d.pair, lnks) \in Nat
      BY ScoreIsNat
    <3> HIDE DEF top
    <3> QED BY <1>1, <3>1
  <2> HIDE DEF top
  <2>3. Distance(top, top) < GAP /\ Distance(d.score, top) < GAP
    BY <2>1, <2>2 DEF Distance, GAP
  <2> QED BY <2>1, <2>3 DEF Close, top
<1>9. Cardinality(Close(s, cands, lnks, edge)) > 1
  <2>1. IsFiniteSet(Close(s, cands, lnks, edge))
    <3>1. Close(s, cands, lnks, edge) \in SUBSET DOMAIN cands
      BY DEF Close, OfSource
    <3> QED BY <3>1, FS_Subset DEF CandidateList
  <2>2. IsFiniteSet({i}) /\ Cardinality({i}) = 1
    BY FS_Singleton
  <2>3. Cardinality({i} \cup {k}) = 2
    <3>1. k \notin {i}
      BY <1>7
    <3>2. Cardinality({i} \cup {k}) = Cardinality({i}) + 1
      BY <2>2, <3>1, FS_AddElement, Zenon
    <3> QED BY <2>2, <3>2
  <2>4. {i} \cup {k} \in SUBSET Close(s, cands, lnks, edge)
    BY <1>8
  <2>5. Cardinality({i} \cup {k}) <= Cardinality(Close(s, cands, lnks, edge))
    BY <2>1, <2>4, FS_Subset
  <2>6. Cardinality(Close(s, cands, lnks, edge)) \in Nat
    BY <2>1, FS_CardinalityType
  <2> QED BY <2>3, <2>5, <2>6
<1>10. Outcome("duplicate-detected", s, None, {"duplicate-candidate"}) \in run.outcomes
  BY <1>3, <1>9 DEF Report, Assemble, Duplicates
<1> QED BY <1>5, <1>10 DEF Outcome

-----------------------------------------------------------------------------
(* The theorems.                                                           *)

\* What a request fetches are objects and links of the graph.
LEMMA FetchedAreObjects ==
    ASSUME NEW ids, NEW both, NEW L, links \in Seq(L)
    PROVE  /\ FetchSource(ids, both) \in Seq(Object)
           /\ FetchTarget(ids, both) \in Seq(Object)
           /\ FetchLinks(ids) \in Seq(L)
<1>1. SourceObject \in Seq(Object) /\ TargetObject \in Seq(Object)
  <2>1. Source \subseteq Object /\ Target \subseteq Object
    BY DEF Object
  <2> QED BY <2>1, ListsAssumption, SeqMonotonic
<1>2. Kept(SourceObject, ids) \in Seq(Object) /\ Kept(TargetObject, ids) \in Seq(Object)
  <2>1. /\ Kept(SourceObject, ids) \in Seq(Object \cap ids)
        /\ Kept(TargetObject, ids) \in Seq(Object \cap ids)
    BY <1>1, KeptIsSeq
  <2>2. Object \cap ids \subseteq Object
    OBVIOUS
  <2> QED BY <2>1, <2>2, SeqMonotonic
<1>3. FetchSource(ids, both) \in Seq(Object)
  <2>1. <<>> \in Seq(Object)
    OBVIOUS
  <2>2. PICK a, b \in Seq(Object) :
            a = Kept(SourceObject, ids) /\ b = IF both THEN <<>> ELSE Kept(TargetObject, ids)
    BY <1>2, <2>1
  <2>3. a \o b \in Seq(Object)
    BY ConcatProperties
  <2> QED BY <1>1, <2>2, <2>3 DEF FetchSource
<1>4. FetchTarget(ids, both) \in Seq(Object)
  BY <1>1, <1>2 DEF FetchTarget
<1>5. FetchLinks(ids) \in Seq(L)
  <2>1. PICK sh : sh = {l \in Range(links) : l.source \in ids \/ l.target \in ids}
    OBVIOUS
  <2>2. Kept(links, sh) \in Seq(L \cap sh)
    BY KeptIsSeq
  <2>3. L \cap sh \subseteq L
    OBVIOUS
  <2>4. Kept(links, sh) \in Seq(L)
    BY <2>2, <2>3, SeqMonotonic
  <2> QED BY <2>1, <2>4 DEF FetchLinks
<1> QED BY <1>3, <1>4, <1>5

\* Objects that have every field have it among the values the fields have.
LEMMA FieldValues ==
    ASSUME NEW V, NEW v \in [Object -> [Field -> V]]
    PROVE  v \in [Object -> [Field -> Content(v)]]
BY DEF Content

\* The links and the runs are lists, and every run so far is a sound report.
RunsInv ==
    /\ links \in Seq(Range(links))
    /\ runs \in Seq(Range(runs))
    /\ ObjectsAccounted
    /\ ContradictedNotMatched
    /\ AmbiguityReported
    /\ TypeOK

\* What execute appends to the runs is a sound report.
LEMMA ExecuteReports ==
    ASSUME links \in Seq(Range(links)), NEW r, NEW edge, Execute(r, edge)
    PROVE  \E run : /\ runs' = Append(runs, run)
                    /\ \A c \in cases' \ cases :
                           c.run = Len(runs) + 1 /\ c.outcome \in run.outcomes
                    /\ AccountedIn(run) /\ NoContradictionIn(run) /\ ReportedIn(run)
<1>1. PICK src, tgt \in Seq(Object), lnks \in Seq(Range(links)) :
          /\ src = FetchSource(r.ids, r.both) /\ tgt = FetchTarget(r.ids, r.both)
          /\ lnks = FetchLinks(r.ids)
  BY FetchedAreObjects
<1>2. PICK cands : cands = Candidates(src, tgt, lnks)
  OBVIOUS
<1>3. CandidateList(cands, Object, Object)
  BY <1>2, CandidatesAreList
<1>4. PICK run : run = Report(src, tgt, lnks, cands, r.expectations, edge)
  OBVIOUS
<1>5. runs' = Append(runs, run)
  BY <1>1, <1>2, <1>4, Zenon DEF Execute, Report
<1>6. None \notin Range(src) /\ None \notin Range(tgt)
  <2>1. Range(src) \subseteq Object /\ Range(tgt) \subseteq Object
    BY DEF Range
  <2> QED BY <2>1, ListsAssumption
<1>7. AccountedIn(run)
  BY <1>3, <1>4, <1>6, ReportAccounts
<1>8. NoContradictionIn(run)
  BY <1>3, <1>4, ReportHonoursHardFail
<1>9. ReportedIn(run)
  BY <1>3, <1>4, ReportNamesRivals
<1>10. \A c \in cases' \ cases : c.run = Len(runs) + 1 /\ c.outcome \in run.outcomes
  <2>1. PICK outcomes :
            /\ outcomes = Assemble(src, tgt, lnks, cands, r.expectations, edge)
            /\ cases' = cases \cup {[run |-> Len(runs) + 1, outcome |-> o, priority |-> Priority(o)] :
                                        o \in {x \in outcomes : NeedsCase(x)}}
    BY <1>1, <1>2, Zenon DEF Execute
  <2>2. run.outcomes = outcomes
    BY <1>4, <2>1 DEF Report
  <2> QED BY <2>1, <2>2
<1> QED BY <1>5, <1>7, <1>8, <1>9, <1>10

\* Every run ever made reports soundly: Spec keeps RunsInv.
THEOREM RunsAreSound == Spec => []RunsInv
<1>1. Init => RunsInv
  <2> SUFFICES ASSUME Init PROVE RunsInv
    OBVIOUS
  <2>1. links \in Seq(Range(links))
    BY GraphAssumption DEF Init
  <2>2. runs = <<>> /\ runs \in Seq(Range(runs))
    BY DEF Init
  <2>3. TypeOK
    <3>1. PICK g \in Graph : value = g.value /\ links = g.links
      BY DEF Init
    <3>2. value \in [Object -> [Field -> Content(value)]]
      <4>1. PICK V : g.value \in [Object -> [Field -> V]]
        BY GraphAssumption
      <4> QED BY <3>1, <4>1, FieldValues
    <3>3. \A i \in DOMAIN links : links[i].type \in LinkType
      <4>1. \A l \in Range(links) : l.type \in LinkType
        BY <3>1, GraphAssumption
      <4> QED BY <4>1 DEF Range
    <3>4. Len(runs) <= MaxRuns /\ cases = {}
      BY <2>2, GraphAssumption DEF Init
    <3> QED BY <3>2, <3>3, <3>4 DEF TypeOK
  <2> QED BY <2>1, <2>2, <2>3 DEF RunsInv, ObjectsAccounted, ContradictedNotMatched,
                                  AmbiguityReported
<1>2. RunsInv /\ [Next]_vars => RunsInv'
  <2> SUFFICES ASSUME RunsInv, [Next]_vars PROVE RunsInv'
    OBVIOUS
  <2>1. ASSUME NEW r \in Request, NEW edge \in BOOLEAN, Execute(r, edge) PROVE RunsInv'
    <3>1. PICK run : /\ runs' = Append(runs, run)
                     /\ \A c \in cases' \ cases :
                            c.run = Len(runs) + 1 /\ c.outcome \in run.outcomes
                     /\ AccountedIn(run) /\ NoContradictionIn(run) /\ ReportedIn(run)
      BY <2>1, ExecuteReports DEF RunsInv
    <3>2. links' = links /\ value' = value /\ Len(runs) < MaxRuns
      BY <2>1 DEF Execute, graphVars
    <3>3. PICK R : R = Range(runs) \cup {run}
      OBVIOUS
    <3>4. runs \in Seq(R) /\ run \in R
      BY <3>3, SeqMonotonic DEF RunsInv
    <3>5. /\ runs' \in Seq(R) /\ Len(runs') = Len(runs) + 1
          /\ \A i \in 1..Len(runs) : runs'[i] = runs[i]
          /\ runs'[Len(runs) + 1] = run
      BY <3>1, <3>4, AppendProperties
    <3>6. DOMAIN runs = 1..Len(runs) /\ DOMAIN runs' = 1..(Len(runs) + 1) /\ Len(runs) \in Nat
      BY <3>4, <3>5
    <3>7. runs' \in Seq(Range(runs'))
      BY <3>5 DEF Range
    <3>8. \A i \in DOMAIN runs' : \/ i \in DOMAIN runs /\ runs'[i] = runs[i]
                                  \/ runs'[i] = run
      BY <3>5, <3>6
    <3>9. ObjectsAccounted' /\ ContradictedNotMatched' /\ AmbiguityReported'
      BY <3>1, <3>8 DEF RunsInv, ObjectsAccounted, ContradictedNotMatched, AmbiguityReported
    <3>10. \A c \in cases' : c.run \in DOMAIN runs' /\ c.outcome \in runs'[c.run].outcomes
      <4> SUFFICES ASSUME NEW c \in cases'
                   PROVE  c.run \in DOMAIN runs' /\ c.outcome \in runs'[c.run].outcomes
        OBVIOUS
      <4>1. CASE c \in cases
        <5>1. c.run \in DOMAIN runs /\ c.outcome \in runs[c.run].outcomes
          BY <4>1 DEF RunsInv, TypeOK
        <5> QED BY <3>5, <3>6, <5>1
      <4>2. CASE c \notin cases
        <5>1. c.run = Len(runs) + 1 /\ c.outcome \in run.outcomes
          BY <3>1, <4>2
        <5> QED BY <3>5, <3>6, <5>1
      <4> QED BY <4>1, <4>2
    <3>11. Len(runs') <= MaxRuns
      BY <3>2, <3>5, <3>6, GraphAssumption
    <3>12. TypeOK'
      BY <3>2, <3>10, <3>11 DEF RunsInv, TypeOK
    <3> QED BY <3>2, <3>7, <3>9, <3>12 DEF RunsInv
  <2>2. ASSUME NEW e \in Edit, EditObject(e) PROVE RunsInv'
    <3>1. /\ value' = [value EXCEPT ![e.object][e.field] = e.value]
          /\ links' = links /\ runs' = runs /\ cases' = cases
      BY <2>2 DEF EditObject
    <3>2. value' \in [Object -> [Field -> Content(value')]]
      <4>1. PICK V : value \in [Object -> [Field -> V]]
        BY DEF RunsInv, TypeOK
      <4>2. e.object \in Object /\ e.field \in Field
        BY GraphAssumption
      <4>3. value' \in [Object -> [Field -> V \cup {e.value}]]
        BY <3>1, <4>1, <4>2
      <4> QED BY <4>3, FieldValues
    <3>3. TypeOK'
      <4>1. /\ \A i \in DOMAIN links' : links'[i].type \in LinkType
            /\ Len(runs') <= MaxRuns
            /\ \A c \in cases' : c.run \in DOMAIN runs' /\ c.outcome \in runs'[c.run].outcomes
        BY <3>1 DEF RunsInv, TypeOK
      <4> QED BY <3>2, <4>1, Zenon DEF TypeOK
    <3> QED BY <3>1, <3>3 DEF RunsInv, ObjectsAccounted, ContradictedNotMatched,
                              AmbiguityReported
  <2>3. CASE UNCHANGED vars
    BY <2>3 DEF vars, graphVars, RunsInv, TypeOK, ObjectsAccounted, ContradictedNotMatched,
                AmbiguityReported
  <2> QED BY <2>1, <2>2, <2>3 DEF Next
<1> QED BY <1>1, <1>2, PTL DEF Spec

\* The graph keeps every field of every object, no link has an unknown type, and every
\* case of the repository points to a completed run and to one of its outcomes.
THEOREM TypesAreKept == Spec => []TypeOK
<1>1. RunsInv => TypeOK
  BY DEF RunsInv
<1> QED BY <1>1, RunsAreSound, PTL

\* A source of a run is matched or reported missing, never both and never neither, and a
\* target is neither only when every source it scores with has another match: scorer,
\* ranking and classifier agree on every graph and every request.
THEOREM ObjectsAreAccounted == Spec => []ObjectsAccounted
<1>1. RunsInv => ObjectsAccounted
  BY DEF RunsInv
<1> QED BY <1>1, RunsAreSound, PTL

\* No pair with a contradicting or blocking link is reported as a match, whatever the
\* other rules score it.
THEOREM ContradictedNeverMatched == Spec => []ContradictedNotMatched
<1>1. RunsInv => ContradictedNotMatched
  BY DEF RunsInv
<1> QED BY <1>1, RunsAreSound, PTL

\* A match another candidate of its source comes near to is reported as a duplicate in the
\* same run.
THEOREM AmbiguityIsReported == Spec => []AmbiguityReported
<1>1. RunsInv => AmbiguityReported
  BY DEF RunsInv
<1> QED BY <1>1, RunsAreSound, PTL

=============================================================================
