-------------------------- MODULE CrossPlaneProofs --------------------------
(***************************************************************************)
(* Proofs about the release gate and the object registry that shares it    *)
(* with other callers, for every set of objects, clients and policies and  *)
(* any number of versions and requests, and then about ingestion, the      *)
(* graph store and cross-plane reconciliation on top of them, for every    *)
(* set of edges and rules and any number of runs.  The invariant of the    *)
(* latter falls into two parts that do not share a variable: the registry  *)
(* with the store's copies of its objects, and the edges with the cases    *)
(* that runs found in them.                                                *)
(***************************************************************************)
EXTENDS CrossPlane, FiniteSetTheorems, TLAPS

-----------------------------------------------------------------------------
(* The gate *)

LogRecord == [package : Nat, status : {"blocked", "compiled", "dispatched", "failed"}]

GateTypes ==
    /\ packages \in Seq(Request)
    /\ log \in Seq(LogRecord)
    /\ running \subseteq DOMAIN packages
    /\ IsFiniteSet(running)
    /\ verdicts \in [{"certified", "rejected"} -> Nat]
    /\ metered \in [{"gate_submission", "gate_block", "gate_release"} -> Nat]

\* Log entries name stored packages or none, so that a package to come has none;
\* a package has no entry while its executor runs and one from then on.
EntriesInv ==
    /\ \A i \in DOMAIN log : log[i].package <= Len(packages)
    /\ \A p \in running : Logged(p) = {}
    /\ \A p \in DOMAIN packages \ running : \E i \in DOMAIN log : Logged(p) = {i}

TallyInv ==
    /\ verdicts["certified"] = Len(packages)
    /\ verdicts["rejected"] = Cardinality(Logged(0))

\* The inductive invariant of the gate
GateInv == GateTypes /\ EntriesInv /\ TallyInv /\ BilledOncePerRelease

\* What Append does to a sequence.
LEMMA AppendFacts ==
    ASSUME NEW S, NEW s \in Seq(S), NEW e \in S
    PROVE  /\ Append(s, e) \in Seq(S)
           /\ Len(Append(s, e)) = Len(s) + 1
           /\ DOMAIN Append(s, e) = DOMAIN s \cup {Len(s) + 1}
           /\ Len(s) + 1 \notin DOMAIN s
           /\ \A i \in DOMAIN s : Append(s, e)[i] = s[i]
           /\ Append(s, e)[Len(s) + 1] = e
OBVIOUS

\* The entries of a package after one more entry was logged.
LEMMA LoggedAppend ==
    ASSUME log \in Seq(LogRecord), NEW e \in LogRecord, log' = Append(log, e), NEW p
    PROVE  /\ e.package # p => Logged(p)' = Logged(p)
           /\ e.package = p => Logged(p)' = Logged(p) \cup {Len(log) + 1}
           /\ Len(log) + 1 \notin Logged(p)
BY AppendFacts DEF Logged

LEMMA LogPackageNat ==
    ASSUME log \in Seq(LogRecord), NEW i \in DOMAIN log
    PROVE  log[i].package \in Nat
<1>1. log[i] \in LogRecord
  OBVIOUS
<1> QED BY <1>1 DEF LogRecord

LEMMA LoggedFinite ==
    ASSUME log \in Seq(LogRecord), NEW p
    PROVE  IsFiniteSet(Logged(p))
<1>1. Logged(p) \subseteq 1..Len(log) /\ Len(log) \in Nat
  BY DEF Logged
<1>2. IsFiniteSet(1..Len(log))
  BY <1>1, FS_Interval
<1> QED BY <1>1, <1>2, FS_Subset

LEMMA GateInitInv == GateInit => GateInv
<1> SUFFICES ASSUME GateInit PROVE GateInv
  OBVIOUS
<1>1. Logged(0) = {} /\ IsFiniteSet({}) /\ Cardinality({}) = 0
  BY FS_EmptySet DEF GateInit, Logged
<1>2. GateTypes
  BY <1>1 DEF GateInit, GateTypes
<1>3. EntriesInv
  BY DEF GateInit, EntriesInv
<1>4. TallyInv
  <2>1. verdicts["certified"] = 0 /\ verdicts["rejected"] = 0 /\ Len(packages) = 0
    BY DEF GateInit
  <2> QED BY <1>1, <2>1 DEF TallyInv
<1>5. BilledOncePerRelease
  <2>1. /\ metered["gate_submission"] = 0 /\ metered["gate_release"] = 0 /\ metered["gate_block"] = 0
        /\ Len(packages) = 0 /\ running = {}
    BY DEF GateInit
  <2> QED BY <1>1, <2>1 DEF BilledOncePerRelease
<1> QED BY <1>2, <1>3, <1>4, <1>5 DEF GateInv

LEMMA SubmitBlockedKeeps ==
    ASSUME GateInv, NEW r, SubmitBlocked(r)
    PROVE  GateInv'
<1> DEFINE e == [package |-> 0, status |-> "blocked"]
<1>1. /\ log' = Append(log, e) /\ UNCHANGED <<packages, running, metered>>
      /\ verdicts' = [verdicts EXCEPT !["rejected"] = @ + 1]
  BY DEF SubmitBlocked, Record
<1>2. e \in LogRecord /\ e.package = 0
  BY DEF LogRecord
<1> HIDE DEF e
<1>3. log \in Seq(LogRecord)
  BY DEF GateInv, GateTypes
<1>4. /\ Logged(0)' = Logged(0) \cup {Len(log) + 1} /\ Len(log) + 1 \notin Logged(0)
      /\ \A p \in DOMAIN packages : Logged(p)' = Logged(p)
  <2>1. ASSUME NEW p \in DOMAIN packages PROVE Logged(p)' = Logged(p)
    <3>1. p # 0
      BY DEF GateInv, GateTypes
    <3> QED BY <1>1, <1>2, <1>3, <3>1, LoggedAppend
  <2> QED BY <1>1, <1>2, <1>3, <2>1, LoggedAppend
<1>5. GateTypes'
  BY <1>1, <1>2, <1>3, AppendFacts DEF GateInv, GateTypes
<1>6. EntriesInv'
  <2>1. \A i \in DOMAIN log' : log'[i].package <= Len(packages')
    BY <1>1, <1>2, <1>3, AppendFacts DEF GateInv, GateTypes, EntriesInv
  <2>2. \A p \in running' : Logged(p)' = {}
    BY <1>1, <1>4 DEF GateInv, GateTypes, EntriesInv
  <2>3. DOMAIN log \subseteq DOMAIN log' /\ DOMAIN packages' = DOMAIN packages
    BY <1>1, <1>2, <1>3, AppendFacts
  <2>4. \A p \in DOMAIN packages' \ running' : \E i \in DOMAIN log' : Logged(p)' = {i}
    BY <1>1, <1>4, <2>3 DEF GateInv, EntriesInv
  <2> QED BY <2>1, <2>2, <2>4 DEF EntriesInv
<1>7. TallyInv'
  <2>1. Cardinality(Logged(0)') = Cardinality(Logged(0)) + 1
    BY <1>3, <1>4, LoggedFinite, FS_AddElement
  <2> QED BY <1>1, <2>1 DEF GateInv, GateTypes, TallyInv
<1>8. BilledOncePerRelease'
  BY <1>1 DEF GateInv, BilledOncePerRelease
<1> QED BY <1>5, <1>6, <1>7, <1>8 DEF GateInv

\* What submit meters for a request that was not blocked.
LEMMA MeteredCounts ==
    ASSUME GateTypes,
           metered' = [metered EXCEPT !["gate_submission"] = @ + 1, !["gate_release"] = @ + 1]
    PROVE  /\ metered'["gate_release"] = metered["gate_release"] + 1
           /\ metered'["gate_submission"] = metered["gate_submission"] + 1
           /\ metered'["gate_block"] = metered["gate_block"]
           /\ \A e \in {"gate_submission", "gate_block", "gate_release"} : metered[e] \in Nat
BY DEF GateTypes

LEMMA SubmitCompiledKeeps ==
    ASSUME GateInv, NEW r \in Request, SubmitCompiled(r)
    PROVE  GateInv'
<1>0. PICK n : n = Len(packages) + 1
  OBVIOUS
<1> DEFINE e == [package |-> n, status |-> "compiled"]
<1>1. /\ packages \in Seq(Request) /\ log \in Seq(LogRecord) /\ n \in Nat /\ n > 0
      /\ n \notin DOMAIN packages
  BY <1>0 DEF GateInv, GateTypes
<1>2. packages' = Append(packages, r) /\ Len(packages') = n
  BY <1>0, <1>1, AppendFacts DEF SubmitCompiled
<1>3. /\ log' = Append(log, e) /\ UNCHANGED running
      /\ verdicts' = [verdicts EXCEPT !["certified"] = @ + 1]
      /\ metered' = [metered EXCEPT !["gate_submission"] = @ + 1, !["gate_release"] = @ + 1]
  BY <1>2 DEF SubmitCompiled, Record, Metered
<1>4. e \in LogRecord /\ e.package = n
  BY <1>1 DEF LogRecord
<1>5. DOMAIN packages' = DOMAIN packages \cup {n}
  BY <1>0, <1>1, <1>2, AppendFacts
<1> HIDE DEF e
<1>6. /\ Logged(n) = {}
      /\ Logged(n)' = {Len(log) + 1} /\ Len(log) + 1 \in DOMAIN log'
      /\ Logged(0)' = Logged(0)
      /\ \A p \in DOMAIN packages : Logged(p)' = Logged(p)
  <2>1. Logged(n) = {}
    BY <1>0, <1>1 DEF GateInv, EntriesInv, Logged, LogRecord
  <2>2. \A p : p # n => Logged(p)' = Logged(p)
    BY <1>1, <1>3, <1>4, LoggedAppend
  <2>3. Logged(n)' = Logged(n) \cup {Len(log) + 1}
    BY <1>1, <1>3, <1>4, LoggedAppend
  <2>4. Len(log) + 1 \in DOMAIN log'
    BY <1>1, <1>3, <1>4, AppendFacts
  <2> QED BY <1>1, <2>1, <2>2, <2>3, <2>4
<1>7. GateTypes'
  <2>1. packages' \in Seq(Request) /\ log' \in Seq(LogRecord)
    BY <1>1, <1>2, <1>3, <1>4, AppendFacts
  <2>2. running' \subseteq DOMAIN packages' /\ IsFiniteSet(running')
    BY <1>3, <1>5 DEF GateInv, GateTypes
  <2>3. verdicts' \in [{"certified", "rejected"} -> Nat]
    BY <1>3 DEF GateInv, GateTypes
  <2>4. metered' \in [{"gate_submission", "gate_block", "gate_release"} -> Nat]
    BY <1>3 DEF GateInv, GateTypes
  <2> QED BY <2>1, <2>2, <2>3, <2>4 DEF GateTypes
<1>8. EntriesInv'
  <2>1. ASSUME NEW i \in DOMAIN log' PROVE log'[i].package <= Len(packages')
    <3>1. CASE i \in DOMAIN log
      <4>1. log'[i] = log[i]
        BY <1>1, <1>3, <1>4, <3>1, AppendFacts
      <4>2. log[i].package <= Len(packages)
        BY <3>1 DEF GateInv, EntriesInv
      <4>3. log[i].package \in Nat /\ Len(packages) \in Nat
        BY <1>1, <3>1, LogPackageNat
      <4> QED BY <1>0, <1>2, <4>1, <4>2, <4>3
    <3>2. CASE i = Len(log) + 1
      BY <1>1, <1>2, <1>3, <1>4, <3>2, AppendFacts
    <3> QED BY <1>1, <1>3, <1>4, <3>1, <3>2, AppendFacts
  <2>2. \A p \in running' : Logged(p)' = {}
    BY <1>3, <1>6 DEF GateInv, GateTypes, EntriesInv
  <2>3. DOMAIN log \subseteq DOMAIN log'
    BY <1>1, <1>3, <1>4, AppendFacts
  <2>4. \A p \in DOMAIN packages' \ running' : \E i \in DOMAIN log' : Logged(p)' = {i}
    BY <1>3, <1>5, <1>6, <2>3 DEF GateInv, EntriesInv
  <2> QED BY <2>1, <2>2, <2>4 DEF EntriesInv
<1>9. TallyInv'
  BY <1>2, <1>3, <1>6 DEF GateInv, GateTypes, TallyInv
<1>10. BilledOncePerRelease'
  <2>1. Cardinality(running) \in Nat /\ Len(packages) \in Nat /\ running' = running
    BY <1>1, <1>3, FS_CardinalityType DEF GateInv, GateTypes
  <2> QED BY <1>0, <1>2, <1>3, <2>1, MeteredCounts DEF GateInv, BilledOncePerRelease
<1> QED BY <1>7, <1>8, <1>9, <1>10 DEF GateInv

LEMMA ExecuteKeeps ==
    ASSUME GateInv, NEW r \in Request, Execute(r)
    PROVE  GateInv'
<1>0. PICK n : n = Len(packages) + 1
  OBVIOUS
<1>1. /\ packages \in Seq(Request) /\ log \in Seq(LogRecord) /\ n \in Nat
      /\ n \notin DOMAIN packages
  BY <1>0 DEF GateInv, GateTypes
<1>2. packages' = Append(packages, r) /\ Len(packages') = n
  BY <1>0, <1>1, AppendFacts DEF Execute
<1>3. /\ running' = running \cup {n} /\ UNCHANGED <<log, metered>>
      /\ verdicts' = [verdicts EXCEPT !["certified"] = @ + 1]
  BY <1>2 DEF Execute, Record
<1>4. DOMAIN packages' = DOMAIN packages \cup {n} /\ packages' \in Seq(Request)
  BY <1>0, <1>1, <1>2, AppendFacts
<1>5. n \notin running
  BY <1>1 DEF GateInv, GateTypes
<1>6. IsFiniteSet(running') /\ Cardinality(running') = Cardinality(running) + 1
  BY <1>3, <1>5, FS_AddElement DEF GateInv, GateTypes
<1>7. Logged(n) = {} /\ \A p : Logged(p)' = Logged(p)
  BY <1>0, <1>1, <1>3 DEF GateInv, EntriesInv, Logged, LogRecord
<1>8. GateTypes'
  BY <1>3, <1>4, <1>6 DEF GateInv, GateTypes
<1>9. EntriesInv'
  <2>1. ASSUME NEW i \in DOMAIN log' PROVE log'[i].package <= Len(packages')
    <3>1. log' = log /\ log[i].package <= Len(packages)
      BY <1>3 DEF GateInv, EntriesInv
    <3>2. log[i].package \in Nat /\ Len(packages) \in Nat
      BY <1>1, <3>1, LogPackageNat
    <3> QED BY <1>0, <1>2, <3>1, <3>2
  <2>2. \A p \in running' : Logged(p)' = {}
    BY <1>3, <1>7 DEF GateInv, EntriesInv
  <2>3. \A p \in DOMAIN packages' \ running' : \E i \in DOMAIN log' : Logged(p)' = {i}
    BY <1>3, <1>4, <1>7 DEF GateInv, EntriesInv
  <2> QED BY <2>1, <2>2, <2>3 DEF EntriesInv
<1>10. TallyInv'
  BY <1>2, <1>3, <1>7 DEF GateInv, GateTypes, TallyInv
<1>11. BilledOncePerRelease'
  <2>1. Cardinality(running) \in Nat /\ Len(packages) \in Nat
    BY <1>1, FS_CardinalityType DEF GateInv, GateTypes
  <2>2. Len(packages') - Cardinality(running') = Len(packages) - Cardinality(running)
    BY <1>2, <1>6, <2>1
  <2> QED BY <1>3, <2>2 DEF GateInv, BilledOncePerRelease
<1> QED BY <1>8, <1>9, <1>10, <1>11 DEF GateInv

LEMMA ExecutorReturnsKeeps ==
    ASSUME GateInv, NEW p, NEW outcome \in {"dispatched", "failed"}, ExecutorReturns(p, outcome)
    PROVE  GateInv'
<1> DEFINE e == [package |-> p, status |-> outcome]
<1>1. /\ packages \in Seq(Request) /\ log \in Seq(LogRecord)
      /\ p \in running /\ p \in DOMAIN packages /\ p \in Nat /\ p > 0 /\ p <= Len(packages)
  BY DEF GateInv, GateTypes, ExecutorReturns
<1>2. /\ running' = running \ {p} /\ log' = Append(log, e) /\ UNCHANGED <<packages, verdicts>>
      /\ metered' = [metered EXCEPT !["gate_submission"] = @ + 1, !["gate_release"] = @ + 1]
  BY DEF ExecutorReturns, Metered
<1>3. e \in LogRecord /\ e.package = p
  BY <1>1 DEF LogRecord
<1> HIDE DEF e
<1>4. IsFiniteSet(running') /\ Cardinality(running') = Cardinality(running) - 1
  BY <1>1, <1>2, FS_RemoveElement DEF GateInv, GateTypes
<1>5. /\ Logged(p)' = {Len(log) + 1} /\ Len(log) + 1 \in DOMAIN log'
      /\ \A q : q # p => Logged(q)' = Logged(q)
  <2>1. Logged(p) = {}
    BY <1>1 DEF GateInv, EntriesInv
  <2>2. /\ \A q : q # p => Logged(q)' = Logged(q)
        /\ Logged(p)' = Logged(p) \cup {Len(log) + 1}
    BY <1>1, <1>2, <1>3, LoggedAppend
  <2>3. Len(log) + 1 \in DOMAIN log'
    BY <1>1, <1>2, <1>3, AppendFacts
  <2> QED BY <2>1, <2>2, <2>3
<1>6. GateTypes'
  <2>1. packages' \in Seq(Request) /\ log' \in Seq(LogRecord)
    BY <1>1, <1>2, <1>3, AppendFacts
  <2>2. running' \subseteq DOMAIN packages' /\ verdicts' \in [{"certified", "rejected"} -> Nat]
    BY <1>2 DEF GateInv, GateTypes
  <2>3. metered' \in [{"gate_submission", "gate_block", "gate_release"} -> Nat]
    BY <1>2 DEF GateInv, GateTypes
  <2> QED BY <1>4, <2>1, <2>2, <2>3 DEF GateTypes
<1>7. EntriesInv'
  <2>1. \A i \in DOMAIN log' : log'[i].package <= Len(packages')
    BY <1>1, <1>2, <1>3, AppendFacts DEF GateInv, EntriesInv
  <2>2. \A q \in running' : Logged(q)' = {}
    BY <1>2, <1>5 DEF GateInv, EntriesInv
  <2>3. DOMAIN log \subseteq DOMAIN log' /\ DOMAIN packages' = DOMAIN packages
    BY <1>1, <1>2, <1>3, AppendFacts
  <2>4. \A q \in DOMAIN packages' \ running' : \E i \in DOMAIN log' : Logged(q)' = {i}
    BY <1>1, <1>2, <1>5, <2>3 DEF GateInv, EntriesInv
  <2> QED BY <2>1, <2>2, <2>4 DEF EntriesInv
<1>8. TallyInv'
  BY <1>1, <1>2, <1>5 DEF GateInv, TallyInv
<1>9. BilledOncePerRelease'
  <2>1. Cardinality(running) \in Nat /\ Len(packages) \in Nat /\ packages' = packages
    BY <1>1, <1>2, FS_CardinalityType DEF GateInv, GateTypes
  <2> QED BY <1>2, <1>4, <2>1, MeteredCounts DEF GateInv, BilledOncePerRelease
<1> QED BY <1>6, <1>7, <1>8, <1>9 DEF GateInv

LEMMA GateSubmitKeeps ==
    ASSUME GateInv, NEW r \in Request, GateSubmit(r)
    PROVE  GateInv'
BY SubmitBlockedKeeps, SubmitCompiledKeeps DEF GateSubmit

LEMMA GateStep == GateInv /\ [GateNext]_gateVars => GateInv'
<1> SUFFICES ASSUME GateInv, [GateNext]_gateVars PROVE GateInv'
  OBVIOUS
<1>1. CASE UNCHANGED gateVars
  BY <1>1 DEF gateVars, GateInv, GateTypes, EntriesInv, TallyInv, BilledOncePerRelease, Logged
<1>2. CASE GateNext
  BY <1>2, SubmissionAssumption, GateSubmitKeeps, ExecuteKeeps, ExecutorReturnsKeeps
     DEF GateNext
<1> QED BY <1>1, <1>2

\* What the gate's invariant says of the log, in the words of the property.
LEMMA GateInvLogged == GateInv => DispatchesLogged
<1> SUFFICES ASSUME GateInv PROVE DispatchesLogged
  OBVIOUS
<1>1. ASSUME NEW p \in DOMAIN packages
      PROVE  Cardinality(Logged(p)) = IF p \in running THEN 0 ELSE 1
  <2>1. CASE p \in running
    BY <2>1, FS_EmptySet DEF GateInv, EntriesInv
  <2>2. CASE p \notin running
    BY <2>2, FS_Singleton DEF GateInv, EntriesInv
  <2> QED BY <2>1, <2>2
<1> QED BY <1>1 DEF GateInv, TallyInv, DispatchesLogged

-----------------------------------------------------------------------------
(* The registry *)

StoredObject == [version : Nat \ {0}, state : ControlObjectState,
                 plane : Plane, type : ObjectType]

RegistryTypes ==
    /\ objects \in [ObjectId -> StoredObject \cup {NotRegistered}]
    /\ records \in [ObjectId -> Seq(StoredObject)]
    /\ events \in [ObjectId -> [EventType -> Nat]]
    /\ plane_index \in [Plane -> SUBSET ObjectId]
    /\ type_index \in [ObjectType -> SUBSET ObjectId]
    /\ held \in [Client -> {Nothing} \cup [id : ObjectId, object : StoredObject]]

\* An id that was never registered has no records, so its first version is 1.
FreshInv == \A o \in ObjectId \ Registered : records[o] = <<>>

\* The inductive invariant of the registry
RegistryInv == RegistryTypes /\ FreshInv /\ VersionsLinear /\ IndicesFindObjects

LEMMA RegisteredTyped ==
    ASSUME RegistryInv
    PROVE  /\ Registered = {o \in ObjectId : objects[o] \in StoredObject}
           /\ \A o \in Registered : /\ objects[o] \in StoredObject
                                    /\ objects[o].version = Len(records[o])
                                    /\ objects[o] = records[o][Len(records[o])]
<1>1. ASSUME NEW x \in StoredObject PROVE x # NotRegistered
  <2>1. x.version # 0
    BY DEF StoredObject
  <2> QED BY <2>1 DEF NotRegistered
<1>2. \A o \in ObjectId : objects[o] \in StoredObject \/ objects[o] = NotRegistered
  BY DEF RegistryInv, RegistryTypes
<1>3. Registered = {o \in ObjectId : objects[o] \in StoredObject}
  BY <1>1, <1>2 DEF Registered
<1>4. ASSUME NEW o \in Registered
      PROVE  objects[o].version = Len(records[o]) /\ objects[o] = records[o][Len(records[o])]
  <2>1. o \in ObjectId /\ records[o] # <<>> /\ records[o] \in Seq(StoredObject)
        /\ records[o][Len(records[o])] = objects[o]
    BY DEF RegistryInv, RegistryTypes, VersionsLinear, Registered
  <2>2. Len(records[o]) \in DOMAIN records[o]
    BY <2>1
  <2> QED BY <2>1, <2>2 DEF RegistryInv, VersionsLinear
<1> QED BY <1>3, <1>4

\* What register, update and transition_state have in common: the next version
\* of an object is stored, recorded, counted and indexed.
LEMMA StoreKeeps ==
    ASSUME RegistryInv, NEW o \in ObjectId, NEW new \in StoredObject,
           new.version = Len(records[o]) + 1, Store(o, new),
           events' \in [ObjectId -> [EventType -> Nat]],
           \A x \in ObjectId \ {o} : events'[x] = events[x],
           events'[o]["registered"] + events'[o]["updated"] =
               events[o]["registered"] + events[o]["updated"] + 1,
           UNCHANGED held
    PROVE  RegistryInv'
<1>1. /\ objects' = [objects EXCEPT ![o] = new] /\ objects'[o] = new
      /\ records' = [records EXCEPT ![o] = Append(@, new)]
      /\ records'[o] = Append(records[o], new) /\ records[o] \in Seq(StoredObject)
      /\ \A x \in ObjectId \ {o} : objects'[x] = objects[x] /\ records'[x] = records[x]
  BY DEF Store, RegistryInv, RegistryTypes
<1>2. /\ plane_index' = [p \in Plane |-> IF p = new.plane THEN plane_index[p] \cup {o}
                                                          ELSE plane_index[p] \ {o}]
      /\ type_index' = [type_index EXCEPT ![new.type] = @ \cup {o}]
      /\ new.plane \in Plane /\ new.type \in ObjectType
  BY DEF Store, Indexed, StoredObject
<1>3. /\ Append(records[o], new) \in Seq(StoredObject)
      /\ Len(records'[o]) = Len(records[o]) + 1 /\ Len(records[o]) \in Nat
      /\ DOMAIN records'[o] = DOMAIN records[o] \cup {Len(records[o]) + 1}
      /\ \A i \in DOMAIN records[o] : records'[o][i] = records[o][i]
      /\ records'[o][Len(records[o]) + 1] = new
  BY <1>1, AppendFacts
<1>4. RegistryTypes'
  <2>1. objects' \in [ObjectId -> StoredObject \cup {NotRegistered}]
    BY <1>1 DEF RegistryInv, RegistryTypes
  <2>2. records' \in [ObjectId -> Seq(StoredObject)]
    BY <1>1, <1>3 DEF RegistryInv, RegistryTypes
  <2>3. plane_index' \in [Plane -> SUBSET ObjectId]
    BY <1>2 DEF RegistryInv, RegistryTypes
  <2>4. type_index' \in [ObjectType -> SUBSET ObjectId]
    BY <1>2 DEF RegistryInv, RegistryTypes
  <2> QED BY <2>1, <2>2, <2>3, <2>4 DEF RegistryInv, RegistryTypes
<1>5. Registered' = Registered \cup {o}
  <2>1. new # NotRegistered
    <3>1. new.version # 0
      BY DEF StoredObject
    <3> QED BY <3>1 DEF NotRegistered
  <2> QED BY <1>1, <2>1 DEF Registered
<1>6. FreshInv'
  BY <1>1, <1>5 DEF RegistryInv, FreshInv
<1>7. VersionsLinear'
  <2> SUFFICES ASSUME NEW x \in ObjectId
               PROVE  /\ \A i \in DOMAIN records'[x] : records'[x][i].version = i
                      /\ x \in Registered' => /\ records'[x] # <<>>
                                              /\ records'[x][Len(records'[x])] = objects'[x]
                      /\ Len(records'[x]) = events'[x]["registered"] + events'[x]["updated"]
    BY DEF VersionsLinear
  <2>1. CASE x = o
    <3>1. \A i \in DOMAIN records'[o] : records'[o][i].version = i
      BY <1>3 DEF RegistryInv, VersionsLinear
    <3>2. records'[o] # <<>> /\ records'[o][Len(records'[o])] = objects'[o]
      BY <1>1, <1>3
    <3>3. Len(records'[o]) = events'[o]["registered"] + events'[o]["updated"]
      BY <1>3 DEF RegistryInv, VersionsLinear
    <3> QED BY <2>1, <3>1, <3>2, <3>3
  <2>2. CASE x # o
    BY <1>1, <1>5, <2>2 DEF RegistryInv, VersionsLinear
  <2> QED BY <2>1, <2>2
<1>8. IndicesFindObjects'
  <2> SUFFICES ASSUME NEW x \in ObjectId
               PROVE  /\ \A p \in Plane : x \in plane_index'[p] <=>
                                              x \in Registered' /\ objects'[x].plane = p
                      /\ x \in Registered' => x \in type_index'[objects'[x].type]
    BY DEF IndicesFindObjects
  <2>1. CASE x = o
    BY <1>1, <1>2, <1>5, <2>1 DEF RegistryInv, RegistryTypes
  <2>2. CASE x # o
    <3>1. /\ \A p \in Plane : x \in plane_index'[p] <=> x \in plane_index[p]
          /\ \A t \in ObjectType : x \in type_index[t] => x \in type_index'[t]
      BY <1>2, <2>2 DEF RegistryInv, RegistryTypes
    <3>2. x \in Registered => objects[x].type \in ObjectType
      BY RegisteredTyped DEF StoredObject
    <3>3. (x \in Registered' <=> x \in Registered) /\ objects'[x] = objects[x]
      BY <1>1, <1>5, <2>2
    <3>4. ASSUME NEW p \in Plane
          PROVE  x \in plane_index'[p] <=> x \in Registered' /\ objects'[x].plane = p
      BY <3>1, <3>3 DEF RegistryInv, IndicesFindObjects
    <3> QED BY <3>1, <3>2, <3>3, <3>4 DEF RegistryInv, IndicesFindObjects
  <2> QED BY <2>1, <2>2
<1> QED BY <1>4, <1>6, <1>7, <1>8 DEF RegistryInv

LEMMA RegistryInitInv == Init => RegistryInv
<1> SUFFICES ASSUME Init PROVE RegistryInv
  OBVIOUS
<1>1. RegistryTypes
  BY DEF Init, RegistryTypes
<1>2. Registered = {}
  BY DEF Init, Registered
<1>3. FreshInv
  BY DEF Init, FreshInv
<1>4. VersionsLinear
  BY <1>2 DEF Init, VersionsLinear, EventType
<1>5. IndicesFindObjects
  BY <1>2 DEF Init, IndicesFindObjects
<1> QED BY <1>1, <1>3, <1>4, <1>5 DEF RegistryInv

LEMMA RegisterKeeps ==
    ASSUME RegistryInv, NEW o \in ObjectId, NEW plane \in Plane, NEW type \in ObjectType,
           o \notin Registered, UNCHANGED held,
           Store(o, [version |-> 1, state |-> "draft", plane |-> plane, type |-> type]),
           events' = [events EXCEPT ![o]["registered"] = @ + 1]
    PROVE  RegistryInv'
<1> DEFINE new == [version |-> 1, state |-> "draft", plane |-> plane, type |-> type]
<1>1. new \in StoredObject /\ new.version = 1
  BY DEF StoredObject, ControlObjectState
<1>2. Len(records[o]) = 0
  BY DEF RegistryInv, FreshInv
<1>3. events \in [ObjectId -> [EventType -> Nat]]
  BY DEF RegistryInv, RegistryTypes
<1>4. /\ events' \in [ObjectId -> [EventType -> Nat]]
      /\ \A x \in ObjectId \ {o} : events'[x] = events[x]
      /\ events'[o]["registered"] + events'[o]["updated"] =
             events[o]["registered"] + events[o]["updated"] + 1
  BY <1>3 DEF EventType
<1>5. Store(o, new)
  OBVIOUS
<1> HIDE DEF new
<1> QED BY <1>1, <1>2, <1>4, <1>5, StoreKeeps

LEMMA GetKeeps ==
    ASSUME RegistryInv, NEW c \in Client, NEW o \in ObjectId, Get(c, o)
    PROVE  RegistryInv'
<1>1. /\ held' = [held EXCEPT ![c] = [id |-> o, object |-> objects[o]]]
      /\ UNCHANGED <<objects, records, events, plane_index, type_index>>
  BY DEF Get
<1>2. objects[o] \in StoredObject
  BY RegisteredTyped DEF Get
<1>3. held' \in [Client -> {Nothing} \cup [id : ObjectId, object : StoredObject]]
  BY <1>1, <1>2 DEF RegistryInv, RegistryTypes
<1>4. RegistryTypes'
  BY <1>1, <1>3 DEF RegistryInv, RegistryTypes
<1> QED
  BY <1>1, <1>4
     DEF RegistryInv, FreshInv, VersionsLinear, IndicesFindObjects, Registered

LEMMA UpdateKeeps ==
    ASSUME RegistryInv, NEW c \in Client, NEW state \in ControlObjectState,
           NEW plane \in Plane, NEW type \in ObjectType, Update(c, state, plane, type)
    PROVE  RegistryInv'
<1>1. PICK o \in ObjectId : o = held[c].id /\ held[c].object \in StoredObject
  BY DEF Update, RegistryInv, RegistryTypes
<1>2. PICK new : new = [version |-> held[c].object.version + 1, state |-> state,
                        plane |-> plane, type |-> type]
  OBVIOUS
<1>3. /\ o \in Registered /\ new.version = objects[o].version + 1 /\ Store(o, new)
      /\ events' = [events EXCEPT ![o]["updated"] = @ + 1] /\ UNCHANGED held
  BY <1>1, <1>2 DEF Update
<1>4. new \in StoredObject
  BY <1>1, <1>2 DEF StoredObject
<1>5. new.version = Len(records[o]) + 1
  BY <1>3, RegisteredTyped
<1>6. events \in [ObjectId -> [EventType -> Nat]]
  BY DEF RegistryInv, RegistryTypes
<1>7. /\ events' \in [ObjectId -> [EventType -> Nat]]
      /\ \A x \in ObjectId \ {o} : events'[x] = events[x]
      /\ events'[o]["registered"] + events'[o]["updated"] =
             events[o]["registered"] + events[o]["updated"] + 1
  BY <1>3, <1>6 DEF EventType
<1> QED BY <1>3, <1>4, <1>5, <1>7, StoreKeeps

LEMMA TransitionKeeps ==
    ASSUME RegistryInv, NEW o \in Registered, NEW state \in ControlObjectState,
           Transition(o, state)
    PROVE  RegistryInv'
<1>1. PICK new : new = [objects[o] EXCEPT !.version = @ + 1, !.state = state]
  OBVIOUS
<1>2. /\ Store(o, new) /\ UNCHANGED held
      /\ events' = [events EXCEPT ![o]["updated"] = @ + 1, ![o]["state_changed"] = @ + 1]
  BY <1>1 DEF Transition
<1>3. o \in ObjectId /\ objects[o] \in StoredObject /\ objects[o].version = Len(records[o])
  BY RegisteredTyped DEF Registered
<1>4. new \in StoredObject /\ new.version = Len(records[o]) + 1
  <2>1. PICK obj \in StoredObject : obj = objects[o]
    BY <1>3
  <2>2. new = [obj EXCEPT !.version = obj.version + 1, !.state = state]
    BY <1>1, <2>1
  <2>3. obj = [version |-> obj.version, state |-> obj.state, plane |-> obj.plane,
               type |-> obj.type]
    BY DEF StoredObject
  <2>4. new = [version |-> obj.version + 1, state |-> state, plane |-> obj.plane,
               type |-> obj.type]
    BY <2>2, <2>3
  <2>5. new \in StoredObject /\ new.version = obj.version + 1
    BY <2>4 DEF StoredObject
  <2> QED BY <1>3, <2>1, <2>5
<1>5. events \in [ObjectId -> [EventType -> Nat]]
  BY DEF RegistryInv, RegistryTypes
<1>6. /\ events' \in [ObjectId -> [EventType -> Nat]]
      /\ \A x \in ObjectId \ {o} : events'[x] = events[x]
      /\ events'[o]["registered"] + events'[o]["updated"] =
             events[o]["registered"] + events[o]["updated"] + 1
  BY <1>2, <1>3, <1>5 DEF EventType
<1> QED BY <1>2, <1>3, <1>4, <1>6, StoreKeeps

LEMMA RegistryStutters == RegistryInv /\ UNCHANGED registryVars => RegistryInv'
BY DEF RegistryInv, RegistryTypes, FreshInv, VersionsLinear, IndicesFindObjects, Registered,
       registryVars

-----------------------------------------------------------------------------
(* The gate and the registry together *)

LEMMA GateStutters == GateInv /\ UNCHANGED gateVars => GateInv'
BY GateStep

LEMMA TransitionRequestIsRequest == \A by \in BOOLEAN : TransitionRequest(by) \in Request
BY TransitionAssumption DEF TransitionRequest, Request, Origin

SystemInv == GateInv /\ RegistryInv

LEMMA SystemStep == SystemInv /\ [Next]_vars => SystemInv'
<1> SUFFICES ASSUME GateInv, RegistryInv, [Next]_vars PROVE GateInv' /\ RegistryInv'
  BY DEF SystemInv
<1>1. ASSUME NEW o \in ObjectId, NEW plane \in Plane, NEW type \in ObjectType,
             Register(o, plane, type)
      PROVE  GateInv' /\ RegistryInv'
  BY <1>1, RegisterKeeps, GateStutters DEF Register
<1>2. ASSUME NEW c \in Client, NEW o \in ObjectId, Get(c, o)
      PROVE  GateInv' /\ RegistryInv'
  <2>1. UNCHANGED gateVars
    BY <1>2 DEF Get
  <2> QED BY <1>2, <2>1, GetKeeps, GateStutters
<1>3. ASSUME NEW c \in Client, NEW state \in ControlObjectState, NEW plane \in Plane,
             NEW type \in ObjectType, Update(c, state, plane, type)
      PROVE  GateInv' /\ RegistryInv'
  <2>1. UNCHANGED gateVars
    BY <1>3 DEF Update
  <2> QED BY <1>3, <2>1, UpdateKeeps, GateStutters
<1>4. ASSUME NEW o \in ObjectId, NEW state \in ControlObjectState, TransitionUngated(o, state)
      PROVE  GateInv' /\ RegistryInv'
  BY <1>4, TransitionKeeps, GateStutters DEF TransitionUngated
<1>5. ASSUME NEW o \in ObjectId, NEW state \in ControlObjectState, NEW by \in BOOLEAN,
             TransitionGated(o, state, by)
      PROVE  GateInv' /\ RegistryInv'
  <2>1. GateInv'
    BY <1>5, TransitionRequestIsRequest, GateSubmitKeeps DEF TransitionGated
  <2>2. o \in Registered /\ (Transition(o, state) \/ UNCHANGED registryVars)
    BY <1>5 DEF TransitionGated
  <2> QED BY <2>1, <2>2, TransitionKeeps, RegistryStutters
<1>6. CASE OthersUseGate
  BY <1>6, GateStep, RegistryStutters DEF OthersUseGate
<1>7. CASE UNCHANGED vars
  <2>1. UNCHANGED gateVars /\ UNCHANGED registryVars
    BY <1>7 DEF vars
  <2> QED BY <2>1, GateStutters, RegistryStutters
<1> QED BY <1>1, <1>2, <1>3, <1>4, <1>5, <1>6, <1>7 DEF Next

LEMMA SystemInvariant == Spec => []SystemInv
<1>1. Init => SystemInv
  BY GateInitInv, RegistryInitInv DEF Init, SystemInv
<1> QED BY <1>1, SystemStep, PTL DEF Spec

(***************************************************************************)
(* Every dispatch is in the audit log exactly once, under its own package, *)
(* however executors overlap, and the chain's tally agrees with packages   *)
(* and log, whatever the policy and however many requests are submitted,   *)
(* by the registry's transitions (ObjectRegistry.transition_state) and by  *)
(* other callers of PlatformReleaseGate.submit.                            *)
(***************************************************************************)
THEOREM EveryDispatchLogged == Spec => []DispatchesLogged
<1>1. SystemInv => DispatchesLogged
  BY GateInvLogged DEF SystemInv
<1> QED BY <1>1, SystemInvariant, PTL

(***************************************************************************)
(* The release events that submit meters are as many as the packages whose *)
(* dispatch is over, whether executors returned, raised or nested, and the *)
(* billable submission events are the releases and the blocks metered.     *)
(***************************************************************************)
THEOREM ReleasesBilledOnce == Spec => []BilledOncePerRelease
<1>1. SystemInv => BilledOncePerRelease
  BY DEF SystemInv, GateInv
<1> QED BY <1>1, SystemInvariant, PTL

(***************************************************************************)
(* Version control is linear: update's comparison of versions is enough to *)
(* keep records, objects and events in step for any number of clients that *)
(* build successors from objects they got earlier.                         *)
(***************************************************************************)
THEOREM VersionControlLinear == Spec => []VersionsLinear
<1>1. SystemInv => VersionsLinear
  BY DEF SystemInv, RegistryInv
<1> QED BY <1>1, SystemInvariant, PTL

(***************************************************************************)
(* _remove_from_indices and _update_indices keep the plane index exact and *)
(* the type index complete through registrations, updates that move        *)
(* objects between planes, and transitions.                                *)
(***************************************************************************)
THEOREM IndicesComplete == Spec => []IndicesFindObjects
<1>1. SystemInv => IndicesFindObjects
  BY DEF SystemInv, RegistryInv
<1> QED BY <1>1, SystemInvariant, PTL

-----------------------------------------------------------------------------
(* The graph store, ingestion and cross-plane reconciliation               *)

Recorded(o, obj) == \E i \in DOMAIN records[o] : records[o][i] = obj

NodesInv == nodes \in [ObjectId -> StoredObject \cup {NotRegistered}]

\* A copy that a client holds was recorded, so that update_object may store it.
HeldInv == \A c \in Client : held[c] # Nothing => Recorded(held[c].id, held[c].object)

\* The store's type index finds every object, under the type of one of its versions.
IndexInv ==
    /\ by_type \in [ObjectType -> SUBSET ObjectId]
    /\ \A o \in InStore : \E i \in DOMAIN records[o] : o \in by_type[records[o][i].type]

\* The inductive invariant of the registry and the store
CopiesInv == RegistryInv /\ NodesInv /\ HeldInv /\ StoreIsHistory /\ IndexInv

PlaneEdge == [source : ObjectId, target : ObjectId, type : RelationshipType,
              valid_from : Nat, valid_until : Nat, is_active : BOOLEAN]

EdgesInv ==
    /\ now \in Nat
    /\ edges \in [EdgeId -> PlaneEdge \cup {NoEdge}]
    /\ \A e \in EdgeId : edges[e] # NoEdge => edges[e].source # edges[e].target

\* Cases are found by runs that were counted, so that a new run's cases are new and
\* none of them resolved; a conflict's edge is there to stay.
CasesInv ==
    /\ counted.runs \in Nat
    /\ resolved \subseteq cases
    /\ \A c \in cases : c.run \in Nat /\ c.run <= counted.runs
    /\ \A c \in cases : c.defect.case_type = "conflict" =>
                            c.defect.edge \in EdgeId /\ edges[c.defect.edge] # NoEdge

\* The inductive invariant of the edges and the cases
FindingsInv == EdgesInv /\ CasesInv /\ OrphanInConflictOnlyOutOfWindow

-----------------------------------------------------------------------------
(* The registry and the store *)

\* Records are only added to.
RecordsGrow ==
    \A o \in ObjectId : \A i \in DOMAIN records[o] :
        i \in DOMAIN records'[o] /\ records'[o][i] = records[o][i]

LEMMA StoreGrows ==
    ASSUME RegistryInv, NEW o \in ObjectId, NEW new \in StoredObject, Store(o, new)
    PROVE  /\ RecordsGrow
           /\ Recorded(o, new)'
           /\ Registered' = Registered \cup {o}
<1>1. /\ objects' = [objects EXCEPT ![o] = new]
      /\ records' = [records EXCEPT ![o] = Append(@, new)]
      /\ records'[o] = Append(records[o], new) /\ records[o] \in Seq(StoredObject)
      /\ \A x \in ObjectId \ {o} : objects'[x] = objects[x] /\ records'[x] = records[x]
      /\ objects'[o] = new
  BY DEF Store, RegistryInv, RegistryTypes
<1>2. /\ DOMAIN records'[o] = DOMAIN records[o] \cup {Len(records[o]) + 1}
      /\ \A i \in DOMAIN records[o] : records'[o][i] = records[o][i]
      /\ records'[o][Len(records[o]) + 1] = new
  BY <1>1, AppendFacts
<1>3. RecordsGrow
  BY <1>1, <1>2 DEF RecordsGrow
<1>4. Recorded(o, new)'
  BY <1>2 DEF Recorded
<1>5. new # NotRegistered
  <2>1. new.version # 0
    BY DEF StoredObject
  <2> QED BY <2>1 DEF NotRegistered
<1>6. Registered' = Registered \cup {o}
  BY <1>1, <1>5 DEF Registered
<1> QED BY <1>3, <1>4, <1>6

LEMMA RecordedStays ==
    ASSUME RecordsGrow, NEW o \in ObjectId, NEW obj, Recorded(o, obj)
    PROVE  Recorded(o, obj)'
BY DEF RecordsGrow, Recorded

LEMMA HeldIdTyped ==
    ASSUME RegistryInv, NEW c \in Client, held[c] # Nothing
    PROVE  held[c].id \in ObjectId /\ held[c].object \in StoredObject
BY DEF RegistryInv, RegistryTypes

LEMMA StoredIsRegistered ==
    ASSUME NEW x \in StoredObject PROVE x # NotRegistered
<1>1. x.version # 0
  BY DEF StoredObject
<1> QED BY <1>1 DEF NotRegistered

\* Held copies stay recorded when records are only added to.
LEMMA HeldGrows ==
    ASSUME CopiesInv, RecordsGrow, UNCHANGED held
    PROVE  HeldInv'
<1>1. ASSUME NEW c \in Client, held[c] # Nothing
      PROVE  Recorded(held[c].id, held[c].object)'
  <2>1. PICK o \in ObjectId : o = held[c].id
    BY <1>1, HeldIdTyped DEF CopiesInv
  <2>2. PICK obj : obj = held[c].object
    OBVIOUS
  <2>3. Recorded(o, obj)
    BY <1>1, <2>1, <2>2 DEF CopiesInv, HeldInv
  <2>4. Recorded(o, obj)'
    BY <2>3, RecordedStays
  <2> QED BY <2>1, <2>2, <2>4 DEF Recorded
<1> QED BY <1>1 DEF HeldInv

\* The copies are kept by a step that only adds records and registrations and
\* leaves clients and the store alone.
LEMMA CopiesGrow ==
    ASSUME CopiesInv, RegistryInv', RecordsGrow, Registered \subseteq Registered',
           UNCHANGED <<held, nodes, by_type>>
    PROVE  CopiesInv'
<1>1. NodesInv' /\ InStore' = InStore /\ InStore \subseteq ObjectId
  BY DEF CopiesInv, NodesInv, InStore
<1>2. HeldInv'
  BY HeldGrows
<1>3. StoreIsHistory'
  BY <1>1 DEF CopiesInv, StoreIsHistory, RecordsGrow
<1>4. IndexInv'
  BY <1>1 DEF CopiesInv, IndexInv, RecordsGrow
<1> QED BY <1>1, <1>2, <1>3, <1>4 DEF CopiesInv

LEMMA CopiesStutter ==
    ASSUME CopiesInv, UNCHANGED <<registryVars, nodes, by_type>>
    PROVE  CopiesInv'
<1>1. RegistryInv'
  BY RegistryStutters DEF CopiesInv
<1>2. UNCHANGED <<objects, records, held, nodes, by_type>>
  BY DEF registryVars
<1>3. RecordsGrow
  BY <1>2 DEF RecordsGrow
<1>4. Registered' = Registered
  BY <1>2 DEF Registered
<1> QED BY <1>1, <1>2, <1>3, <1>4, CopiesGrow

\* register, update and transition_state, as the store sees them.
LEMMA CopiesStore ==
    ASSUME CopiesInv, RegistryInv', NEW o \in ObjectId, NEW new, Store(o, new),
           UNCHANGED <<held, nodes, by_type>>
    PROVE  CopiesInv'
<1>1. RegistryInv
  BY DEF CopiesInv
<1>2. new \in StoredObject
  <2>1. objects' = [objects EXCEPT ![o] = new]
    BY DEF Store
  <2>2. objects'[o] = new
    BY <1>1, <2>1 DEF RegistryInv, RegistryTypes
  <2>3. Len(records'[o]) > 0
    BY <1>1 DEF RegistryInv, RegistryTypes, Store
  <2>4. o \in Registered'
    BY <2>3 DEF RegistryInv, FreshInv
  <2> QED BY <2>2, <2>4 DEF RegistryInv, RegistryTypes, Registered
<1>3. RecordsGrow /\ Registered' = Registered \cup {o}
  BY <1>1, <1>2, StoreGrows
<1> QED BY <1>3, CopiesGrow

\* add_object puts a recorded version of a registered object into the store.
LEMMA StoreObjectKeeps ==
    ASSUME CopiesInv, RegistryInv', HeldInv', RecordsGrow, Registered \subseteq Registered',
           NEW o \in ObjectId, NEW obj \in StoredObject, Recorded(o, obj)', o \in Registered',
           StoreObject(o, obj)
    PROVE  CopiesInv'
<1>1. /\ nodes' = [nodes EXCEPT ![o] = obj] /\ obj.type \in ObjectType
      /\ by_type' = [by_type EXCEPT ![obj.type] = @ \cup {o}]
  BY DEF StoreObject, StoredObject
<1>2. /\ nodes'[o] = obj /\ \A x \in ObjectId \ {o} : nodes'[x] = nodes[x]
      /\ obj # NotRegistered
  BY <1>1, StoredIsRegistered DEF CopiesInv, NodesInv
<1>3. NodesInv'
  BY <1>1 DEF CopiesInv, NodesInv
<1>4. InStore' = InStore \cup {o}
  BY <1>2 DEF InStore
<1>5. StoreIsHistory'
  <2>1. InStore' \subseteq Registered'
    BY <1>4 DEF CopiesInv, StoreIsHistory
  <2>2. ASSUME NEW x \in InStore'
        PROVE  \E i \in DOMAIN records'[x] : records'[x][i] = nodes'[x]
    <3>1. CASE x = o
      BY <1>2, <3>1 DEF Recorded
    <3>2. CASE x # o
      <4>1. x \in InStore /\ x \in ObjectId /\ nodes'[x] = nodes[x]
        BY <1>2, <1>4, <2>2, <3>2 DEF InStore
      <4> QED BY <4>1 DEF CopiesInv, StoreIsHistory, RecordsGrow
    <3> QED BY <3>1, <3>2
  <2> QED BY <2>1, <2>2 DEF StoreIsHistory
<1>6. IndexInv'
  <2>1. /\ by_type' \in [ObjectType -> SUBSET ObjectId]
        /\ o \in by_type'[obj.type]
        /\ \A t \in ObjectType : by_type[t] \subseteq by_type'[t]
    BY <1>1 DEF CopiesInv, IndexInv
  <2>2. ASSUME NEW x \in InStore'
        PROVE  \E i \in DOMAIN records'[x] : x \in by_type'[records'[x][i].type]
    <3>1. CASE x = o
      BY <2>1, <3>1 DEF Recorded
    <3>2. CASE x # o
      <4>1. x \in InStore /\ x \in ObjectId
        BY <1>4, <2>2, <3>2 DEF InStore
      <4>2. PICK i \in DOMAIN records[x] : x \in by_type[records[x][i].type]
        BY <4>1 DEF CopiesInv, IndexInv
      <4>3. records[x][i] \in StoredObject
        BY <4>1, <4>2 DEF CopiesInv, RegistryInv, RegistryTypes
      <4>4. records[x][i].type \in ObjectType
        BY <4>3 DEF StoredObject
      <4>5. i \in DOMAIN records'[x] /\ records'[x][i] = records[x][i]
        BY <4>1, <4>2 DEF RecordsGrow
      <4> QED BY <2>1, <4>2, <4>4, <4>5
    <3> QED BY <3>1, <3>2
  <2> QED BY <2>1, <2>2 DEF IndexInv
<1> QED BY <1>3, <1>5, <1>6 DEF CopiesInv

LEMMA IngestedKeeps ==
    ASSUME CopiesInv, NEW o \in ObjectId, NEW plane \in Plane, NEW type \in ObjectType,
           o \notin Registered, Ingested(o, plane, type), UNCHANGED held
    PROVE  CopiesInv'
<1>1. PICK obj \in StoredObject :
          obj = [version |-> 1, state |-> "draft", plane |-> plane, type |-> type]
  <2> DEFINE new == [version |-> 1, state |-> "draft", plane |-> plane, type |-> type]
  <2>1. new \in StoredObject
    BY DEF StoredObject, ControlObjectState
  <2> QED BY <2>1
<1>2. /\ Store(o, obj) /\ StoreObject(o, obj)
      /\ events' = [events EXCEPT ![o]["registered"] = @ + 1]
  BY <1>1 DEF Ingested
<1>3. RegistryInv /\ RegistryInv'
  BY <1>1, <1>2, RegisterKeeps DEF CopiesInv
<1>4. RecordsGrow /\ Recorded(o, obj)' /\ Registered' = Registered \cup {o}
  BY <1>2, <1>3, StoreGrows
<1>5. HeldInv'
  BY <1>4, HeldGrows
<1> QED BY <1>2, <1>3, <1>4, <1>5, StoreObjectKeeps

LEMMA CopiesGet ==
    ASSUME CopiesInv, NEW c \in Client, NEW o \in ObjectId, Get(c, o), UNCHANGED <<nodes, by_type>>
    PROVE  CopiesInv'
<1>1. RegistryInv /\ RegistryInv'
  BY GetKeeps DEF CopiesInv
<1>2. /\ held' = [held EXCEPT ![c] = [id |-> o, object |-> objects[o]]] /\ o \in Registered
      /\ UNCHANGED <<objects, records>>
  BY DEF Get
<1>3. Recorded(o, objects[o])
  BY <1>1, <1>2 DEF RegistryInv, RegistryTypes, VersionsLinear, Recorded
<1>4. HeldInv'
  <2>1. ASSUME NEW d \in Client, held'[d] # Nothing
        PROVE  \E i \in DOMAIN records[held'[d].id] :
                  records[held'[d].id][i] = held'[d].object
    <3>1. CASE d = c
      <4>1. held'[d].id = o /\ held'[d].object = objects[o]
        BY <1>1, <1>2, <3>1 DEF RegistryInv, RegistryTypes
      <4> QED BY <1>3, <4>1 DEF Recorded
    <3>2. CASE d # c
      <4>1. held'[d] = held[d]
        BY <1>1, <1>2, <3>2 DEF RegistryInv, RegistryTypes
      <4> QED BY <2>1, <4>1 DEF CopiesInv, HeldInv, Recorded
    <3> QED BY <3>1, <3>2
  <2> QED BY <1>2, <2>1 DEF HeldInv, Recorded
<1>5. NodesInv' /\ StoreIsHistory' /\ IndexInv'
  BY <1>2 DEF CopiesInv, NodesInv, StoreIsHistory, IndexInv, InStore, Registered
<1> QED BY <1>1, <1>4, <1>5 DEF CopiesInv

LEMMA CopiesRegister ==
    ASSUME CopiesInv, NEW o \in ObjectId, NEW plane \in Plane, NEW type \in ObjectType,
           Register(o, plane, type), UNCHANGED <<nodes, by_type>>
    PROVE  CopiesInv'
<1>1. RegistryInv'
  BY RegisterKeeps DEF Register, CopiesInv
<1> QED BY <1>1, CopiesStore DEF Register

LEMMA CopiesUpdate ==
    ASSUME CopiesInv, NEW c \in Client, NEW state \in ControlObjectState,
           NEW plane \in Plane, NEW type \in ObjectType, Update(c, state, plane, type),
           UNCHANGED <<nodes, by_type>>
    PROVE  CopiesInv'
<1>1. RegistryInv /\ RegistryInv'
  BY UpdateKeeps DEF CopiesInv
<1>2. PICK o \in ObjectId : o = held[c].id
  BY <1>1, HeldIdTyped DEF Update
<1>3. PICK new : new = [version |-> held[c].object.version + 1, state |-> state,
                        plane |-> plane, type |-> type]
  OBVIOUS
<1>4. Store(o, new) /\ UNCHANGED held
  BY <1>2, <1>3 DEF Update
<1> QED BY <1>1, <1>4, CopiesStore

LEMMA CopiesTransition ==
    ASSUME CopiesInv, NEW o \in Registered, NEW state \in ControlObjectState,
           Transition(o, state), UNCHANGED <<nodes, by_type>>
    PROVE  CopiesInv'
<1>1. RegistryInv'
  BY TransitionKeeps DEF CopiesInv
<1>2. PICK new : new = [objects[o] EXCEPT !.version = @ + 1, !.state = state]
  OBVIOUS
<1>3. o \in ObjectId /\ Store(o, new) /\ UNCHANGED held
  BY <1>2 DEF Transition, Registered
<1> QED BY <1>1, <1>3, CopiesStore

LEMMA AddObjectKeeps ==
    ASSUME CopiesInv, NEW c \in Client, AddObject(c)
    PROVE  CopiesInv'
<1>1. /\ held[c] # Nothing /\ StoreObject(held[c].id, held[c].object)
      /\ UNCHANGED registryVars /\ UNCHANGED <<objects, records, held>>
  BY DEF AddObject, vars, registryVars
<1>2. RegistryInv /\ RegistryInv'
  BY <1>1, RegistryStutters DEF CopiesInv
<1>3. PICK o \in ObjectId : o = held[c].id
  BY <1>1, <1>2, HeldIdTyped
<1>4. PICK obj \in StoredObject : obj = held[c].object
  BY <1>1, <1>2, HeldIdTyped
<1>5. Recorded(o, obj) /\ Recorded(o, obj)'
  BY <1>1, <1>3, <1>4 DEF CopiesInv, HeldInv, Recorded
<1>6. RecordsGrow /\ Registered' = Registered
  BY <1>1 DEF RecordsGrow, Registered
<1>7. o \in Registered
  BY <1>2, <1>5 DEF RegistryInv, FreshInv, Recorded
<1>8. HeldInv'
  BY <1>1, <1>6, HeldGrows
<1>9. StoreObject(o, obj)
  BY <1>1, <1>3, <1>4
<1> QED BY <1>2, <1>5, <1>6, <1>7, <1>8, <1>9, StoreObjectKeeps

LEMMA UpdateObjectKeeps ==
    ASSUME CopiesInv, NEW c \in Client, UpdateObject(c)
    PROVE  CopiesInv'
<1>1. /\ held[c] # Nothing /\ held[c].id \in InStore
      /\ nodes' = [nodes EXCEPT ![held[c].id] = held[c].object]
      /\ UNCHANGED registryVars /\ UNCHANGED held /\ UNCHANGED <<objects, records, by_type>>
  BY DEF UpdateObject, vars, registryVars
<1>2. RegistryInv /\ RegistryInv'
  BY <1>1, RegistryStutters DEF CopiesInv
<1>3. PICK o \in ObjectId : o = held[c].id
  BY <1>1, <1>2, HeldIdTyped
<1>4. PICK obj \in StoredObject : obj = held[c].object
  BY <1>1, <1>2, HeldIdTyped
<1>5. Recorded(o, obj) /\ obj # NotRegistered
  BY <1>1, <1>3, <1>4, StoredIsRegistered DEF CopiesInv, HeldInv
<1>6. /\ nodes' = [nodes EXCEPT ![o] = obj] /\ nodes'[o] = obj
      /\ \A x \in ObjectId \ {o} : nodes'[x] = nodes[x]
  BY <1>1, <1>3, <1>4 DEF CopiesInv, NodesInv
<1>7. NodesInv'
  BY <1>6 DEF CopiesInv, NodesInv
<1>8. HeldInv'
  BY <1>1 DEF CopiesInv, HeldInv, Recorded
<1>9. InStore' = InStore /\ Registered' = Registered
  BY <1>1, <1>3, <1>5, <1>6 DEF InStore, Registered
<1>10. StoreIsHistory'
  BY <1>1, <1>5, <1>6, <1>9 DEF CopiesInv, StoreIsHistory, Recorded, InStore
<1>11. IndexInv'
  BY <1>1, <1>9 DEF CopiesInv, IndexInv
<1> QED BY <1>2, <1>7, <1>8, <1>10, <1>11 DEF CopiesInv

-----------------------------------------------------------------------------
(* The edges and the cases *)

LEMMA EdgeIsNoNoEdge ==
    ASSUME NEW x \in PlaneEdge PROVE x # NoEdge
<1>1. "source" \in DOMAIN x
  BY DEF PlaneEdge
<1>2. "source" \notin DOMAIN NoEdge
  BY DEF NoEdge
<1> QED BY <1>1, <1>2

\* The cases are kept by a step that changes no case and keeps the ends and the
\* validity of every edge there is.
LEMMA CasesKept ==
    ASSUME FindingsInv, EdgesInv', UNCHANGED <<cases, counted>>, resolved' \subseteq cases,
           \A e \in EdgeId : edges[e] # NoEdge =>
               /\ edges'[e] # NoEdge
               /\ edges'[e].source = edges[e].source
               /\ edges'[e].target = edges[e].target
               /\ edges'[e].valid_from = edges[e].valid_from
               /\ edges'[e].valid_until = edges[e].valid_until
    PROVE  FindingsInv'
<1>1. CasesInv'
  BY DEF FindingsInv, CasesInv
<1>2. OrphanInConflictOnlyOutOfWindow'
  <2> SUFFICES ASSUME NEW c \in cases, NEW d \in cases,
                      c.defect.case_type = "orphan", d.defect.case_type = "conflict",
                      c.run = d.run,
                      c.defect.object \in {edges'[d.defect.edge].source,
                                           edges'[d.defect.edge].target}
               PROVE  ~InWindow(d.defect.edge, d.at)'
    BY DEF OrphanInConflictOnlyOutOfWindow, InWindow
  <2>1. d.defect.edge \in EdgeId /\ edges[d.defect.edge] # NoEdge
    BY DEF FindingsInv, CasesInv
  <2> QED BY <2>1 DEF FindingsInv, OrphanInConflictOnlyOutOfWindow, InWindow
<1> QED BY <1>1, <1>2 DEF FindingsInv

LEMMA FindingsStutter ==
    ASSUME FindingsInv, UNCHANGED <<edges, engineVars, now>>
    PROVE  FindingsInv'
<1>1. UNCHANGED <<edges, now, cases, resolved, counted>>
  BY DEF engineVars
<1> QED BY <1>1 DEF FindingsInv, EdgesInv, CasesInv, OrphanInConflictOnlyOutOfWindow, InWindow

LEMMA AddedKeeps ==
    ASSUME FindingsInv, NEW e \in EdgeId, NEW s \in ObjectId, NEW t \in ObjectId,
           NEW type \in RelationshipType, NEW from \in Nat, NEW until \in Nat,
           IsNewEdge(e, s, t), Added(e, s, t, type, from, until), UNCHANGED <<engineVars, now>>
    PROVE  FindingsInv'
<1>1. PICK x : x = [source |-> s, target |-> t, type |-> type, valid_from |-> from,
                    valid_until |-> until, is_active |-> TRUE]
  OBVIOUS
<1>2. /\ x \in PlaneEdge /\ x.source = s /\ x.target = t
  BY <1>1 DEF PlaneEdge
<1>3. edges' = [edges EXCEPT ![e] = x] /\ edges[e] = NoEdge /\ s # t
  BY <1>1 DEF Added, IsNewEdge
<1>4. edges \in [EdgeId -> PlaneEdge \cup {NoEdge}]
  BY DEF FindingsInv, EdgesInv
<1>5. EdgesInv'
  BY <1>2, <1>3, <1>4 DEF FindingsInv, EdgesInv
<1>6. \A f \in EdgeId : edges[f] # NoEdge => edges'[f] = edges[f]
  BY <1>3, <1>4
<1>7. UNCHANGED <<cases, counted>> /\ resolved' \subseteq cases
  BY DEF engineVars, FindingsInv, CasesInv
<1> QED BY <1>5, <1>6, <1>7, CasesKept

LEMMA DeactivateKeeps ==
    ASSUME FindingsInv, NEW e \in EdgeId, DeactivateEdge(e)
    PROVE  FindingsInv'
<1>1. /\ edges' = [edges EXCEPT ![e].is_active = FALSE] /\ edges[e] # NoEdge
      /\ UNCHANGED <<cases, resolved, counted, now>>
  BY DEF DeactivateEdge, engineVars
<1>2. edges \in [EdgeId -> PlaneEdge \cup {NoEdge}]
  BY DEF FindingsInv, EdgesInv
<1>3. PICK x \in PlaneEdge : x = edges[e]
  BY <1>1, <1>2
<1>4. PICK y : y = [x EXCEPT !.is_active = FALSE]
  OBVIOUS
<1>5. /\ y \in PlaneEdge /\ y.source = x.source /\ y.target = x.target
      /\ y.valid_from = x.valid_from /\ y.valid_until = x.valid_until
  BY <1>4 DEF PlaneEdge
<1>6. edges' = [edges EXCEPT ![e] = y]
  BY <1>1, <1>3, <1>4
<1>7. y # NoEdge
  BY <1>5, EdgeIsNoNoEdge
<1>8. EdgesInv'
  <2>1. edges' \in [EdgeId -> PlaneEdge \cup {NoEdge}]
    BY <1>2, <1>5, <1>6
  <2>2. ASSUME NEW f \in EdgeId, edges'[f] # NoEdge
        PROVE  edges'[f].source # edges'[f].target
    <3>1. CASE f = e
      BY <3>1, <1>1, <1>2, <1>3, <1>5, <1>6 DEF FindingsInv, EdgesInv
    <3>2. CASE f # e
      BY <2>2, <3>2, <1>2, <1>6 DEF FindingsInv, EdgesInv
    <3> QED BY <3>1, <3>2
  <2>3. now' \in Nat
    BY <1>1 DEF FindingsInv, EdgesInv
  <2> QED BY <2>1, <2>2, <2>3 DEF EdgesInv
<1>9. \A f \in EdgeId : edges[f] # NoEdge =>
          /\ edges'[f] # NoEdge
          /\ edges'[f].source = edges[f].source
          /\ edges'[f].target = edges[f].target
          /\ edges'[f].valid_from = edges[f].valid_from
          /\ edges'[f].valid_until = edges[f].valid_until
  BY <1>2, <1>3, <1>5, <1>6, <1>7
<1>10. UNCHANGED <<cases, counted>> /\ resolved' \subseteq cases
  BY <1>1 DEF FindingsInv, CasesInv
<1> QED BY <1>8, <1>9, <1>10, CasesKept

\* What a run finds and when: an orphan has no valid edge at the time of the run.
LEMMA ConflictAtOrphanOutOfWindow ==
    ASSUME EdgesInv, NEW c \in Orphans, NEW d \in Conflicts,
           c.object \in {edges[d.edge].source, edges[d.edge].target}
    PROVE  ~InWindow(d.edge, now)
<1>1. /\ d.edge \in EdgeId /\ edges[d.edge] # NoEdge /\ edges[d.edge].is_active
  BY DEF Conflicts
<1>2. OutboundEdges(c.object) \cup InboundEdges(c.object) = {}
  BY DEF Orphans
<1>3. ~IsValidAt(d.edge, now)
  BY <1>1, <1>2 DEF OutboundEdges, InboundEdges
<1> QED BY <1>1, <1>3 DEF IsValidAt

LEMMA FoundTypes ==
    /\ \A d \in Gaps : d.case_type = "gap"
    /\ \A d \in Conflicts : /\ d.case_type = "conflict" /\ d.edge \in EdgeId
                            /\ edges[d.edge] # NoEdge
    /\ \A d \in Orphans : d.case_type = "orphan"
BY DEF Gaps, Conflicts, Orphans

LEMMA ReconciliationKeeps ==
    ASSUME FindingsInv, RunFullReconciliation
    PROVE  FindingsInv'
<1>1. PICK n \in Nat : n = counted.runs + 1
  BY DEF FindingsInv, CasesInv
<1> DEFINE found == Gaps \cup Conflicts \cup Orphans
           new == {[defect |-> d, run |-> n, at |-> now] : d \in found}
<1>2. /\ cases' = cases \cup new /\ counted'.runs = n
      /\ UNCHANGED <<edges, resolved, now>>
  BY <1>1 DEF RunFullReconciliation, Runs, storeVars
<1>3. \A c \in new : c.defect \in found /\ c.run = n /\ c.at = now
  OBVIOUS
<1>4. \A c \in cases : c.run \in Nat /\ c.run < n
  BY <1>1 DEF FindingsInv, CasesInv
<1> HIDE DEF new
<1>5. EdgesInv'
  BY <1>2 DEF FindingsInv, EdgesInv
<1>6. CasesInv'
  <2>1. counted'.runs \in Nat /\ resolved' \subseteq cases'
    BY <1>1, <1>2 DEF FindingsInv, CasesInv
  <2>2. \A c \in cases' : c.run \in Nat /\ c.run <= counted'.runs
    BY <1>1, <1>2, <1>3, <1>4
  <2>3. \A c \in cases' : c.defect.case_type = "conflict" =>
                              c.defect.edge \in EdgeId /\ edges'[c.defect.edge] # NoEdge
    <3>1. \A d \in found : d.case_type = "conflict" =>
                               d.edge \in EdgeId /\ edges[d.edge] # NoEdge
      BY FoundTypes
    <3> HIDE DEF found
    <3> QED BY <1>2, <1>3, <3>1 DEF FindingsInv, CasesInv
  <2> QED BY <2>1, <2>2, <2>3 DEF CasesInv
<1>7. OrphanInConflictOnlyOutOfWindow'
  <2> SUFFICES ASSUME NEW c \in cases', NEW d \in cases',
                      c.defect.case_type = "orphan", d.defect.case_type = "conflict",
                      c.run = d.run,
                      c.defect.object \in {edges[d.defect.edge].source,
                                           edges[d.defect.edge].target}
               PROVE  ~InWindow(d.defect.edge, d.at)
    BY <1>2 DEF OrphanInConflictOnlyOutOfWindow, InWindow
  <2>1. CASE c \in cases /\ d \in cases
    BY <2>1 DEF FindingsInv, OrphanInConflictOnlyOutOfWindow
  <2>2. CASE c \in new /\ d \in new
    <3>1. c.defect \in Orphans /\ d.defect \in Conflicts /\ d.at = now
      BY <1>3, <2>2, FoundTypes
    <3> QED BY <3>1, ConflictAtOrphanOutOfWindow DEF FindingsInv
  <2>3. CASE c \in cases /\ d \in new
    BY <1>3, <1>4, <2>3
  <2>4. CASE c \in new /\ d \in cases
    BY <1>3, <1>4, <2>4
  <2> QED BY <1>2, <2>1, <2>2, <2>3, <2>4
<1> QED BY <1>5, <1>6, <1>7 DEF FindingsInv

-----------------------------------------------------------------------------
(* The system *)

PlaneInv == CopiesInv /\ FindingsInv

LEMMA PlaneInitInv == PlaneInit => PlaneInv
<1> SUFFICES ASSUME PlaneInit PROVE PlaneInv
  OBVIOUS
<1>1. RegistryInv
  BY RegistryInitInv DEF PlaneInit
<1>2. NodesInv
  BY DEF PlaneInit, NodesInv
<1>3. HeldInv
  BY DEF PlaneInit, Init, HeldInv
<1>4. StoreIsHistory
  <2>1. InStore = {} /\ Registered = {}
    BY DEF PlaneInit, Init, InStore, Registered
  <2> QED BY <2>1 DEF StoreIsHistory
<1>8. IndexInv
  BY DEF PlaneInit, IndexInv, InStore
<1>5. EdgesInv
  BY DEF PlaneInit, EdgesInv
<1>6. CasesInv
  BY DEF PlaneInit, CasesInv
<1>7. OrphanInConflictOnlyOutOfWindow
  BY DEF PlaneInit, OrphanInConflictOnlyOutOfWindow
<1> QED
  BY <1>1, <1>2, <1>3, <1>4, <1>5, <1>6, <1>7, <1>8 DEF PlaneInv, CopiesInv, FindingsInv

LEMMA PlaneStep == PlaneInv /\ [PlaneNext]_planeVars => PlaneInv'
<1> SUFFICES ASSUME CopiesInv, FindingsInv, [PlaneNext]_planeVars
             PROVE  CopiesInv' /\ FindingsInv'
  BY DEF PlaneInv
<1>1. ASSUME NEW o \in ObjectId, NEW plane \in Plane, Ingest(o, plane, ArtefactType[o])
      PROVE  CopiesInv' /\ FindingsInv'
  BY <1>1, PlaneAssumption, IngestedKeeps, FindingsStutter DEF Ingest
<1>2. ASSUME NEW o \in ObjectId, NEW plane \in Plane, NEW by \in BOOLEAN,
             IngestGated(o, plane, ArtefactType[o], by)
      PROVE  CopiesInv' /\ FindingsInv'
  <2>1. /\ o \notin Registered /\ UNCHANGED held /\ UNCHANGED <<edges, engineVars, now>>
        /\ \/ Ingested(o, plane, ArtefactType[o])
           \/ UNCHANGED <<registryVars, nodes, by_type>>
    BY <1>2 DEF IngestGated, registryVars
  <2>2. FindingsInv'
    BY <2>1, FindingsStutter
  <2>3. CopiesInv'
    BY <2>1, PlaneAssumption, IngestedKeeps, CopiesStutter
  <2> QED BY <2>2, <2>3
<1>3. CASE RegistryStep
  <2>1. UNCHANGED <<nodes, by_type>> /\ UNCHANGED <<edges, engineVars, now>>
    BY <1>3 DEF RegistryStep, storeVars
  <2>2. FindingsInv'
    BY <2>1, FindingsStutter
  <2>3. ASSUME NEW o \in ObjectId, NEW plane \in Plane, Register(o, plane, ArtefactType[o])
        PROVE  CopiesInv'
    BY <2>1, <2>3, PlaneAssumption, CopiesRegister
  <2>4. ASSUME NEW c \in Client, NEW state \in TargetState, NEW plane \in Plane,
               NEW type \in ObjectType, Update(c, state, plane, type)
        PROVE  CopiesInv'
    BY <2>1, <2>4, PlaneAssumption, CopiesUpdate
  <2>5. ASSUME NEW o \in ObjectId, NEW state \in TargetState, TransitionUngated(o, state)
        PROVE  CopiesInv'
    BY <2>1, <2>5, PlaneAssumption, CopiesTransition DEF TransitionUngated
  <2>6. ASSUME NEW o \in ObjectId, NEW state \in TargetState, NEW by \in BOOLEAN,
               TransitionGated(o, state, by)
        PROVE  CopiesInv'
    <3>1. o \in Registered /\ (Transition(o, state) \/ UNCHANGED registryVars)
      BY <2>6 DEF TransitionGated
    <3> QED BY <2>1, <3>1, PlaneAssumption, CopiesTransition, CopiesStutter
  <2>7. OthersUseGate => CopiesInv'
    BY <2>1, CopiesStutter DEF OthersUseGate
  <2>8. CopiesInv'
    BY <1>3, <2>1, <2>3, <2>4, <2>5, <2>6, <2>7, CopiesGet DEF RegistryStep
  <2> QED BY <2>2, <2>8
<1>4. ASSUME NEW c \in Client, AddObject(c) \/ UpdateObject(c)
      PROVE  CopiesInv' /\ FindingsInv'
  <2>1. UNCHANGED <<edges, engineVars, now>>
    BY <1>4 DEF AddObject, UpdateObject
  <2> QED BY <1>4, <2>1, AddObjectKeeps, UpdateObjectKeeps, FindingsStutter
<1>5. ASSUME NEW e \in EdgeId, NEW s \in ObjectId, NEW t \in ObjectId,
             NEW type \in RelationshipType, NEW w \in Window,
             \/ AddEdge(e, s, t, type, w[1], w[2])
             \/ \E by \in BOOLEAN : AddGovernedEdge(e, s, t, type, w[1], w[2], by)
      PROVE  CopiesInv' /\ FindingsInv'
  <2>1. w[1] \in Nat /\ w[2] \in Nat
    BY PlaneAssumption DEF FindingsInv, EdgesInv, Forever, Window
  <2>2. /\ UNCHANGED <<registryVars, nodes, by_type>> /\ UNCHANGED <<engineVars, now>>
        /\ \/ IsNewEdge(e, s, t) /\ Added(e, s, t, type, w[1], w[2])
           \/ UNCHANGED edges
    BY <1>5 DEF AddEdge, AddGovernedEdge, vars
  <2>3. CopiesInv'
    BY <2>2, CopiesStutter
  <2>4. FindingsInv'
    BY <2>1, <2>2, AddedKeeps, FindingsStutter
  <2> QED BY <2>3, <2>4
<1>6. ASSUME NEW e \in EdgeId, DeactivateEdge(e)
      PROVE  CopiesInv' /\ FindingsInv'
  <2>1. UNCHANGED <<registryVars, nodes, by_type>>
    BY <1>6 DEF DeactivateEdge, vars
  <2> QED BY <1>6, <2>1, DeactivateKeeps, CopiesStutter
<1>7. CASE RunFullReconciliation
  <2>1. UNCHANGED <<registryVars, nodes, by_type>>
    BY <1>7 DEF RunFullReconciliation, vars, storeVars
  <2> QED BY <1>7, <2>1, ReconciliationKeeps, CopiesStutter
<1>8. ASSUME NEW c \in cases,
             MarkCaseResolved(c) \/ \E by \in BOOLEAN : MarkCaseResolvedGated(c, by)
      PROVE  CopiesInv' /\ FindingsInv'
  <2>1. /\ UNCHANGED <<registryVars, nodes, by_type>> /\ UNCHANGED <<edges, now>>
        /\ UNCHANGED <<cases, counted>>
        /\ resolved' = resolved \cup {c} \/ UNCHANGED resolved
    BY <1>8 DEF MarkCaseResolved, MarkCaseResolvedGated, vars, storeVars
  <2>2. resolved' \subseteq cases /\ EdgesInv'
    BY <2>1 DEF FindingsInv, CasesInv, EdgesInv
  <2>3. FindingsInv'
    BY <2>1, <2>2, CasesKept
  <2> QED BY <2>1, <2>3, CopiesStutter
<1>9. CASE Tick
  <2>1. /\ UNCHANGED <<registryVars, nodes, by_type>> /\ UNCHANGED edges
        /\ UNCHANGED <<cases, resolved, counted>> /\ now' = now + 1
    BY <1>9 DEF Tick, vars, storeVars, engineVars
  <2>2. resolved' \subseteq cases /\ EdgesInv'
    BY <2>1 DEF FindingsInv, CasesInv, EdgesInv
  <2>3. FindingsInv'
    BY <2>1, <2>2, CasesKept
  <2> QED BY <2>1, <2>3, CopiesStutter
<1>10. CASE UNCHANGED planeVars
  <2>1. UNCHANGED <<registryVars, nodes, by_type>> /\ UNCHANGED <<edges, engineVars, now>>
    BY <1>10 DEF planeVars, vars, storeVars
  <2> QED BY <2>1, CopiesStutter, FindingsStutter
<1> QED BY <1>1, <1>2, <1>3, <1>4, <1>5, <1>6, <1>7, <1>8, <1>9, <1>10 DEF PlaneNext

LEMMA PlaneInvariant == PlaneSpec => []PlaneInv
BY PlaneInitInv, PlaneStep, PTL DEF PlaneSpec

(***************************************************************************)
(* Whatever the gate answers, the graph store holds registered objects     *)
(* only, and add_object and update_object, which compares no versions,     *)
(* only ever store copies the registry recorded.                           *)
(***************************************************************************)
THEOREM StoreHoldsRecordedVersions == PlaneSpec => []StoreIsHistory
<1>1. PlaneInv => StoreIsHistory
  BY DEF PlaneInv, CopiesInv
<1> QED BY <1>1, PlaneInvariant, PTL

(***************************************************************************)
(* _detect_orphans and _detect_conflicts contradict each other about an    *)
(* object only where the conflict's validity had not begun or had ended at *)
(* the run, and no later change of edges makes it look otherwise.          *)
(***************************************************************************)
THEOREM OrphanConflictsOutOfWindow == PlaneSpec => []OrphanInConflictOnlyOutOfWindow
<1>1. PlaneInv => OrphanInConflictOnlyOutOfWindow
  BY DEF PlaneInv, FindingsInv
<1> QED BY <1>1, PlaneInvariant, PTL

\* A run's case for a defect it finds is a new one, and so not resolved.
LEMMA FoundStaysOpen ==
    ASSUME FindingsInv, RunFullReconciliation, NEW d \in Gaps
    PROVE  \E c \in cases' \ resolved' : c.defect = d
<1>1. PICK n \in Nat : n = counted.runs + 1
  BY DEF FindingsInv, CasesInv
<1> DEFINE c == [defect |-> d, run |-> n, at |-> now]
<1>2. c \in cases' /\ resolved' = resolved
  BY <1>1 DEF RunFullReconciliation, Runs
<1>3. c.run = n /\ c.defect = d
  OBVIOUS
<1> HIDE DEF c
<1>4. c \notin cases
  BY <1>1, <1>3 DEF FindingsInv, CasesInv
<1>5. c \notin resolved'
  BY <1>2, <1>4 DEF FindingsInv, CasesInv
<1> QED BY <1>2, <1>3, <1>5

(***************************************************************************)
(* Resolving a case never hides its defect from run_full_reconciliation:   *)
(* a run that finds an active object without the link a rule requires      *)
(* leaves an open case for the object and the rule, unless the object's    *)
(* type was changed, which the store's type index does not follow.         *)
(***************************************************************************)
THEOREM ResolvingHidesNothing == PlaneSpec => DefectsStayVisible
<1> DEFINE Missing(o, r) ==
              /\ ActiveNode(o) /\ AlwaysOfType(o, r.source_type)
              /\ \A t \in ObjectId \ {o} :
                    \/ ~ActiveNode(t) \/ nodes[t].plane # r.target_plane
                    \/ nodes[t].type # r.target_type
                    \/ \A e \in OutboundEdges(o) \cap InboundEdges(t) :
                          edges[e].type # r.relationship
           Gap(o, r) == [case_type |-> "gap", object |-> o, rule |-> r]
<1>1. ASSUME FindingsInv, [PlaneNext]_planeVars, counted'.runs > counted.runs
      PROVE  RunFullReconciliation
  <2>1. counted' # counted
    BY <1>1 DEF FindingsInv, CasesInv
  <2>2. ASSUME NEW o \in ObjectId, NEW plane \in Plane, NEW by \in BOOLEAN,
               \/ Ingest(o, plane, ArtefactType[o])
               \/ IngestGated(o, plane, ArtefactType[o], by)
        PROVE  counted' = counted
    BY <2>2 DEF Ingest, IngestGated, engineVars
  <2>3. RegistryStep => counted' = counted
    BY DEF RegistryStep, engineVars
  <2>4. ASSUME NEW c \in Client, AddObject(c) \/ UpdateObject(c) PROVE counted' = counted
    BY <2>4 DEF AddObject, UpdateObject, engineVars
  <2>5. ASSUME NEW e \in EdgeId, NEW s \in ObjectId, NEW t \in ObjectId,
               NEW type \in RelationshipType, NEW w \in Window, NEW by \in BOOLEAN,
               \/ AddEdge(e, s, t, type, w[1], w[2])
               \/ AddGovernedEdge(e, s, t, type, w[1], w[2], by)
        PROVE  counted' = counted
    BY <2>5 DEF AddEdge, AddGovernedEdge, engineVars
  <2>6. ASSUME NEW e \in EdgeId, DeactivateEdge(e) PROVE counted' = counted
    BY <2>6 DEF DeactivateEdge, engineVars
  <2>7. ASSUME NEW c \in cases, NEW by \in BOOLEAN,
               MarkCaseResolved(c) \/ MarkCaseResolvedGated(c, by)
        PROVE  counted' = counted
    BY <2>7 DEF MarkCaseResolved, MarkCaseResolvedGated
  <2>8. Tick \/ UNCHANGED planeVars => counted' = counted
    BY DEF Tick, planeVars, engineVars
  <2> QED BY <1>1, <2>1, <2>2, <2>3, <2>4, <2>5, <2>6, <2>7, <2>8 DEF PlaneNext
<1>2. ASSUME CopiesInv, FindingsInv, NEW o \in ObjectId, NEW r \in Rule, Missing(o, r)
      PROVE  Gap(o, r) \in Gaps
  <2> DEFINE d == Gap(o, r)
  <2>1. /\ d \in [case_type : {"gap"}, object : {x \in ObjectId : ActiveNode(x)}, rule : Rule]
        /\ d.object = o /\ d.rule = r
    BY <1>2
  <2>2. ASSUME NEW e \in OutboundEdges(o),
               edges[e].type = r.relationship,
               nodes[edges[e].target].type = r.target_type,
               nodes[edges[e].target].plane = r.target_plane,
               ActiveNode(edges[e].target)
        PROVE  FALSE
    <3>1. e \in EdgeId /\ IsValidAt(e, now) /\ edges[e].source = o /\ edges[e] # NoEdge
      BY DEF OutboundEdges, IsValidAt
    <3>2. edges[e] \in PlaneEdge /\ edges[e].target # o
      BY <1>2, <3>1 DEF FindingsInv, EdgesInv
    <3>3. edges[e].target \in ObjectId \ {o}
      BY <3>2 DEF PlaneEdge
    <3>4. e \in InboundEdges(edges[e].target)
      BY <3>1 DEF InboundEdges
    <3> QED BY <1>2, <2>2, <3>3, <3>4
  <2>3. o \in by_type[r.source_type]
    BY <1>2 DEF CopiesInv, IndexInv, ActiveNode, AlwaysOfType
  <2> HIDE DEF d
  <2> QED BY <1>2, <2>1, <2>2, <2>3 DEF Gaps, d
<1>3. ASSUME CopiesInv, FindingsInv, [PlaneNext]_planeVars
      PROVE  counted'.runs > counted.runs =>
                \A o \in ObjectId, r \in Rule :
                    Missing(o, r) => \E c \in cases' \ resolved' : c.defect = Gap(o, r)
  <2> HIDE DEF Missing, Gap
  <2> QED BY <1>1, <1>2, <1>3, FoundStaysOpen
<1>4. PlaneInv /\ [PlaneNext]_planeVars =>
          [counted'.runs > counted.runs =>
                \A o \in ObjectId, r \in Rule :
                    Missing(o, r) => \E c \in cases' \ resolved' : c.defect = Gap(o, r)]_planeVars
  BY <1>3 DEF PlaneInv
<1> QED BY <1>4, PlaneInvariant, PTL DEF PlaneSpec, DefectsStayVisible

-----------------------------------------------------------------------------
(* What the gate and the registry promise, in the composed system *)

LEMMA PlatformRequestIsRequest ==
    ASSUME NEW by \in BOOLEAN
    PROVE  /\ PlatformRequest("ingest_control_object", "api_request", by) \in Request
           /\ PlatformRequest("graph_link_creation", "human_operator", by) \in Request
           /\ PlatformRequest("reconciliation_case_resolution", "human_operator", by) \in Request
BY PlaneAssumption DEF PlatformRequest, Request, Origin

\* Pipeline, store, registry and engine either leave the gate alone or submit a
\* request to it; others use it too.
LEMMA PlaneUsesGate ==
    ASSUME [PlaneNext]_planeVars
    PROVE  UNCHANGED gateVars \/ GateNext \/ \E r \in Request : GateSubmit(r)
<1>1. ASSUME NEW o \in ObjectId, NEW plane \in Plane, Ingest(o, plane, ArtefactType[o])
      PROVE  UNCHANGED gateVars
  BY <1>1 DEF Ingest
<1>2. ASSUME NEW o \in ObjectId, NEW plane \in Plane, NEW by \in BOOLEAN,
             IngestGated(o, plane, ArtefactType[o], by)
      PROVE  \E r \in Request : GateSubmit(r)
  BY <1>2, PlatformRequestIsRequest DEF IngestGated
<1>3. ASSUME RegistryStep
      PROVE  UNCHANGED gateVars \/ GateNext \/ \E r \in Request : GateSubmit(r)
  <2>1. ASSUME NEW c \in Client, NEW state, NEW plane, NEW type, Update(c, state, plane, type)
        PROVE  UNCHANGED gateVars
    BY <2>1 DEF Update
  <2>2. ASSUME NEW o, NEW state, NEW by \in BOOLEAN, TransitionGated(o, state, by)
        PROVE  \E r \in Request : GateSubmit(r)
    BY <2>2, TransitionRequestIsRequest DEF TransitionGated
  <2> QED BY <1>3, <2>1, <2>2
             DEF RegistryStep, Register, Get, TransitionUngated, OthersUseGate
<1>4. ASSUME NEW c \in Client, AddObject(c) \/ UpdateObject(c) PROVE UNCHANGED gateVars
  BY <1>4 DEF AddObject, UpdateObject, vars
<1>5. ASSUME NEW e \in EdgeId, NEW s \in ObjectId, NEW t \in ObjectId,
             NEW type \in RelationshipType, NEW from, NEW until,
             AddEdge(e, s, t, type, from, until)
      PROVE  UNCHANGED gateVars
  BY <1>5 DEF AddEdge, vars
<1>6. ASSUME NEW e \in EdgeId, NEW s \in ObjectId, NEW t \in ObjectId,
             NEW type \in RelationshipType, NEW from, NEW until, NEW by \in BOOLEAN,
             AddGovernedEdge(e, s, t, type, from, until, by)
      PROVE  \E r \in Request : GateSubmit(r)
  BY <1>6, PlatformRequestIsRequest DEF AddGovernedEdge
<1>7. ASSUME NEW e \in EdgeId, DeactivateEdge(e) PROVE UNCHANGED gateVars
  BY <1>7 DEF DeactivateEdge, vars
<1>8. ASSUME RunFullReconciliation \/ Tick \/ UNCHANGED planeVars PROVE UNCHANGED gateVars
  BY <1>8 DEF RunFullReconciliation, Tick, planeVars, vars
<1>9. ASSUME NEW c \in cases, MarkCaseResolved(c) PROVE UNCHANGED gateVars
  BY <1>9 DEF MarkCaseResolved, vars
<1>10. ASSUME NEW c \in cases, NEW by \in BOOLEAN, MarkCaseResolvedGated(c, by)
       PROVE  \E r \in Request : GateSubmit(r)
  BY <1>10, PlatformRequestIsRequest DEF MarkCaseResolvedGated
<1> QED BY <1>1, <1>2, <1>3, <1>4, <1>5, <1>6, <1>7, <1>8, <1>9, <1>10 DEF PlaneNext

(***************************************************************************)
(* Composition breaks no promise of the parts.  The pipeline's ingest      *)
(* writes gate, registry and store one after the other and undoes nothing, *)
(* and add_governed_edge has a package compiled for an edge that add_edge  *)
(* then refuses: the gate still logs and bills every package once, and the *)
(* registry's versions and indices stay in step.                           *)
(***************************************************************************)
THEOREM CompositionKeepsPromises ==
    PlaneSpec => [](/\ DispatchesLogged /\ BilledOncePerRelease
                    /\ VersionsLinear /\ IndicesFindObjects)
<1>1. PlaneInit => GateInv
  BY GateInitInv DEF PlaneInit, Init
<1>2. GateInv /\ [PlaneNext]_planeVars => GateInv'
  BY PlaneUsesGate, GateStep, GateStutters, GateSubmitKeeps
<1>3. GateInv /\ PlaneInv => /\ DispatchesLogged /\ BilledOncePerRelease
                             /\ VersionsLinear /\ IndicesFindObjects
  BY GateInvLogged DEF GateInv, PlaneInv, CopiesInv, RegistryInv
<1> QED BY <1>1, <1>2, <1>3, PlaneInvariant, PTL DEF PlaneSpec

=============================================================================
