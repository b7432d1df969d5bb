----------------------- MODULE ExceptionManagerProofs -----------------------
(***************************************************************************)
(* Proofs about the exception framework, for every set of exceptions, any  *)
(* clock and any number of decisions.                                      *)
(***************************************************************************)
EXTENDS ExceptionManager, TLAPS

DecisionRecord == [decision : {"approved", "rejected"}, task : Nat, expiry : Nat]
Task == [exception : ExceptionId, due_by : Int]

ExceptionTypes ==
    /\ now \in Nat
    /\ expires_at \in [ExceptionId -> Nat \cup {NoRequest}]
    /\ decisions \in [ExceptionId -> Seq(DecisionRecord)]
    /\ review_tasks \in Seq(Task)
    /\ ledger \in [ExceptionId -> [LedgerEvent -> Nat]]

\* Only what was requested is decided, and a request that replaced no other has
\* only decisions on itself.
DecidedInv ==
    \A x \in ExceptionId :
        /\ x \in Requested <=> ledger[x]["submitted"] > 0
        /\ x \notin Requested => decisions[x] = <<>>
        /\ ledger[x]["submitted"] = 1 =>
              \A i \in DOMAIN decisions[x] : decisions[x][i].expiry = expires_at[x]

\* A decision names a task that was opened before it, or none: the task that is
\* opened next belongs to no decision yet.
TasksInv ==
    \A x \in ExceptionId : \A i \in DOMAIN decisions[x] :
        LET d == decisions[x][i]
        IN  /\ d.task <= Len(review_tasks)
            /\ d.decision = "approved" =>
                  /\ d.task > 0
                  /\ review_tasks[d.task] = [exception |-> x, due_by |-> d.expiry]

\* No two decisions have the same task, unless neither has one.
OwnTaskInv ==
    \A x, y \in ExceptionId : \A i \in DOMAIN decisions[x], j \in DOMAIN decisions[y] :
        decisions[x][i].task > 0 /\ decisions[x][i].task = decisions[y][j].task => x = y /\ i = j

\* The inductive invariant
ExceptionInv == ExceptionTypes /\ DecidedInv /\ TasksInv /\ OwnTaskInv

-----------------------------------------------------------------------------
\* What Append does to a sequence.
LEMMA AppendFacts ==
    ASSUME NEW S, NEW s \in Seq(S), NEW e \in S
    PROVE  /\ Append(s, e) \in Seq(S)
           /\ Len(Append(s, e)) = Len(s) + 1
           /\ DOMAIN Append(s, e) = DOMAIN s \cup {Len(s) + 1}
           /\ Len(s) + 1 \notin DOMAIN s
           /\ \A i \in DOMAIN s : Append(s, e)[i] = s[i]
           /\ Append(s, e)[Len(s) + 1] = e
OBVIOUS

LEMMA InvReviewed == ExceptionInv => ApprovalsReviewed
<1> SUFFICES ASSUME ExceptionInv,
                    NEW x \in ExceptionId, NEW y \in ExceptionId,
                    NEW i \in DOMAIN decisions[x], NEW j \in DOMAIN decisions[y],
                    NEW d, d = decisions[x][i], d.decision = "approved"
             PROVE  /\ d.task \in DOMAIN review_tasks
                    /\ review_tasks[d.task] = [exception |-> x, due_by |-> d.expiry]
                    /\ decisions[y][j].task = d.task => x = y /\ i = j
                    /\ d.expiry < now => d.task \in PastDue
  BY DEF ApprovalsReviewed
<1>1. d \in DecisionRecord /\ review_tasks \in Seq(Task)
  BY DEF ExceptionInv, ExceptionTypes
<1>2. d.task \in Nat
  BY <1>1 DEF DecisionRecord
<1>3. /\ d.task > 0 /\ d.task <= Len(review_tasks)
      /\ review_tasks[d.task] = [exception |-> x, due_by |-> d.expiry]
  BY DEF ExceptionInv, TasksInv
<1>4. d.task \in DOMAIN review_tasks
  BY <1>1, <1>2, <1>3
<1>5. decisions[y][j].task = d.task => x = y /\ i = j
  BY <1>3 DEF ExceptionInv, OwnTaskInv
<1>6. d.expiry < now => d.task \in PastDue
  BY <1>3, <1>4 DEF PastDue
<1> QED BY <1>3, <1>4, <1>5, <1>6

LEMMA InvInForce == ExceptionInv => InForceIsReviewed
<1> SUFFICES ASSUME ExceptionInv, NEW x \in Active, ledger[x]["submitted"] = 1
             PROVE  \E t \in DOMAIN review_tasks \ PastDue :
                       review_tasks[t] = [exception |-> x, due_by |-> expires_at[x]]
  BY DEF InForceIsReviewed
<1>1. x \in ExceptionId /\ expires_at[x] > now /\ Approved(x)
  BY DEF Active, Requested
<1>2. PICK i \in DOMAIN decisions[x] : decisions[x][i].decision = "approved"
  BY <1>1 DEF Approved
<1>3. PICK d : d = decisions[x][i]
  OBVIOUS
<1>4. d.expiry = expires_at[x]
  BY <1>1, <1>2, <1>3 DEF ExceptionInv, DecidedInv
<1>5. /\ d.task \in DOMAIN review_tasks
      /\ review_tasks[d.task] = [exception |-> x, due_by |-> d.expiry]
  BY <1>1, <1>2, <1>3, InvReviewed DEF ApprovalsReviewed
<1>6. now \in Nat /\ expires_at[x] \in Nat \cup {NoRequest}
  BY <1>1 DEF ExceptionInv, ExceptionTypes
<1>7. d.task \notin PastDue
  BY <1>1, <1>4, <1>5, <1>6 DEF PastDue, NoRequest
<1> QED BY <1>4, <1>5, <1>7

LEMMA ExceptionInit == Init => ExceptionInv
<1> SUFFICES ASSUME Init PROVE ExceptionInv
  OBVIOUS
<1>1. ExceptionTypes
  BY DEF Init, ExceptionTypes, NoRequest
<1>2. \A x \in ExceptionId : /\ x \notin Requested /\ decisions[x] = <<>>
                              /\ ledger[x]["submitted"] = 0
  BY DEF Init, Requested, LedgerEvent
<1>3. DecidedInv /\ TasksInv /\ OwnTaskInv
  BY <1>2 DEF DecidedInv, TasksInv, OwnTaskInv
<1> QED BY <1>1, <1>3 DEF ExceptionInv

\* An entry of another kind leaves the submissions in the ledger as they are.
LEMMA AuditFacts ==
    ASSUME ExceptionInv, NEW x \in ExceptionId, NEW event \in LedgerEvent, Audit(x, event)
    PROVE  /\ ledger' \in [ExceptionId -> [LedgerEvent -> Nat]]
           /\ \A y \in ExceptionId \ {x} : ledger'[y] = ledger[y]
           /\ event # "submitted" => ledger'[x]["submitted"] = ledger[x]["submitted"]
           /\ event = "submitted" => ledger'[x]["submitted"] = ledger[x]["submitted"] + 1
BY DEF Audit, LedgerEvent, ExceptionInv, ExceptionTypes

\* What a decision on a requested exception keeps, with the task t it names: none, or
\* one that was opened just now for this exception and is no other decision's.
LEMMA DecideKeeps ==
    ASSUME ExceptionInv, NEW x \in Requested, NEW decision \in {"approved", "rejected"},
           NEW t \in Nat, Decide(x, decision, t), Audit(x, decision),
           UNCHANGED <<now, expires_at>>,
           review_tasks' \in Seq(Task), Len(review_tasks') \in Nat,
           Len(review_tasks) <= Len(review_tasks'),
           \A k \in DOMAIN review_tasks : review_tasks'[k] = review_tasks[k],
           t <= Len(review_tasks'),
           t = 0 \/ t > Len(review_tasks),
           decision = "approved" =>
               t > 0 /\ review_tasks'[t] = [exception |-> x, due_by |-> expires_at[x]]
    PROVE  ExceptionInv'
<1> DEFINE d == [decision |-> decision, task |-> t, expiry |-> expires_at[x]]
<1>1. x \in ExceptionId /\ decisions[x] \in Seq(DecisionRecord)
  BY DEF Requested, ExceptionInv, ExceptionTypes
<1>2. /\ d \in DecisionRecord /\ d.decision = decision /\ d.task = t
      /\ d.expiry = expires_at[x]
  BY <1>1 DEF DecisionRecord, Requested, ExceptionInv, ExceptionTypes
<1>3. /\ decisions' = [decisions EXCEPT ![x] = Append(decisions[x], d)]
      /\ decisions'[x] = Append(decisions[x], d)
      /\ \A y \in ExceptionId \ {x} : decisions'[y] = decisions[y]
  BY <1>1 DEF Decide, ExceptionInv, ExceptionTypes
<1> HIDE DEF d
<1>4. PICK n \in Nat : n = Len(decisions[x]) + 1
  BY <1>1
<1>5. /\ Append(decisions[x], d) \in Seq(DecisionRecord)
      /\ DOMAIN decisions'[x] = DOMAIN decisions[x] \cup {n} /\ n \notin DOMAIN decisions[x]
      /\ \A i \in DOMAIN decisions[x] : decisions'[x][i] = decisions[x][i]
      /\ decisions'[x][n] = d
  BY <1>1, <1>2, <1>3, <1>4, AppendFacts
<1>13. /\ ledger' \in [ExceptionId -> [LedgerEvent -> Nat]]
       /\ \A y \in ExceptionId : ledger'[y]["submitted"] = ledger[y]["submitted"]
  <2>1. decision \in LedgerEvent /\ decision # "submitted"
    BY DEF LedgerEvent
  <2> QED BY <1>1, <2>1, AuditFacts
<1>6. ExceptionTypes'
  BY <1>3, <1>5, <1>13 DEF ExceptionInv, ExceptionTypes
<1>7. DecidedInv'
  <2>1. Requested' = Requested
    BY DEF Requested
  <2> SUFFICES ASSUME NEW y \in ExceptionId
               PROVE  /\ y \in Requested <=> ledger'[y]["submitted"] > 0
                      /\ y \notin Requested => decisions'[y] = <<>>
                      /\ ledger'[y]["submitted"] = 1 =>
                            \A i \in DOMAIN decisions'[y] :
                                decisions'[y][i].expiry = expires_at[y]
    BY <2>1 DEF DecidedInv
  <2>2. CASE y = x
    <3>1. (x \in Requested <=> ledger'[x]["submitted"] > 0) /\ x \in Requested
      BY <1>1, <1>13 DEF ExceptionInv, DecidedInv
    <3>2. ledger'[x]["submitted"] = 1 =>
            \A i \in DOMAIN decisions[x] : decisions[x][i].expiry = expires_at[x]
      BY <1>1, <1>13 DEF ExceptionInv, DecidedInv
    <3>3. ledger'[x]["submitted"] = 1 =>
            \A i \in DOMAIN decisions'[x] : decisions'[x][i].expiry = expires_at[x]
      <4> SUFFICES ASSUME ledger'[x]["submitted"] = 1, NEW i \in DOMAIN decisions'[x]
                   PROVE  decisions'[x][i].expiry = expires_at[x]
        OBVIOUS
      <4>1. CASE i = n
        BY <1>2, <1>5, <4>1
      <4>2. CASE i # n
        BY <1>5, <3>2, <4>2
      <4> QED BY <4>1, <4>2
    <3> QED BY <2>2, <3>1, <3>3
  <2>3. CASE y # x
    <3>1. decisions'[y] = decisions[y]
          /\ ledger'[y]["submitted"] = ledger[y]["submitted"]
      BY <1>3, <1>13, <2>3
    <3> QED BY <3>1 DEF ExceptionInv, DecidedInv
  <2> QED BY <2>2, <2>3
<1>8. ASSUME NEW y \in ExceptionId, NEW i \in DOMAIN decisions'[y]
      PROVE  \/ y = x /\ i = n /\ decisions'[y][i] = d
             \/ i \in DOMAIN decisions[y] /\ decisions'[y][i] = decisions[y][i]
  BY <1>3, <1>5, <1>8
<1>9. ASSUME NEW y \in ExceptionId, NEW i \in DOMAIN decisions[y]
      PROVE  /\ decisions[y][i].task \in Nat /\ decisions[y][i].task <= Len(review_tasks)
             /\ decisions[y][i].decision = "approved" =>
                   /\ decisions[y][i].task > 0
                   /\ decisions[y][i].task \in DOMAIN review_tasks
                   /\ review_tasks[decisions[y][i].task] =
                         [exception |-> y, due_by |-> decisions[y][i].expiry]
  <2>1. decisions[y][i] \in DecisionRecord /\ review_tasks \in Seq(Task)
    BY <1>9 DEF ExceptionInv, ExceptionTypes
  <2>2. decisions[y][i].task \in Nat
    BY <2>1 DEF DecisionRecord
  <2> QED BY <1>9, <2>1, <2>2 DEF ExceptionInv, TasksInv
<1>10. Len(review_tasks) \in Nat
  BY DEF ExceptionInv, ExceptionTypes
<1>11. TasksInv'
  <2> SUFFICES ASSUME NEW y \in ExceptionId, NEW i \in DOMAIN decisions'[y]
               PROVE  /\ decisions'[y][i].task <= Len(review_tasks')
                      /\ decisions'[y][i].decision = "approved" =>
                            /\ decisions'[y][i].task > 0
                            /\ review_tasks'[decisions'[y][i].task] =
                                  [exception |-> y, due_by |-> decisions'[y][i].expiry]
    BY DEF TasksInv
  <2>1. CASE y = x /\ i = n /\ decisions'[y][i] = d
    BY <1>2, <2>1
  <2>2. CASE i \in DOMAIN decisions[y] /\ decisions'[y][i] = decisions[y][i]
    <3>1. decisions[y][i].task \in Nat /\ decisions[y][i].task <= Len(review_tasks)
      BY <1>9, <2>2
    <3>2. decisions[y][i].task <= Len(review_tasks')
      BY <1>10, <3>1
    <3> QED BY <1>9, <2>2, <3>2
  <2> QED BY <1>8, <2>1, <2>2
<1>12. OwnTaskInv'
  <2> SUFFICES ASSUME NEW y \in ExceptionId, NEW z \in ExceptionId,
                      NEW i \in DOMAIN decisions'[y], NEW j \in DOMAIN decisions'[z],
                      decisions'[y][i].task > 0,
                      decisions'[y][i].task = decisions'[z][j].task
               PROVE  y = z /\ i = j
    BY DEF OwnTaskInv
  <2>1. CASE y = x /\ i = n /\ decisions'[y][i] = d /\ j \in DOMAIN decisions[z]
             /\ decisions'[z][j] = decisions[z][j]
    <3>1. decisions[z][j].task \in Nat /\ decisions[z][j].task <= Len(review_tasks)
      BY <1>9, <2>1
    <3> QED BY <1>2, <1>10, <2>1, <3>1
  <2>2. CASE z = x /\ j = n /\ decisions'[z][j] = d /\ i \in DOMAIN decisions[y]
             /\ decisions'[y][i] = decisions[y][i]
    <3>1. decisions[y][i].task \in Nat /\ decisions[y][i].task <= Len(review_tasks)
      BY <1>9, <2>2
    <3> QED BY <1>2, <1>10, <2>2, <3>1
  <2>3. CASE i \in DOMAIN decisions[y] /\ decisions'[y][i] = decisions[y][i]
             /\ j \in DOMAIN decisions[z] /\ decisions'[z][j] = decisions[z][j]
    BY <2>3 DEF ExceptionInv, OwnTaskInv
  <2> QED BY <1>8, <2>1, <2>2, <2>3
<1> QED BY <1>6, <1>7, <1>11, <1>12 DEF ExceptionInv

LEMMA NewTaskFacts ==
    ASSUME ExceptionInv, NEW x \in Requested, NewTask(x)
    PROVE  /\ review_tasks' \in Seq(Task)
           /\ Len(review_tasks) \in Nat /\ Len(review_tasks') = Len(review_tasks) + 1
           /\ \A k \in DOMAIN review_tasks : review_tasks'[k] = review_tasks[k]
           /\ review_tasks'[Len(review_tasks')] = [exception |-> x, due_by |-> expires_at[x]]
<1> DEFINE task == [exception |-> x, due_by |-> expires_at[x]]
<1>1. task \in Task
  BY DEF Task, Requested, ExceptionInv, ExceptionTypes
<1>2. review_tasks' = Append(review_tasks, task) /\ review_tasks \in Seq(Task)
  BY DEF NewTask, ExceptionInv, ExceptionTypes
<1> HIDE DEF task
<1>3. /\ review_tasks' \in Seq(Task)
      /\ Len(review_tasks) \in Nat /\ Len(review_tasks') = Len(review_tasks) + 1
      /\ \A k \in DOMAIN review_tasks : review_tasks'[k] = review_tasks[k]
      /\ review_tasks'[Len(review_tasks')] = task
  BY <1>1, <1>2, AppendFacts
<1> QED BY <1>3 DEF task

LEMMA ExceptionStep == ExceptionInv /\ [Next]_vars => ExceptionInv'
<1> SUFFICES ASSUME ExceptionInv, [Next]_vars PROVE ExceptionInv'
  OBVIOUS
<1>1. ASSUME NEW x \in ExceptionId, NEW expiry \in 0..MaxTime, NEW by \in BOOLEAN,
             SubmitException(x, expiry, by)
      PROVE  ExceptionInv'
  <2>1. /\ UNCHANGED <<now, decisions, review_tasks>>
        /\ \/ expires_at' = [expires_at EXCEPT ![x] = expiry] /\ Audit(x, "submitted")
           \/ UNCHANGED <<expires_at, ledger>>
    BY <1>1 DEF SubmitException
  <2>2. TasksInv' /\ OwnTaskInv'
    BY <2>1 DEF ExceptionInv, TasksInv, OwnTaskInv
  <2>3. CASE expires_at' = [expires_at EXCEPT ![x] = expiry] /\ Audit(x, "submitted")
    <3>1. /\ ledger' \in [ExceptionId -> [LedgerEvent -> Nat]]
          /\ \A y \in ExceptionId \ {x} : ledger'[y] = ledger[y]
          /\ ledger'[x]["submitted"] = ledger[x]["submitted"] + 1
      BY <2>3, AuditFacts DEF LedgerEvent
    <3>2. expiry \in Nat /\ ledger[x]["submitted"] \in Nat
      BY TimeAssumption DEF ExceptionInv, ExceptionTypes, LedgerEvent
    <3>3. ExceptionTypes'
      BY <2>1, <2>3, <3>1, <3>2 DEF ExceptionInv, ExceptionTypes
    <3>4. /\ expires_at'[x] = expiry /\ \A y \in ExceptionId \ {x} : expires_at'[y] = expires_at[y]
      BY <2>3 DEF ExceptionInv, ExceptionTypes
    <3>5. DecidedInv'
      <4> SUFFICES ASSUME NEW y \in ExceptionId
                   PROVE  /\ expires_at'[y] # NoRequest <=> ledger'[y]["submitted"] > 0
                          /\ expires_at'[y] = NoRequest => decisions[y] = <<>>
                          /\ ledger'[y]["submitted"] = 1 =>
                                \A i \in DOMAIN decisions[y] :
                                    decisions[y][i].expiry = expires_at'[y]
        BY <2>1 DEF DecidedInv, Requested
      <4>1. CASE y = x
        <5>1. expiry # NoRequest
          BY <3>2 DEF NoRequest
        <5>2. ledger'[x]["submitted"] = 1 => decisions[x] = <<>>
          BY <3>1, <3>2 DEF ExceptionInv, DecidedInv
        <5> QED BY <3>1, <3>2, <3>4, <4>1, <5>1, <5>2
      <4>2. CASE y # x
        BY <3>1, <3>4, <4>2 DEF ExceptionInv, DecidedInv, Requested
      <4> QED BY <4>1, <4>2
    <3> QED BY <2>2, <3>3, <3>5 DEF ExceptionInv
  <2>4. CASE UNCHANGED <<expires_at, ledger>>
    BY <2>1, <2>2, <2>4 DEF ExceptionInv, ExceptionTypes, DecidedInv, Requested
  <2> QED BY <2>1, <2>3, <2>4
<1>2. ASSUME NEW x \in ExceptionId, ApproveException(x)
      PROVE  ExceptionInv'
  <2>1. x \in Requested /\ NewTask(x) /\ Audit(x, "approved") /\ UNCHANGED <<now, expires_at>>
    BY <1>2 DEF ApproveException
  <2>2. PICK t \in Nat : t = Len(review_tasks')
    <3>1. Len(review_tasks) \in Nat /\ Len(review_tasks') = Len(review_tasks) + 1
      BY <2>1, NewTaskFacts
    <3> QED BY <3>1
  <2>3. Decide(x, "approved", t)
    BY <1>2, <2>2 DEF ApproveException
  <2>4. /\ review_tasks' \in Seq(Task)
        /\ \A k \in DOMAIN review_tasks : review_tasks'[k] = review_tasks[k]
        /\ review_tasks'[t] = [exception |-> x, due_by |-> expires_at[x]]
    BY <2>1, <2>2, NewTaskFacts
  <2>5. Len(review_tasks) \in Nat /\ Len(review_tasks') = Len(review_tasks) + 1
    BY <2>1, NewTaskFacts
  <2>6. /\ Len(review_tasks') \in Nat /\ Len(review_tasks) <= Len(review_tasks')
        /\ t > 0 /\ t > Len(review_tasks) /\ t <= Len(review_tasks')
    BY <2>2, <2>5
  <2> QED BY <2>1, <2>3, <2>4, <2>6, DecideKeeps
<1>3. ASSUME NEW x \in ExceptionId, ApproveExceptionRefused(x)
      PROVE  ExceptionInv'
  <2>1. x \in Requested /\ NewTask(x) /\ UNCHANGED <<now, expires_at, decisions, ledger>>
    BY <1>3 DEF ApproveExceptionRefused
  <2>2. ExceptionTypes' /\ DecidedInv' /\ OwnTaskInv'
    <3>1. review_tasks' \in Seq(Task)
      BY <2>1, NewTaskFacts
    <3>2. ExceptionTypes'
      BY <2>1, <3>1 DEF ExceptionInv, ExceptionTypes
    <3>3. DecidedInv'
      BY <2>1 DEF ExceptionInv, DecidedInv, Requested
    <3>4. OwnTaskInv'
      BY <2>1 DEF ExceptionInv, OwnTaskInv
    <3> QED BY <3>2, <3>3, <3>4
  <2>3. TasksInv'
    <3> SUFFICES ASSUME NEW y \in ExceptionId, NEW i \in DOMAIN decisions[y]
                 PROVE  /\ decisions[y][i].task <= Len(review_tasks')
                        /\ decisions[y][i].decision = "approved" =>
                              /\ decisions[y][i].task > 0
                              /\ review_tasks'[decisions[y][i].task] =
                                    [exception |-> y, due_by |-> decisions[y][i].expiry]
      BY <2>1 DEF TasksInv
    <3>1. decisions[y][i] \in DecisionRecord /\ review_tasks \in Seq(Task)
      BY DEF ExceptionInv, ExceptionTypes
    <3>2. decisions[y][i].task \in Nat
      BY <3>1 DEF DecisionRecord
    <3>3. /\ decisions[y][i].task <= Len(review_tasks)
          /\ decisions[y][i].decision = "approved" =>
                /\ decisions[y][i].task > 0
                /\ review_tasks[decisions[y][i].task] =
                      [exception |-> y, due_by |-> decisions[y][i].expiry]
      BY DEF ExceptionInv, TasksInv
    <3>4. decisions[y][i].decision = "approved" => decisions[y][i].task \in DOMAIN review_tasks
      BY <3>1, <3>2, <3>3
    <3>5. decisions[y][i].task <= Len(review_tasks')
      <4>1. Len(review_tasks) \in Nat /\ Len(review_tasks') = Len(review_tasks) + 1
        BY <2>1, NewTaskFacts
      <4> QED BY <3>2, <3>3, <4>1
    <3>6. \A k \in DOMAIN review_tasks : review_tasks'[k] = review_tasks[k]
      BY <2>1, NewTaskFacts
    <3> QED BY <3>3, <3>4, <3>5, <3>6
  <2> QED BY <2>2, <2>3 DEF ExceptionInv
<1>4. ASSUME NEW x \in ExceptionId, RejectException(x)
      PROVE  ExceptionInv'
  <2>1. /\ x \in Requested /\ Decide(x, "rejected", 0) /\ Audit(x, "rejected")
        /\ UNCHANGED <<now, expires_at, review_tasks>>
    BY <1>4 DEF RejectException
  <2>2. review_tasks \in Seq(Task) /\ Len(review_tasks) \in Nat
    BY DEF ExceptionInv, ExceptionTypes
  <2>3. /\ review_tasks' \in Seq(Task) /\ Len(review_tasks') \in Nat
        /\ Len(review_tasks) <= Len(review_tasks') /\ 0 <= Len(review_tasks')
        /\ \A k \in DOMAIN review_tasks : review_tasks'[k] = review_tasks[k]
    BY <2>1, <2>2
  <2> QED BY <2>1, <2>3, DecideKeeps
<1>5. CASE UNCHANGED <<expires_at, decisions, review_tasks, ledger>> /\ (now' = now \/ now' = now + 1)
  BY <1>5 DEF ExceptionInv, ExceptionTypes, DecidedInv, TasksInv, OwnTaskInv, Requested
<1>6. ASSUME NEW x \in ExceptionId, RevokeException(x)
      PROVE  ExceptionInv'
  <2>1. /\ x \in Requested /\ Audit(x, "revoked")
        /\ UNCHANGED <<now, expires_at, decisions, review_tasks>>
    BY <1>6 DEF RevokeException
  <2>2. /\ ledger' \in [ExceptionId -> [LedgerEvent -> Nat]]
        /\ \A y \in ExceptionId : ledger'[y]["submitted"] = ledger[y]["submitted"]
    BY <2>1, AuditFacts DEF LedgerEvent
  <2> QED BY <2>1, <2>2
             DEF ExceptionInv, ExceptionTypes, DecidedInv, TasksInv, OwnTaskInv, Requested
<1>7. CASE Tick
  BY <1>5, <1>7 DEF Tick, exceptionVars
<1>8. CASE UNCHANGED vars
  BY <1>5, <1>8 DEF vars, exceptionVars
<1> QED BY <1>1, <1>2, <1>3, <1>4, <1>6, <1>7, <1>8 DEF Next

LEMMA ExceptionInvariant == Spec => []ExceptionInv
BY ExceptionInit, ExceptionStep, PTL DEF Spec

(***************************************************************************)
(* Every approval that approve_exception records has a review task of its  *)
(* own, for its exception and due at the expiry that was approved, however *)
(* approvals, rejections, half-failed approvals, revocations and           *)
(* replacements of the request follow each other.                          *)
(***************************************************************************)
THEOREM EveryApprovalReviewed == Spec => []ApprovalsReviewed
BY ExceptionInvariant, InvReviewed, PTL

(***************************************************************************)
(* What get_active_exceptions lists is under review when it ends, unless   *)
(* submit_exception replaced the request that was approved.                *)
(***************************************************************************)
THEOREM NothingInForceUnreviewed == Spec => []InForceIsReviewed
BY ExceptionInvariant, InvInForce, PTL
=============================================================================
