------------------------- MODULE ReleaseGuardProofs -------------------------
(***************************************************************************)
(* The Release Guard for every set of profiles and risks, and any number   *)
(* of approvers, submissions and exceptions.  ApprovedByAPerson and        *)
(* NoLostApproval hold for every number of threads; what TLC shows to fail *)
(* with two threads is proved of a service that handles its requests one   *)
(* after the other.                                                        *)
(***************************************************************************)
EXTENDS ReleaseGuard, FiniteSetTheorems, TLAPS

(***************************************************************************)
(* What makes ApprovedByAPerson inductive: a thread is on its way to       *)
(* mark_approved only after it, or another one, approved a step, and the   *)
(* history of approvals is never taken back.                               *)
(***************************************************************************)
PersonInv ==
    /\ pc \in [Worker -> Handling]
    /\ \A w \in Worker : pc[w] \in {"deciding", "completing"} => signed
    /\ ApprovedByAPerson

LEMMA PersonInit == Init => PersonInv
BY DEF Init, PersonInv, Handling, ApprovedByAPerson

\* Steps that leave the status of the release alone keep ApprovedByAPerson.
LEMMA StatusUntouched ==
    ASSUME ApprovedByAPerson, UNCHANGED <<status, waived>>,
           signed => signed', excused => excused'
    PROVE  ApprovedByAPerson'
BY DEF ApprovedByAPerson

\* The profile, the evidence, the exceptions and the cancellation: no thread moves.
LEMMA PersonIdle ==
    ASSUME PersonInv, NEW w \in Worker,
           \/ \E p \in Profile : SetPolicyProfile(w, p)
           \/ \E e \in Offered : AddEvidence(w, e) \/ RemoveEvidence(w, e)
           \/ \E x \in ExceptionId : \/ RaiseException(w, x)
                                     \/ ApproveException(w, x)
                                     \/ RejectException(w, x)
           \/ Cancel(w)
    PROVE  PersonInv'
<1>1. UNCHANGED <<pc, signed>>
  BY DEF SetPolicyProfile, AddEvidence, RemoveEvidence, RaiseException, ApproveException,
         RejectException, Cancel, history
<1>2. ApprovedByAPerson'
  <2>0. CASE \E p \in Profile : SetPolicyProfile(w, p)
    BY <2>0, StatusUntouched DEF PersonInv, SetPolicyProfile, history
  <2>1. CASE \E e \in Offered : AddEvidence(w, e) \/ RemoveEvidence(w, e)
    BY <2>1, StatusUntouched DEF PersonInv, AddEvidence, RemoveEvidence, history
  <2>2. CASE \E x \in ExceptionId : RaiseException(w, x) \/ RejectException(w, x)
    BY <2>2, StatusUntouched DEF PersonInv, RaiseException, RejectException, history
  <2>3. CASE \E x \in ExceptionId : ApproveException(w, x)
    BY <2>3 DEF ApproveException, ApprovedByAPerson
  <2>4. CASE Cancel(w)
    BY <2>4 DEF Cancel, ApprovedByAPerson
  <2> QED BY <2>0, <2>1, <2>2, <2>3, <2>4
<1> QED BY <1>1, <1>2 DEF PersonInv

\* Submission: approved at once only if no approval is needed.
LEMMA PersonSubmission ==
    ASSUME PersonInv, NEW w \in Worker,
           SubmitGuard(w) \/ SubmitPending(w) \/ SubmitCheck(w) \/ SubmitGate(w)
               \/ SubmitReturn(w) \/ RequestStep(w)
    PROVE  PersonInv'
<1>1. /\ pc' \in [Worker -> Handling]
      /\ \A v \in Worker : pc'[v] \in {"deciding", "completing"} => pc[v] = pc'[v]
  BY DEF PersonInv, Handling, Goto, SubmitGuard, SubmitPending, SubmitCheck, SubmitGate,
         SubmitReturn, RequestStep
<1>2. UNCHANGED <<signed, excused>>
  BY DEF SubmitGuard, SubmitPending, SubmitCheck, SubmitGate, SubmitReturn, RequestStep, history
<1>3. ApprovedByAPerson'
  <2>1. CASE SubmitGuard(w) \/ SubmitReturn(w) \/ RequestStep(w)
    BY <1>2, <2>1, StatusUntouched DEF PersonInv, SubmitGuard, SubmitReturn, RequestStep,
                                     history
  <2>2. CASE SubmitPending(w)
    BY <2>2 DEF SubmitPending, ApprovedByAPerson
  <2>3. CASE SubmitCheck(w)
    <3>1. (status' = status \/ status' = "blocked") /\ UNCHANGED waived
      BY <2>3 DEF SubmitCheck
    <3> QED BY <1>2, <3>1, StatusUntouched DEF PersonInv, ApprovedByAPerson
  <2>4. CASE SubmitGate(w)
    <3>1. status' = "approved" => waived'
      BY <2>4 DEF SubmitGate, GateCompiled, GateBlocked, GateUnavailable, GatePassed
    <3> QED BY <3>1 DEF ApprovedByAPerson
  <2> QED BY <2>1, <2>2, <2>3, <2>4
<1> QED BY <1>1, <1>2, <1>3 DEF PersonInv

\* Decisions on approval steps: a thread completes a release only after an approval.
LEMMA PersonDecision ==
    ASSUME PersonInv, NEW w \in Worker,
           \/ \E i \in StepId : ApproveStep(w, i) \/ RejectStep(w, i)
           \/ CheckCompletion(w) \/ MarkApproved(w) \/ MarkBlocked(w)
    PROVE  PersonInv'
<1>1. CASE \E i \in StepId : ApproveStep(w, i)
  <2>1. /\ pc' \in [Worker -> Handling]
        /\ signed'
    BY <1>1 DEF PersonInv, Handling, Goto, ApproveStep
  <2>2. ApprovedByAPerson'
    BY <1>1, StatusUntouched DEF PersonInv, ApproveStep
  <2> QED BY <2>1, <2>2 DEF PersonInv
<1>2. CASE \E i \in StepId : RejectStep(w, i)
  <2>1. /\ pc' \in [Worker -> Handling]
        /\ \A v \in Worker : pc'[v] \in {"deciding", "completing"} => pc[v] = pc'[v]
        /\ UNCHANGED <<signed, excused>>
    BY <1>2 DEF PersonInv, Handling, Goto, RejectStep, history
  <2>2. ApprovedByAPerson'
    BY <1>2, <2>1, StatusUntouched DEF PersonInv, RejectStep, history
  <2> QED BY <2>1, <2>2 DEF PersonInv
<1>3. CASE CheckCompletion(w)
  <2>1. signed /\ UNCHANGED <<signed, excused>>
    BY <1>3 DEF PersonInv, CheckCompletion, history
  <2>2. pc' \in [Worker -> Handling]
    BY <1>3 DEF PersonInv, Handling, Goto, CheckCompletion
  <2>3. ApprovedByAPerson'
    BY <1>3, <2>1, StatusUntouched DEF PersonInv, CheckCompletion, history
  <2> QED BY <2>1, <2>2, <2>3 DEF PersonInv
<1>4. CASE MarkApproved(w)
  <2>1. signed /\ signed' = signed
    BY <1>4 DEF PersonInv, MarkApproved
  <2>2. pc' \in [Worker -> Handling]
    BY <1>4 DEF PersonInv, Handling, Goto, MarkApproved
  <2> QED BY <2>1, <2>2 DEF PersonInv, ApprovedByAPerson
<1>5. CASE MarkBlocked(w)
  <2>1. /\ pc' \in [Worker -> Handling]
        /\ \A v \in Worker : pc'[v] \in {"deciding", "completing"} => pc[v] = pc'[v]
        /\ UNCHANGED signed
        /\ status' = "blocked"
    BY <1>5 DEF PersonInv, Handling, Goto, MarkBlocked, history
  <2> QED BY <2>1 DEF PersonInv, ApprovedByAPerson
<1> QED BY <1>1, <1>2, <1>3, <1>4, <1>5

LEMMA PersonStep == PersonInv /\ [Next]_vars => PersonInv'
<1> SUFFICES ASSUME PersonInv, [Next]_vars PROVE PersonInv'
  OBVIOUS
<1>1. CASE UNCHANGED vars
  BY <1>1 DEF vars, history, PersonInv, ApprovedByAPerson
<1>2. CASE Next
  <2> PICK w \in Worker :
        \/ \E p \in Profile : SetPolicyProfile(w, p)
        \/ \E e \in Offered : AddEvidence(w, e) \/ RemoveEvidence(w, e)
        \/ SubmitGuard(w)
        \/ \E i \in StepId : ApproveStep(w, i) \/ RejectStep(w, i)
        \/ \E x \in ExceptionId : \/ RaiseException(w, x)
                                  \/ ApproveException(w, x)
                                  \/ RejectException(w, x)
        \/ Cancel(w)
        \/ Continue(w)
    BY <1>2 DEF Next
  <2> QED BY PersonIdle, PersonSubmission, PersonDecision DEF Continue
<1> QED BY <1>1, <1>2

(***************************************************************************)
(* A release is APPROVED only after a person approved a step or an         *)
(* exception, or a submission came through under a profile that asks for   *)
(* no approval, whichever threads change the profile, submit, decide and   *)
(* cancel at the same time.                                                *)
(***************************************************************************)
THEOREM ApprovalNeedsAPerson == Spec => []ApprovedByAPerson
<1>1. PersonInv => ApprovedByAPerson
  BY DEF PersonInv
<1> QED BY PersonInit, PersonStep, <1>1, PTL DEF Spec

-----------------------------------------------------------------------------
(* NoLostApproval: the approval steps of concurrent submissions.           *)

\* The members a thread may still ask before its submission ends.
MayAsk(w) ==
    IF pc[w] \in {"submitting", "checking", "gating", "returned"} THEN 1..2
    ELSE IF pc[w] = "requesting" THEN left[w] ELSE {}

Owed == {o \in Worker \X (1..2) : o[2] \in MayAsk(o[1])}

\* The steps are numbered in the order they were requested, and there are at
\* most two of them for each submission, those still owed included: the next
\* step a thread requests has a number of its own.
StepsInv ==
    /\ IsFiniteSet(Owed)
    /\ \E n \in 0..(2 * submissions) : Steps = 1..n /\ n + Cardinality(Owed) <= 2 * submissions

LeftInv == \A w \in Worker : pc[w] = "requesting" => left[w] # {}

ThreadInv == TypeOK /\ LeftInv /\ StepsInv /\ NoLostApproval

LEMMA ThreadInit == Init => ThreadInv
<1> SUFFICES ASSUME Init PROVE ThreadInv
  OBVIOUS
<1>1. TypeOK /\ LeftInv
  <2>1. submissions \in 0..MaxSubmissions
    BY BoundsAssumption DEF Init
  <2>2. /\ left \in [Worker -> SUBSET (1..2)] /\ pc \in [Worker -> Handling] /\ LeftInv
        /\ used \in [Worker -> Profile] /\ approver \in [StepId -> 0..2]
    BY DEF Init, Handling, LeftInv
  <2>3. step \in [StepId -> {"none", "pending", "approved", "rejected"}]
    BY DEF Init
  <2>4. exception \in [ExceptionId -> {"none", "pending_approval", "approved", "rejected"}]
    BY DEF Init
  <2>5. /\ complete \in BOOLEAN /\ signed \in BOOLEAN /\ excused \in BOOLEAN
        /\ offline \in BOOLEAN /\ waived \in BOOLEAN
    BY Zenon DEF Init
  <2>7. by \in {"none", "policy", "approvers", "exception"} /\ needed \in 0..2
    BY DEF Init
  <2>6. /\ profile \in Profile /\ risk \in Risk /\ named \in BOOLEAN
        /\ status \in ReleaseStatus /\ attached \subseteq EvidenceType /\ trail \in ReleaseStatus
    BY DEF Init, ReleaseStatus
  <2> QED BY <2>1, <2>2, <2>3, <2>4, <2>5, <2>6, <2>7 DEF TypeOK
<1>2. Owed = {} /\ Steps = {}
  BY DEF Init, Owed, MayAsk, Steps
<1>3. 1..0 = {}
  OBVIOUS
<1>4. StepsInv
  BY <1>2, <1>3, FS_EmptySet DEF StepsInv, Init
<1>5. NoLostApproval
  BY DEF Init, NoLostApproval
<1> QED BY <1>1, <1>4, <1>5 DEF ThreadInv

\* The profile, the evidence, the exceptions and the cancellation: no thread moves.
IdleOperation(w) ==
    \/ \E p \in Profile : SetPolicyProfile(w, p)
    \/ \E e \in Offered : AddEvidence(w, e) \/ RemoveEvidence(w, e)
    \/ \E x \in ExceptionId : \/ RaiseException(w, x)
                              \/ ApproveException(w, x)
                              \/ RejectException(w, x)
    \/ Cancel(w)

LEMMA TypesIdle ==
    ASSUME TypeOK, NEW w \in Worker, IdleOperation(w)
    PROVE  /\ TypeOK'
           /\ UNCHANGED <<pc, used, left, step, approver, submissions, complete, signed, offline,
                          waived, needed>>
<1>0. CASE \E p \in Profile : SetPolicyProfile(w, p)
  BY <1>0 DEF TypeOK, SetPolicyProfile, steps, history
<1>1. CASE \E e \in Offered : AddEvidence(w, e) \/ RemoveEvidence(w, e)
  <2>1. attached' \subseteq EvidenceType
    BY <1>1, OfferedAssumption DEF TypeOK, AddEvidence, RemoveEvidence, EvidenceType
  <2> QED BY <1>1, <2>1 DEF TypeOK, AddEvidence, RemoveEvidence, requestVars, steps, history
<1>2. CASE \E x \in ExceptionId : RaiseException(w, x) \/ ApproveException(w, x) \/ RejectException(w, x)
  <2>1. PICK x \in ExceptionId :
            RaiseException(w, x) \/ ApproveException(w, x) \/ RejectException(w, x)
    BY <1>2
  <2>2. CASE RaiseException(w, x)
    BY <2>2 DEF TypeOK, RaiseException, requestVars, steps, history
  <2>3. CASE ApproveException(w, x)
    BY <2>3 DEF TypeOK, ApproveException, requestVars, steps, ReleaseStatus
  <2>4. CASE RejectException(w, x)
    BY <2>4 DEF TypeOK, RejectException, requestVars, steps, history
  <2> QED BY <2>1, <2>2, <2>3, <2>4
<1>3. CASE Cancel(w)
  BY <1>3 DEF TypeOK, Cancel, requestVars, steps, history, ReleaseStatus
<1> QED BY <1>0, <1>1, <1>2, <1>3 DEF IdleOperation

\* A workspace asks one or two approvers, if it has them.
LEMMA ApproverCount ==
    /\ MembersAsked \in 0..2
    /\ NumApprovers > 0 => MembersAsked > 0
BY ApproversAssumption DEF MembersAsked, ApproversRequired

\* They are the first of its members.
LEMMA MembersExist == 1..MembersAsked \subseteq 1..2
BY ApproverCount

LEMMA TypesSubmission ==
    ASSUME TypeOK, LeftInv, NEW w \in Worker,
           \/ submissions < MaxSubmissions /\ SubmitGuard(w)
           \/ SubmitPending(w) \/ SubmitCheck(w) \/ SubmitGate(w) \/ SubmitReturn(w)
           \/ RequestStep(w)
    PROVE  TypeOK' /\ LeftInv'
<1>1. CASE submissions < MaxSubmissions /\ SubmitGuard(w)
  BY <1>1, BoundsAssumption DEF TypeOK, LeftInv, SubmitGuard, Goto, Handling, requestVars, steps
<1>2. CASE SubmitPending(w)
  BY <1>2 DEF TypeOK, LeftInv, SubmitPending, Goto, Handling, requestVars, steps, history,
              ReleaseStatus
<1>3. CASE SubmitCheck(w)
  <2>1. /\ status' \in ReleaseStatus /\ trail' \in ReleaseStatus
        /\ complete' \in BOOLEAN /\ pc' \in [Worker -> Handling]
    BY <1>3 DEF TypeOK, SubmitCheck, Goto, Handling, ReleaseStatus
  <2>2. LeftInv'
    BY <1>3 DEF TypeOK, LeftInv, SubmitCheck, Goto
  <2>3. UNCHANGED <<requestVars, attached, steps, exception, used, left, submissions, signed,
                    excused, offline, waived, by, needed>>
    BY <1>3 DEF SubmitCheck
  <2> QED BY <2>1, <2>2, <2>3 DEF TypeOK, requestVars, steps
<1>4. CASE SubmitGate(w)
  <2>1. /\ status' \in ReleaseStatus /\ trail' \in ReleaseStatus /\ offline' \in BOOLEAN
        /\ waived' \in BOOLEAN /\ by' \in {"none", "policy", "approvers", "exception"}
    BY <1>4 DEF TypeOK, SubmitGate, GateCompiled, GateBlocked, GateUnavailable, GatePassed,
                ReleaseStatus
  <2>2. LeftInv' /\ pc' \in [Worker -> Handling]
    BY <1>4 DEF TypeOK, LeftInv, SubmitGate, Goto, Handling
  <2>3. UNCHANGED <<requestVars, attached, steps, exception, used, left, submissions,
                    complete, signed, excused, needed>>
    BY <1>4 DEF SubmitGate
  <2> QED BY <2>1, <2>2, <2>3 DEF TypeOK, requestVars, steps
<1>5. CASE SubmitReturn(w)
  <2>1. left' \in [Worker -> SUBSET (1..2)] /\ needed' \in 0..2 /\ pc' \in [Worker -> Handling]
    BY <1>5, ApproverCount, MembersExist DEF TypeOK, SubmitReturn, Goto, Handling
  <2>2. MembersAsked > 0 => 1 \in 1..MembersAsked
    BY ApproverCount
  <2>3. LeftInv'
    BY <1>5, <2>2 DEF TypeOK, LeftInv, SubmitReturn, Goto
  <2> QED BY <1>5, <2>1, <2>3 DEF TypeOK, SubmitReturn, requestVars, steps
<1>6. CASE RequestStep(w)
  <2> DEFINE i == Cardinality(Steps) + 1
  <2>1. PICK m \in left[w] :
            /\ step' = [step EXCEPT ![i] = "pending"]
            /\ approver' = [approver EXCEPT ![i] = m]
            /\ left' = [left EXCEPT ![w] = @ \ {m}]
            /\ pc' = [pc EXCEPT ![w] = IF left[w] = {m} THEN "idle" ELSE "requesting"]
    BY <1>6 DEF RequestStep, Goto
  <2>2. m \in 0..2
    BY <2>1 DEF TypeOK
  <2>3. step' \in [StepId -> {"none", "pending", "approved", "rejected"}]
    BY <2>1 DEF TypeOK
  <2>4. approver' \in [StepId -> 0..2]
    <3> HIDE DEF i
    <3> QED BY <2>1, <2>2 DEF TypeOK
  <2>5. left' \in [Worker -> SUBSET (1..2)] /\ pc' \in [Worker -> Handling]
    BY <2>1 DEF TypeOK, Handling
  <2>6. LeftInv'
    BY <2>1 DEF TypeOK, LeftInv
  <2> QED BY <1>6, <2>3, <2>4, <2>5, <2>6 DEF TypeOK, RequestStep, requestVars, history
<1> QED BY <1>1, <1>2, <1>3, <1>4, <1>5, <1>6

LEMMA TypesDecision ==
    ASSUME TypeOK, LeftInv, NEW w \in Worker,
           \/ \E i \in StepId : ApproveStep(w, i) \/ RejectStep(w, i)
           \/ CheckCompletion(w) \/ MarkApproved(w) \/ MarkBlocked(w)
    PROVE  TypeOK' /\ LeftInv'
<1>1. CASE \E i \in StepId : ApproveStep(w, i) \/ RejectStep(w, i)
  <2>1. PICK i \in StepId : ApproveStep(w, i) \/ RejectStep(w, i)
    BY <1>1
  <2>2. CASE ApproveStep(w, i)
    BY <2>2 DEF TypeOK, LeftInv, ApproveStep, Goto, Handling, requestVars
  <2>3. CASE RejectStep(w, i)
    BY <2>3 DEF TypeOK, LeftInv, RejectStep, Goto, Handling, requestVars, history
  <2> QED BY <2>1, <2>2, <2>3
<1>2. CASE CheckCompletion(w) \/ MarkApproved(w) \/ MarkBlocked(w)
  BY <1>2 DEF TypeOK, LeftInv, CheckCompletion, MarkApproved, MarkBlocked, Goto, Handling,
              requestVars, steps, history, ReleaseStatus
<1> QED BY <1>1, <1>2

\* Nothing is owed that was not owed before, and no step was requested.
LEMMA StepsKept ==
    ASSUME TypeOK, StepsInv, Owed' \subseteq Owed, Steps' = Steps, submissions' = submissions
    PROVE  StepsInv'
<1>1. IsFiniteSet(Owed') /\ Cardinality(Owed') <= Cardinality(Owed)
  BY FS_Subset DEF StepsInv
<1>2. Cardinality(Owed) \in Nat /\ Cardinality(Owed') \in Nat
  BY <1>1, FS_CardinalityType DEF StepsInv
<1>3. PICK n \in 0..(2 * submissions) : Steps = 1..n /\ n + Cardinality(Owed) <= 2 * submissions
  BY DEF StepsInv
<1>4. n + Cardinality(Owed') <= 2 * submissions
  BY <1>1, <1>2, <1>3 DEF TypeOK
<1> QED BY <1>1, <1>3, <1>4 DEF StepsInv

LEMMA OneMore ==
    ASSUME NEW S, NEW x, IsFiniteSet(S)
    PROVE  Cardinality(S \cup {x}) <= Cardinality(S) + 1
<1>1. Cardinality(S) \in Nat
  BY FS_CardinalityType
<1>2. Cardinality(S \cup {x}) = Cardinality(S) \/ Cardinality(S \cup {x}) = Cardinality(S) + 1
  BY FS_AddElement
<1> QED BY <1>1, <1>2

\* The guard of submit lets a thread request two more steps.
LEMMA StepsGuard ==
    ASSUME TypeOK, StepsInv, NEW w \in Worker, SubmitGuard(w)
    PROVE  StepsInv'
<1>1. Owed' = (Owed \cup {<<w, 1>>}) \cup {<<w, 2>>}
  <2>1. /\ pc'[w] = "submitting" /\ left' = left
        /\ \A v \in Worker \ {w} : pc'[v] = pc[v]
    BY DEF TypeOK, SubmitGuard, Goto
  <2>2. MayAsk(w)' = 1..2 /\ \A v \in Worker \ {w} : MayAsk(v)' = MayAsk(v)
    BY <2>1 DEF MayAsk
  <2>3. \A k \in 1..2 : k = 1 \/ k = 2
    OBVIOUS
  <2> QED BY <2>2, <2>3 DEF Owed
<1>2. IsFiniteSet(Owed')
  BY <1>1, FS_AddElement DEF StepsInv
<1>3. Cardinality(Owed) \in Nat /\ Cardinality(Owed \cup {<<w, 1>>}) \in Nat /\ Cardinality(Owed') \in Nat
  BY <1>1, <1>2, FS_AddElement, FS_CardinalityType DEF StepsInv
<1>4. Cardinality(Owed \cup {<<w, 1>>}) <= Cardinality(Owed) + 1
  BY <1>3, OneMore DEF StepsInv
<1>5. Cardinality(Owed') <= Cardinality(Owed \cup {<<w, 1>>}) + 1
  <2>1. IsFiniteSet(Owed \cup {<<w, 1>>})
    BY FS_AddElement DEF StepsInv
  <2> QED BY <1>1, <2>1, OneMore
<1>6. PICK n \in 0..(2 * submissions) : Steps = 1..n /\ n + Cardinality(Owed) <= 2 * submissions
  BY DEF StepsInv
<1>7. Steps' = Steps /\ submissions' = submissions + 1
  BY DEF SubmitGuard, Steps, steps
<1>8. n \in 0..(2 * submissions') /\ n + Cardinality(Owed') <= 2 * submissions'
  BY <1>3, <1>4, <1>5, <1>6, <1>7 DEF TypeOK
<1> QED BY <1>2, <1>6, <1>7, <1>8 DEF StepsInv

\* A requested step has a number of its own, within the bound.
LEMMA StepsRequest ==
    ASSUME TypeOK, LeftInv, StepsInv, NEW w \in Worker, RequestStep(w)
    PROVE  /\ StepsInv'
           /\ Steps = 1..Cardinality(Steps)
           /\ Steps' = 1..(Cardinality(Steps) + 1)
           /\ Cardinality(Steps) \in Nat
           /\ Cardinality(Steps) + 1 \in StepId \ Steps
<1>1. PICK m \in left[w] :
          /\ step' = [step EXCEPT ![Cardinality(Steps) + 1] = "pending"]
          /\ left' = [left EXCEPT ![w] = @ \ {m}]
          /\ pc' = [pc EXCEPT ![w] = IF left[w] = {m} THEN "idle" ELSE "requesting"]
  BY DEF RequestStep, Goto
<1>2. <<w, m>> \in Owed
  BY <1>1 DEF Owed, MayAsk, RequestStep, TypeOK
<1>3. Owed' = Owed \ {<<w, m>>}
  <2>1. /\ left'[w] = left[w] \ {m} /\ pc[w] = "requesting"
        /\ pc'[w] = IF left[w] = {m} THEN "idle" ELSE "requesting"
        /\ \A v \in Worker \ {w} : left'[v] = left[v] /\ pc'[v] = pc[v]
    BY <1>1 DEF RequestStep, TypeOK
  <2>2. MayAsk(w)' = left[w] \ {m} /\ MayAsk(w) = left[w]
    BY <2>1 DEF MayAsk
  <2>3. \A v \in Worker \ {w} : MayAsk(v)' = MayAsk(v)
    BY <2>1 DEF MayAsk
  <2> QED BY <2>2, <2>3 DEF Owed
<1>4. /\ IsFiniteSet(Owed') /\ Cardinality(Owed') = Cardinality(Owed) - 1
      /\ Cardinality(Owed) \in Nat /\ Cardinality(Owed') \in Nat
  <2>1. IsFiniteSet(Owed)
    BY DEF StepsInv
  <2> QED BY <1>2, <1>3, <2>1, FS_RemoveElement, FS_CardinalityType
<1>5. PICK n \in 0..(2 * submissions) : Steps = 1..n /\ n + Cardinality(Owed) <= 2 * submissions
  BY DEF StepsInv
<1>6. Cardinality(Steps) = n /\ n \in Nat
  BY <1>5, FS_Interval DEF TypeOK
<1>7. n + 1 \in StepId
  BY <1>4, <1>5, <1>6, BoundsAssumption DEF StepId, TypeOK
<1>8. step' = [step EXCEPT ![n + 1] = "pending"]
  BY <1>1, <1>6
<1>9. Steps' = Steps \cup {n + 1}
  BY <1>7, <1>8 DEF Steps, TypeOK
<1>10. Steps' = 1..(n + 1)
  BY <1>5, <1>6, <1>9
<1>11. submissions' = submissions
  BY DEF RequestStep, history
<1>12. n + 1 \in 0..(2 * submissions') /\ n + 1 + Cardinality(Owed') <= 2 * submissions'
  BY <1>4, <1>5, <1>6, <1>11 DEF TypeOK
<1>13. StepsInv'
  BY <1>4, <1>10, <1>12 DEF StepsInv
<1> QED BY <1>5, <1>6, <1>7, <1>10, <1>13

LEMMA StepsStep ==
    ASSUME ThreadInv, Next
    PROVE  TypeOK' /\ LeftInv' /\ StepsInv'
<1> PICK w \in Worker :
      \/ IdleOperation(w)
      \/ submissions < MaxSubmissions /\ SubmitGuard(w)
      \/ \E i \in StepId : ApproveStep(w, i) \/ RejectStep(w, i)
      \/ Continue(w)
  BY DEF Next, IdleOperation
<1> USE DEF ThreadInv
<1>1. CASE IdleOperation(w)
  <2>1. TypeOK' /\ UNCHANGED <<pc, left, step, submissions>>
    BY <1>1, TypesIdle
  <2>2. LeftInv' /\ Owed' = Owed /\ Steps' = Steps
    BY <2>1 DEF LeftInv, Owed, MayAsk, Steps
  <2> QED BY <2>1, <2>2, StepsKept
<1>2. CASE submissions < MaxSubmissions /\ SubmitGuard(w)
  BY <1>2, TypesSubmission, StepsGuard
<1>3. CASE \E i \in StepId : ApproveStep(w, i) \/ RejectStep(w, i)
  <2>1. Steps' = Steps /\ submissions' = submissions
    BY <1>3 DEF ApproveStep, RejectStep, Steps, TypeOK, history
  <2>2. Owed' \subseteq Owed
    BY <1>3 DEF ApproveStep, RejectStep, Goto, Owed, MayAsk, TypeOK
  <2> QED BY <1>3, <2>1, <2>2, TypesDecision, StepsKept
<1>4. CASE CheckCompletion(w) \/ MarkApproved(w) \/ MarkBlocked(w)
  <2>1. Steps' = Steps /\ submissions' = submissions
    BY <1>4 DEF CheckCompletion, MarkApproved, MarkBlocked, Steps, steps, history
  <2>2. Owed' \subseteq Owed
    BY <1>4 DEF CheckCompletion, MarkApproved, MarkBlocked, Goto, Owed, MayAsk, TypeOK
  <2> QED BY <1>4, <2>1, <2>2, TypesDecision, StepsKept
<1>5. CASE SubmitPending(w) \/ SubmitCheck(w) \/ SubmitGate(w)
  <2>1. Steps' = Steps /\ submissions' = submissions
    BY <1>5 DEF SubmitPending, SubmitCheck, SubmitGate, Steps, steps, history
  <2>2. Owed' = Owed
    BY <1>5 DEF SubmitPending, SubmitCheck, SubmitGate, Goto, Owed, MayAsk, TypeOK
  <2> QED BY <1>5, <2>1, <2>2, TypesSubmission, StepsKept
<1>6. CASE SubmitReturn(w)
  <2>1. Steps' = Steps /\ submissions' = submissions
    BY <1>6 DEF SubmitReturn, Steps, steps
  <2>2. Owed' \subseteq Owed
    <3>1. MayAsk(w) = 1..2
      BY <1>6 DEF SubmitReturn, MayAsk
    <3>2. \A v \in Worker \ {w} : MayAsk(v)' = MayAsk(v)
      BY <1>6 DEF SubmitReturn, Goto, MayAsk, TypeOK
    <3>3. \A o \in Owed' : o \in Worker \X (1..2) /\ o[2] \in MayAsk(o[1])'
      BY DEF Owed
    <3> QED BY <3>1, <3>2, <3>3 DEF Owed
  <2> QED BY <1>6, <2>1, <2>2, TypesSubmission, StepsKept
<1>7. CASE RequestStep(w)
  BY <1>7, TypesSubmission, StepsRequest
<1> QED BY <1>1, <1>2, <1>3, <1>4, <1>5, <1>6, <1>7 DEF Continue

\* A thread that goes on with its request leaves the release to itself.
LEMMA Unfinished ==
    ASSUME NEW w \in Worker, pc'[w] # "idle" PROVE NoLostApproval'
BY DEF NoLostApproval, Quiet

LEMMA NoLostStep ==
    ASSUME ThreadInv, Next
    PROVE  NoLostApproval'
<1> PICK w \in Worker :
      \/ IdleOperation(w)
      \/ submissions < MaxSubmissions /\ SubmitGuard(w)
      \/ \E i \in StepId : ApproveStep(w, i) \/ RejectStep(w, i)
      \/ Continue(w)
  BY DEF Next, IdleOperation
<1> USE DEF ThreadInv
<1>1. CASE IdleOperation(w)
  <2>1. UNCHANGED <<pc, step>>
    BY <1>1, TypesIdle
  <2>2. status' = status \/ status' \in {"approved", "cancelled"}
    BY <1>1 DEF IdleOperation, SetPolicyProfile, AddEvidence, RemoveEvidence, RaiseException,
                ApproveException, RejectException, Cancel
  <2> QED BY <2>1, <2>2 DEF NoLostApproval, Quiet, Steps
<1>2. CASE SubmitGuard(w) \/ SubmitPending(w) \/ SubmitCheck(w) \/ SubmitGate(w)
  <2>1. pc'[w] # "idle"
    BY <1>2 DEF SubmitGuard, SubmitPending, SubmitCheck, SubmitGate, Goto, TypeOK
  <2> QED BY <2>1, Unfinished
<1>3. CASE \E i \in StepId : ApproveStep(w, i) \/ RejectStep(w, i)
  <2>1. pc'[w] # "idle"
    BY <1>3 DEF ApproveStep, RejectStep, Goto, TypeOK
  <2> QED BY <2>1, Unfinished
<1>4. CASE CheckCompletion(w)
  <2>1. CASE \A i \in Steps : step[i] = "approved"
    <3>1. pc'[w] # "idle"
      BY <1>4, <2>1 DEF CheckCompletion, Goto, TypeOK
    <3> QED BY <3>1, Unfinished
  <2>2. CASE \E i \in Steps : step[i] # "approved"
    BY <1>4, <2>2 DEF CheckCompletion, NoLostApproval, Steps, steps
  <2> QED BY <2>1, <2>2
<1>5. CASE MarkApproved(w) \/ MarkBlocked(w)
  BY <1>5 DEF MarkApproved, MarkBlocked, NoLostApproval
<1>6. CASE SubmitReturn(w)
  <2>1. CASE status = "pending" /\ NumApprovers > 0
    <3>1. pc'[w] # "idle"
      BY <1>6, <2>1, ApproverCount DEF SubmitReturn, Goto, TypeOK
    <3> QED BY <3>1, Unfinished
  <2>2. CASE ~(status = "pending" /\ NumApprovers > 0)
    BY <1>6, <2>2 DEF SubmitReturn, NoLostApproval
  <2> QED BY <2>1, <2>2
<1>7. CASE RequestStep(w)
  <2>1. PICK n \in StepId : step' = [step EXCEPT ![n] = "pending"]
    BY <1>7, StepsRequest DEF RequestStep
  <2>2. n \in Steps' /\ step'[n] # "approved"
    BY <2>1 DEF Steps, TypeOK
  <2> QED BY <2>2 DEF NoLostApproval
<1> QED BY <1>1, <1>2, <1>3, <1>4, <1>5, <1>6, <1>7 DEF Continue

LEMMA ThreadStep == ThreadInv /\ [Next]_vars => ThreadInv'
<1> SUFFICES ASSUME ThreadInv, [Next]_vars PROVE ThreadInv'
  OBVIOUS
<1>1. CASE UNCHANGED vars
  <2>1. TypeOK' /\ LeftInv' /\ StepsInv'
    BY <1>1 DEF vars, requestVars, steps, history, ThreadInv, TypeOK, LeftInv, StepsInv, Owed,
                MayAsk, Steps
  <2>2. NoLostApproval'
    BY <1>1 DEF vars, steps, ThreadInv, NoLostApproval, Quiet, Steps
  <2> QED BY <2>1, <2>2 DEF ThreadInv
<1>2. CASE Next
  BY <1>2, StepsStep, NoLostStep DEF ThreadInv
<1> QED BY <1>1, <1>2

(***************************************************************************)
(* No approval is lost: between requests, a release whose steps are all    *)
(* approved is not left PENDING, for any number of threads that submit,    *)
(* approve and reject at the same time.                                    *)
(***************************************************************************)
THEOREM ApprovalsNeverLost == Spec => []NoLostApproval
<1>1. ThreadInv => NoLostApproval
  BY DEF ThreadInv
<1> QED BY ThreadInit, ThreadStep, <1>1, PTL DEF Spec

-----------------------------------------------------------------------------
(***************************************************************************)
(* Requests handled one after the other: one thread.                       *)
(***************************************************************************)
OneAtATime == \E w \in Worker : Worker = {w}

\* What a request in progress knows of the release it is about to change.
EvidenceInv ==
    /\ Steps # {} => complete
    /\ \A w \in Worker :
        /\ pc[w] \in {"gating", "requesting", "deciding", "completing"} => complete
        /\ pc[w] = "returned" /\ status \in {"pending", "approved"} => complete
    /\ ApprovedHadEvidence

\* Every member that the last PENDING submission had to ask has a step, or its
\* turn is yet to come, with the release still PENDING.
AskedInv ==
    \A w \in Worker :
        /\ pc[w] = "requesting" => status = "pending"
        /\ \A m \in 1..needed :
              \/ pc[w] = "requesting" /\ m \in left[w]
              \/ \E i \in Steps : approver[i] = m

\* What its approvers approved has no open and no rejected step, unless a
\* rejection is about to block it.
UnanimousInv ==
    \A w \in Worker :
        /\ pc[w] = "completing" => \A i \in Steps : step[i] = "approved"
        /\ status = "approved" /\ by = "approvers" /\ pc[w] # "rejecting" =>
              \A i \in Steps : step[i] = "approved"

TrailInv ==
    \A w \in Worker :
        trail # status => offline \/ pc[w] \in {"checking", "gating"}

SequentialInv ==
    OneAtATime /\ ThreadInv /\ EvidenceInv /\ AskedInv /\ UnanimousInv /\ TrailInv

LEMMA SequentialInit == Init /\ OneAtATime => SequentialInv
<1> SUFFICES ASSUME Init, OneAtATime PROVE SequentialInv
  OBVIOUS
<1>1. Steps = {}
  BY DEF Init, Steps
<1>2. EvidenceInv /\ AskedInv /\ UnanimousInv /\ TrailInv
  BY <1>1 DEF Init, EvidenceInv, ApprovedHadEvidence, AskedInv, UnanimousInv, TrailInv
<1> QED BY <1>2, ThreadInit DEF SequentialInv

\* What an operation that moves no thread does to the status.
LEMMA IdleEffect ==
    ASSUME TypeOK, NEW w \in Worker, IdleOperation(w)
    PROVE  /\ pc[w] = "idle"
           /\ UNCHANGED <<pc, left, step, approver, Steps, complete, offline, needed>>
           /\ \/ UNCHANGED <<status, trail, excused, by>>
              \/ /\ status' = "approved" /\ trail' = "approved"
                 /\ excused' = TRUE /\ by' = "exception"
              \/ status' = "cancelled" /\ trail' = "cancelled" /\ UNCHANGED <<excused, by>>
<1>1. UNCHANGED <<pc, left, step, approver, Steps, complete, offline, needed>>
  BY TypesIdle DEF Steps
<1> QED
  BY <1>1 DEF IdleOperation, SetPolicyProfile, AddEvidence, RemoveEvidence, RaiseException,
              ApproveException, RejectException, Cancel, history

\* What the decisions on a step do to the steps and to the status.
LEMMA DecisionEffect ==
    ASSUME TypeOK, NEW w \in Worker, NEW i \in StepId, ApproveStep(w, i) \/ RejectStep(w, i)
    PROVE  /\ pc[w] = "idle" /\ Steps # {}
           /\ UNCHANGED <<left, approver, status, trail, excused, complete, offline, by, needed,
                          Steps>>
<1>1. Steps' = Steps
  BY DEF ApproveStep, RejectStep, Steps, TypeOK
<1> QED BY <1>1 DEF ApproveStep, RejectStep, history

LEMMA EvidenceStep ==
    ASSUME SequentialInv, NEW w \in Worker, Worker = {w},
           \/ IdleOperation(w)
           \/ SubmitGuard(w)
           \/ \E i \in StepId : ApproveStep(w, i) \/ RejectStep(w, i)
           \/ Continue(w)
    PROVE  EvidenceInv'
<1> USE DEF SequentialInv, ThreadInv
<1>1. CASE IdleOperation(w)
  BY <1>1, IdleEffect DEF EvidenceInv, ApprovedHadEvidence
<1>2. CASE SubmitGuard(w)
  BY <1>2 DEF SubmitGuard, Goto, TypeOK, EvidenceInv, ApprovedHadEvidence, Steps, steps
<1>3. CASE SubmitPending(w)
  BY <1>3 DEF SubmitPending, Goto, TypeOK, EvidenceInv, ApprovedHadEvidence, Steps, steps, history
<1>4. CASE SubmitCheck(w)
  BY <1>4 DEF SubmitCheck, Goto, TypeOK, EvidenceInv, ApprovedHadEvidence, Steps, steps
<1>5. CASE SubmitGate(w)
  <2>1. complete' /\ pc'[w] = "returned"
    BY <1>5 DEF SubmitGate, Goto, TypeOK, EvidenceInv
  <2> QED BY <2>1 DEF EvidenceInv, ApprovedHadEvidence
<1>6. CASE SubmitReturn(w)
  BY <1>6 DEF SubmitReturn, Goto, TypeOK, EvidenceInv, ApprovedHadEvidence, Steps, steps, history
<1>7. CASE RequestStep(w)
  <2>1. complete' /\ complete
    BY <1>7 DEF RequestStep, EvidenceInv, history
  <2> QED BY <2>1 DEF EvidenceInv, ApprovedHadEvidence
<1>8. CASE \E i \in StepId : ApproveStep(w, i) \/ RejectStep(w, i)
  <2>1. complete /\ complete' = complete
    BY <1>8, DecisionEffect DEF EvidenceInv
  <2> QED BY <2>1 DEF EvidenceInv, ApprovedHadEvidence
<1>9. CASE CheckCompletion(w) \/ MarkApproved(w)
  <2>1. complete /\ complete' = complete
    BY <1>9 DEF CheckCompletion, MarkApproved, EvidenceInv, history
  <2> QED BY <2>1 DEF EvidenceInv, ApprovedHadEvidence
<1>10. CASE MarkBlocked(w)
  BY <1>10 DEF MarkBlocked, Goto, TypeOK, EvidenceInv, ApprovedHadEvidence, Steps, steps, history
<1> QED BY <1>1, <1>2, <1>3, <1>4, <1>5, <1>6, <1>7, <1>8, <1>9, <1>10 DEF Continue

LEMMA TrailStep ==
    ASSUME SequentialInv, NEW w \in Worker, Worker = {w},
           \/ IdleOperation(w)
           \/ SubmitGuard(w)
           \/ \E i \in StepId : ApproveStep(w, i) \/ RejectStep(w, i)
           \/ Continue(w)
    PROVE  TrailInv'
<1> USE DEF SequentialInv, ThreadInv
<1>1. CASE IdleOperation(w)
  <2>1. /\ pc[w] = "idle" /\ UNCHANGED <<pc, offline>>
        /\ UNCHANGED <<status, trail>> \/ status' = trail'
    BY <1>1, IdleEffect
  <2> QED BY <2>1 DEF TrailInv
<1>2. CASE SubmitGuard(w) \/ SubmitReturn(w) \/ RequestStep(w) \/ CheckCompletion(w)
  BY <1>2 DEF SubmitGuard, SubmitReturn, RequestStep, CheckCompletion, TrailInv, history
<1>3. CASE SubmitPending(w)
  BY <1>3 DEF SubmitPending, Goto, TypeOK, TrailInv
<1>4. CASE SubmitCheck(w)
  BY <1>4 DEF SubmitCheck, Goto, TypeOK, TrailInv
<1>5. CASE SubmitGate(w)
  BY <1>5 DEF SubmitGate, GateCompiled, GateBlocked, GateUnavailable, TrailInv
<1>6. CASE \E i \in StepId : ApproveStep(w, i) \/ RejectStep(w, i)
  BY <1>6, DecisionEffect DEF TrailInv
<1>7. CASE MarkApproved(w) \/ MarkBlocked(w)
  BY <1>7 DEF MarkApproved, MarkBlocked, TrailInv
<1> QED BY <1>1, <1>2, <1>3, <1>4, <1>5, <1>6, <1>7 DEF Continue

LEMMA AskedStep ==
    ASSUME SequentialInv, NEW w \in Worker, Worker = {w},
           \/ IdleOperation(w)
           \/ SubmitGuard(w)
           \/ \E i \in StepId : ApproveStep(w, i) \/ RejectStep(w, i)
           \/ Continue(w)
    PROVE  AskedInv'
<1> USE DEF SequentialInv, ThreadInv
<1>0. ASSUME UNCHANGED <<needed, approver, Steps>>, pc[w] # "requesting", pc'[w] # "requesting"
      PROVE  AskedInv'
  BY <1>0 DEF AskedInv
<1>1. CASE IdleOperation(w)
  BY <1>0, <1>1, IdleEffect
<1>2. CASE SubmitGuard(w) \/ SubmitPending(w) \/ SubmitCheck(w) \/ SubmitGate(w)
  <2>1. /\ pc[w] \in {"idle", "submitting", "checking", "gating"}
        /\ pc'[w] \in {"submitting", "checking", "gating", "returned"}
    BY <1>2 DEF SubmitGuard, SubmitPending, SubmitCheck, SubmitGate, Goto, TypeOK
  <2>2. UNCHANGED <<needed, approver, Steps>>
    BY <1>2 DEF SubmitGuard, SubmitPending, SubmitCheck, SubmitGate, Steps, steps, history
  <2> QED BY <1>0, <2>1, <2>2
<1>3. CASE SubmitReturn(w)
  <2>1. pc[w] = "returned" /\ UNCHANGED <<approver, Steps, status>>
    BY <1>3 DEF SubmitReturn, Steps, steps
  <2>2. CASE status = "pending" /\ MembersAsked > 0
    <3>1. pc'[w] = "requesting" /\ left'[w] = 1..MembersAsked /\ needed' = MembersAsked
      BY <1>3, <2>2 DEF SubmitReturn, Goto, TypeOK
    <3> QED BY <2>1, <2>2, <3>1 DEF AskedInv
  <2>3. CASE ~(status = "pending" /\ MembersAsked > 0)
    <3>1. pc'[w] = "idle" /\ needed' = needed
      BY <1>3, <2>3 DEF SubmitReturn, Goto, TypeOK
    <3> QED BY <1>0, <2>1, <3>1
  <2> QED BY <2>2, <2>3
<1>4. CASE RequestStep(w)
  <2>1. PICK n \in StepId \ Steps : n = Cardinality(Steps) + 1
    BY <1>4, StepsRequest
  <2>2. PICK m \in left[w] :
            /\ step' = [step EXCEPT ![n] = "pending"]
            /\ approver' = [approver EXCEPT ![n] = m]
            /\ left' = [left EXCEPT ![w] = @ \ {m}]
            /\ pc' = [pc EXCEPT ![w] = IF left[w] = {m} THEN "idle" ELSE "requesting"]
    BY <1>4, <2>1 DEF RequestStep, Goto
  <2>3. /\ Steps' = Steps \cup {n} /\ approver'[n] = m
        /\ \A i \in Steps : approver'[i] = approver[i]
    BY <2>1, <2>2 DEF Steps, TypeOK
  <2>4. /\ left'[w] = left[w] \ {m}
        /\ pc'[w] = IF left[w] = {m} THEN "idle" ELSE "requesting"
    BY <2>2 DEF TypeOK
  <2>5. pc[w] = "requesting" /\ UNCHANGED <<status, needed>>
    BY <1>4 DEF RequestStep, history
  <2>6. \A k \in 1..needed : k \in left[w] \/ \E i \in Steps : approver[i] = k
    BY DEF AskedInv
  <2>7. ASSUME NEW k \in 1..needed
        PROVE  \/ pc'[w] = "requesting" /\ k \in left'[w]
               \/ \E i \in Steps' : approver'[i] = k
    <3>1. CASE k = m
      BY <2>3, <3>1
    <3>2. CASE k # m /\ k \in left[w]
      BY <2>4, <3>2
    <3>3. CASE \E i \in Steps : approver[i] = k
      BY <2>3, <3>3
    <3> QED BY <2>6, <3>1, <3>2, <3>3
  <2> QED BY <2>5, <2>7 DEF AskedInv
<1>5. CASE \E i \in StepId : ApproveStep(w, i) \/ RejectStep(w, i)
  <2>1. /\ UNCHANGED <<needed, approver, Steps>> /\ pc[w] = "idle"
        /\ pc'[w] \in {"deciding", "rejecting"}
    BY <1>5, DecisionEffect DEF ApproveStep, RejectStep, Goto, TypeOK
  <2> QED BY <1>0, <2>1
<1>6. CASE CheckCompletion(w) \/ MarkApproved(w) \/ MarkBlocked(w)
  <2>1. /\ UNCHANGED <<needed, approver, Steps>>
        /\ pc[w] \in {"deciding", "completing", "rejecting"}
        /\ pc'[w] \in {"completing", "idle"}
    BY <1>6 DEF CheckCompletion, MarkApproved, MarkBlocked, Goto, TypeOK, Steps, steps, history
  <2> QED BY <1>0, <2>1
<1> QED BY <1>1, <1>2, <1>3, <1>4, <1>5, <1>6 DEF Continue

LEMMA UnanimousStep ==
    ASSUME SequentialInv, NEW w \in Worker, Worker = {w},
           \/ IdleOperation(w)
           \/ SubmitGuard(w)
           \/ \E i \in StepId : ApproveStep(w, i) \/ RejectStep(w, i)
           \/ Continue(w)
    PROVE  UnanimousInv'
<1> USE DEF SequentialInv, ThreadInv
<1>1. CASE IdleOperation(w)
  <2>1. /\ UNCHANGED <<pc, step, Steps>>
        /\ UNCHANGED <<status, by>> \/ by' = "exception" \/ status' = "cancelled"
    BY <1>1, IdleEffect
  <2> QED BY <2>1 DEF UnanimousInv
<1>2. CASE SubmitGuard(w) \/ SubmitPending(w) \/ SubmitReturn(w)
  <2>1. /\ UNCHANGED <<step, Steps, by>> /\ pc[w] # "rejecting" /\ pc'[w] # "completing"
        /\ status' \in {status, "pending"}
    BY <1>2 DEF SubmitGuard, SubmitPending, SubmitReturn, Goto, TypeOK, Steps, steps, history
  <2> QED BY <2>1 DEF UnanimousInv
<1>3. CASE SubmitCheck(w)
  <2>1. /\ UNCHANGED <<step, Steps, by>> /\ pc[w] # "rejecting" /\ pc'[w] # "completing"
        /\ status' \in {status, "blocked"}
    BY <1>3 DEF SubmitCheck, Goto, TypeOK, Steps, steps
  <2> QED BY <2>1 DEF UnanimousInv
<1>4. CASE SubmitGate(w)
  <2>1. /\ pc'[w] = "returned"
        /\ status' = "approved" => by' = "policy"
    BY <1>4 DEF SubmitGate, GateCompiled, GateBlocked, GateUnavailable, GatePassed, Goto, TypeOK
  <2> QED BY <2>1 DEF UnanimousInv
<1>5. CASE RequestStep(w)
  <2>1. status' = "pending" /\ pc'[w] # "completing"
    BY <1>5 DEF RequestStep, Goto, TypeOK, AskedInv
  <2> QED BY <2>1 DEF UnanimousInv
<1>6. CASE \E i \in StepId : ApproveStep(w, i)
  <2>1. PICK i \in StepId : ApproveStep(w, i)
    BY <1>6
  <2>2. UNCHANGED <<status, by, Steps>> /\ pc[w] = "idle" /\ pc'[w] = "deciding"
    BY <2>1, DecisionEffect DEF ApproveStep, Goto, TypeOK
  <2>3. \A j \in Steps : step[j] = "approved" => step'[j] = "approved"
    BY <2>1 DEF ApproveStep, TypeOK, Steps
  <2> QED BY <2>2, <2>3 DEF UnanimousInv
<1>7. CASE \E i \in StepId : RejectStep(w, i)
  <2>1. pc'[w] = "rejecting"
    BY <1>7 DEF RejectStep, Goto, TypeOK
  <2> QED BY <2>1 DEF UnanimousInv
<1>8. CASE CheckCompletion(w)
  <2>1. /\ UNCHANGED <<step, Steps, status, by>> /\ pc[w] = "deciding"
        /\ pc'[w] = "completing" => \A i \in Steps : step[i] = "approved"
    BY <1>8 DEF CheckCompletion, Goto, TypeOK, Steps, steps, history
  <2> QED BY <2>1 DEF UnanimousInv
<1>9. CASE MarkApproved(w)
  <2>1. UNCHANGED <<step, Steps>> /\ pc[w] = "completing" /\ pc'[w] = "idle"
    BY <1>9 DEF MarkApproved, Goto, TypeOK, Steps, steps
  <2> QED BY <2>1 DEF UnanimousInv
<1>10. CASE MarkBlocked(w)
  <2>1. status' = "blocked" /\ pc'[w] = "idle"
    BY <1>10 DEF MarkBlocked, Goto, TypeOK
  <2> QED BY <2>1 DEF UnanimousInv
<1> QED BY <1>1, <1>2, <1>3, <1>4, <1>5, <1>6, <1>7, <1>8, <1>9, <1>10 DEF Continue

LEMMA SequentialStep == SequentialInv /\ [Next]_vars => SequentialInv'
<1> SUFFICES ASSUME SequentialInv, [Next]_vars PROVE SequentialInv'
  OBVIOUS
<1>1. ThreadInv' /\ OneAtATime'
  BY ThreadStep DEF SequentialInv, OneAtATime
<1>2. CASE UNCHANGED vars
  <2>1. UNCHANGED <<Steps, step, approver, status, pc, left, complete, excused, offline, by,
                    needed, trail>>
    BY <1>2 DEF vars, steps, history, Steps
  <2>2. EvidenceInv' /\ TrailInv'
    BY <2>1 DEF SequentialInv, EvidenceInv, ApprovedHadEvidence, TrailInv
  <2>3. AskedInv' /\ UnanimousInv'
    BY <2>1 DEF SequentialInv, AskedInv, UnanimousInv
  <2> QED BY <1>1, <2>2, <2>3 DEF SequentialInv
<1>3. CASE Next
  <2>1. PICK w \in Worker :
          \/ IdleOperation(w)
          \/ SubmitGuard(w)
          \/ \E i \in StepId : ApproveStep(w, i) \/ RejectStep(w, i)
          \/ Continue(w)
    BY <1>3 DEF Next, IdleOperation
  <2>2. Worker = {w}
    BY DEF SequentialInv, OneAtATime
  <2> QED BY <1>1, <2>1, <2>2, EvidenceStep, AskedStep, UnanimousStep, TrailStep DEF SequentialInv
<1> QED BY <1>2, <1>3

(***************************************************************************)
(* Requests handled one after the other: a release is APPROVED without an  *)
(* exception only if some submission found its evidence complete.  The run *)
(* guard_race_evidence shows that two threads can break it.                *)
(***************************************************************************)
THEOREM EvidenceBeforeApproval == OneAtATime /\ Spec => []ApprovedHadEvidence
<1>1. SequentialInv => ApprovedHadEvidence
  BY DEF SequentialInv, EvidenceInv
<1> QED BY SequentialInit, SequentialStep, <1>1, PTL DEF Spec

(***************************************************************************)
(* Requests handled one after the other: when its approvers made a release *)
(* APPROVED, each member that its last PENDING submission had to ask has   *)
(* an approved step, however the workspace's profile changed.              *)
(***************************************************************************)
THEOREM QuorumReached == OneAtATime /\ Spec => []ApprovalQuorum
<1>1. SequentialInv => ApprovalQuorum
  <2> SUFFICES ASSUME SequentialInv, Quiet, status = "approved", by = "approvers",
                      NEW m \in 1..needed
               PROVE  \E i \in Steps : approver[i] = m /\ step[i] = "approved"
    BY DEF ApprovalQuorum
  <2>1. PICK w \in Worker : pc[w] = "idle"
    BY DEF SequentialInv, OneAtATime, Quiet
  <2>2. \A i \in Steps : step[i] = "approved"
    BY <2>1 DEF SequentialInv, UnanimousInv
  <2> QED BY <2>1, <2>2 DEF SequentialInv, AskedInv
<1> QED BY SequentialInit, SequentialStep, <1>1, PTL DEF Spec

(***************************************************************************)
(* Requests handled one after the other: a release that its approvers made *)
(* APPROVED has no rejected step, however the workspace's profile changed. *)
(***************************************************************************)
THEOREM RejectionsBlock == OneAtATime /\ Spec => []RejectionBlocks
<1>1. SequentialInv => RejectionBlocks
  <2> SUFFICES ASSUME SequentialInv, Quiet, status = "approved", by = "approvers"
               PROVE  \A i \in Steps : step[i] # "rejected"
    BY DEF RejectionBlocks
  <2>1. PICK w \in Worker : pc[w] = "idle"
    BY DEF SequentialInv, OneAtATime, Quiet
  <2> QED BY <2>1 DEF SequentialInv, UnanimousInv
<1> QED BY SequentialInit, SequentialStep, <1>1, PTL DEF Spec

(***************************************************************************)
(* Requests handled one after the other: between requests the audit trail  *)
(* names the status of the release, unless a submission was decided        *)
(* without the gate.                                                       *)
(***************************************************************************)
THEOREM TrailKeepsUp == OneAtATime /\ Spec => []TrailGapIsKnown
<1>1. SequentialInv => TrailGapIsKnown
  <2> SUFFICES ASSUME SequentialInv, Quiet, trail # status PROVE offline
    BY DEF TrailGapIsKnown
  <2>1. PICK w \in Worker : pc[w] = "idle"
    BY DEF SequentialInv, OneAtATime, Quiet
  <2> QED BY <2>1 DEF SequentialInv, TrailInv
<1> QED BY SequentialInit, SequentialStep, <1>1, PTL DEF Spec
=============================================================================
