---------------------------- MODULE BrokerProofs ----------------------------
(***************************************************************************)
(* The Broker's invariant, and that the Broker implements DispatchContract,*)
(* proved for every set of attempts, operations, files and approvals.      *)
(***************************************************************************)
EXTENDS Broker, TLAPS

(* Replies have their type. *)

LEMMA NoReplyType == NoReply \in Replies /\ NoReceipt \in Replies
BY DEF Replies

LEMMA FailureType == \A e \in Errors : Failure(e) \in Replies
BY DEF Replies

LEMMA OutcomeType == \A o \in Outcomes : Outcome(o) \in Replies
BY DEF Replies

LEMMA ReceiptType ==
  ASSUME NEW row, row.state \in BrokerState, row.result \in Results
  PROVE  Receipt(row) \in Replies
<1>1. Receipt(row) = Receipt([state |-> row.state, result |-> row.result])
  BY DEF Receipt
<1> QED BY <1>1 DEF Replies

\* No other reply is the failure of a forbidden transition.
LEMMA OtherReplies ==
  /\ NoReply # Failure("InvalidTransition")
  /\ NoReceipt # Failure("InvalidTransition")
  /\ \A row : Receipt(row) # Failure("InvalidTransition")
  /\ \A o : Outcome(o) # Failure("InvalidTransition")
  /\ \A e : e # "InvalidTransition" => Failure(e) # Failure("InvalidTransition")
<1>1. /\ NoReply.tag = "pending" /\ NoReceipt.tag = "none"
      /\ \A row : Receipt(row).tag = "receipt"
      /\ \A o : Outcome(o).tag = "outcome"
      /\ \A e : Failure(e).tag = "error" /\ Failure(e).value = e
  BY DEF NoReply, NoReceipt, Receipt, Outcome, Failure
<1> QED BY <1>1

LEMMA VerdictType ==
  ASSUME NEW o \in Operations
  PROVE  Verdict(o) \in {"pass", "PolicyViolation", "OSError"}
<1>1. Params[o].screening \in {"pass", "PolicyViolation", "OSError"}
  BY ParamsAssumption DEF ActionParams
<1>2. CASE Params[o].screening # "pass"
  BY <1>1, <1>2 DEF Verdict
<1>3. CASE Params[o].screening = "pass"
  BY <1>3 DEF Verdict
<1> QED BY <1>2, <1>3

LEMMA BrokerInitInv == BrokerInit => BrokerInv
<1> SUFFICES ASSUME BrokerInit PROVE BrokerInv
  OBVIOUS
<1> USE DEF BrokerInit
<1>1. BrokerTypeOK
  BY NoReplyType DEF BrokerTypeOK, RowType, ApprovalType, ProcessType, NoRow, Unissued, Down, Idle, BrokerPc, Results
<1>2. CallInv
  BY DEF CallInv, Down, Idle, At, PreDispatch, InFlight, Executing
<1>3. RowInv
  BY DEF RowInv, NoRow, Unrecorded
<1>4. EffectAtMostOnce /\ EffectWasApproved
  BY DEF EffectAtMostOnce, EffectWasApproved
<1>5. DeliveryHasEvidence
  BY DEF DeliveryHasEvidence, NoRow, Unrecorded
<1>6. NoInvalidTransition
  BY OtherReplies DEF NoInvalidTransition, Down, Idle
<1> QED BY <1>1, <1>2, <1>3, <1>4, <1>5, <1>6 DEF BrokerInv

-----------------------------------------------------------------------------
(* Type correctness of a step. *)

LEMMA MoveType ==
  ASSUME broker \in ProcessType, NEW pc \in BrokerPc
  PROVE  [broker EXCEPT !.pc = pc] \in ProcessType
BY DEF ProcessType

LEMMA AnsweredType ==
  ASSUME broker \in ProcessType, NEW r \in Replies
  PROVE  Answered(r) \in ProcessType
BY DEF ProcessType, Answered, BrokerPc

LEMMA AfterAcceptedType ==
  ASSUME broker \in ProcessType, NEW row \in RowType
  PROVE  AfterAccepted(row) \in ProcessType
BY DEF ProcessType, RowType, AfterAccepted, BrokerPc

\* The payload of a resumed attempt is the one its row records.
LEMMA ResumedAsRecorded ==
  ASSUME broker \in ProcessType, Resume
  PROVE  broker' = AfterAccepted(Row)
BY DEF Resume, Mutated, AfterAccepted, ProcessType

LEMMA IdleType == Idle \in ProcessType /\ Down \in ProcessType
BY NoReplyType DEF ProcessType, Idle, Down, BrokerPc, Results

LEMMA UpdatedType ==
  ASSUME NEW row \in RowType, NEW target \in BrokerState,
         NEW approval \in ApprovalIds \cup {NoApproval}, NEW result \in Results
  PROVE  Updated(row, target, approval, result) \in RowType
BY DEF RowType, Updated, Coalesce

LEMMA CommitType ==
  ASSUME BrokerTypeOK, broker.att \in Attempts,
         NEW target \in BrokerState,
         NEW approval \in ApprovalIds \cup {NoApproval}, NEW result \in Results,
         NEW after \in ProcessType,
         Commit(target, approval, result, after)
  PROVE  ledger' \in [Attempts -> RowType] /\ broker' \in ProcessType
<1>1. Updated(ledger[broker.att], target, approval, result) \in RowType
  BY UpdatedType DEF BrokerTypeOK
<1>2. Answered(Failure("InvalidTransition")) \in ProcessType
  BY AnsweredType, FailureType DEF Errors, BrokerTypeOK
<1> QED BY <1>1, <1>2 DEF Commit, BrokerTypeOK

\* The reply to a call that fails is well typed.
LEMMA FailedType ==
  ASSUME broker \in ProcessType, NEW e \in Errors
  PROVE  Answered(Failure(e)) \in ProcessType
BY AnsweredType, FailureType

LEMMA OutcomeReplyType ==
  ASSUME broker \in ProcessType, NEW o \in Outcomes
  PROVE  Answered(Outcome(o)) \in ProcessType
BY AnsweredType, OutcomeType

LEMMA TypeStep ==
  ASSUME BrokerInv, BrokerNext
  PROVE  BrokerTypeOK'
<1> USE DEF BrokerTypeOK
<1>t. /\ broker \in ProcessType
      /\ broker.pc \notin {"idle", "down", "reply"} =>
           broker.att \in Attempts /\ Row \in RowType
      /\ broker.op \in Operations \cup {NoOperation}
  BY DEF BrokerInv, CallInv, Row, ProcessType
<1>1. ASSUME NEW c \in {"submit", "status", "reconcile"}, NEW a \in Attempts,
             NEW o \in Operations \cup {NoOperation}, Receive(c, a, o)
      PROVE  BrokerTypeOK'
  BY <1>1, IdleType DEF Receive, ProcessType, BrokerPc, BrokerInv
<1>2. CASE Accept
  <2>1. [NoRow EXCEPT !.state = "ACCEPTED", !.op = broker.op] \in RowType
    BY <1>t DEF NoRow, RowType, BrokerState, Results
  <2> QED BY <1>t, <1>2, <2>1, AfterAcceptedType DEF Accept, At, BrokerInv
<1>3. CASE Refuse
  <2>1. Verdict(broker.op) \in Errors
    BY <1>3, VerdictType DEF Refuse, BrokerInv, CallInv, At, Errors
  <2> QED BY <1>t, <1>3, <2>1, FailedType DEF Refuse, Answer, BrokerInv
<1>4. CASE ReplayConflict
  BY <1>t, <1>4, FailedType DEF ReplayConflict, Answer, Errors, BrokerInv
<1>5. CASE Resume
  BY <1>t, <1>5, ResumedAsRecorded, AfterAcceptedType DEF Resume, At, BrokerInv
<1>6. CASE Duplicate \/ ReturnReceipt
  <2>1. Row.state # Unrecorded => Answered(Receipt(Row)) \in ProcessType
    BY <1>t, <1>6, ReceiptType, AnsweredType
    DEF Duplicate, ReturnReceipt, At, RowType
  <2>2. Answered(NoReceipt) \in ProcessType
    BY <1>t, NoReplyType, AnsweredType
  <2> QED BY <1>6, <2>1, <2>2 DEF Duplicate, ReturnReceipt, Answer, BrokerInv
<1>7. CASE Deny
  BY <1>t, <1>7, CommitType, FailedType
  DEF Deny, At, Errors, BrokerState, Results, BrokerInv
<1>8. ASSUME NEW k \in ApprovalIds, Issue(k)
      PROVE  BrokerTypeOK'
  BY <1>t, <1>8 DEF Issue, At, ProcessType, ApprovalType, BrokerPc, BrokerInv
<1>9. CASE Consume
  BY <1>t, <1>9, MoveType
  DEF Consume, Goto, ApprovalType, BrokerPc, BrokerInv, At, CallInv
<1>10. ASSUME NEW e \in {"ApprovalDenied", "ReplayConflict"}, ConsumeExpired(e)
       PROVE  BrokerTypeOK'
  BY <1>t, <1>10, FailedType DEF ConsumeExpired, Answer, Errors, BrokerInv
<1>11. CASE Dispatch
  <2>1. broker.approval \in ApprovalIds \cup {NoApproval}
    BY <1>t DEF ProcessType
  <2>2. [broker EXCEPT !.pc = "execute"] \in ProcessType
    BY <1>t, MoveType DEF BrokerPc
  <2> QED BY <1>t, <1>11, <2>1, <2>2, CommitType
          DEF Dispatch, At, BrokerState, Results, BrokerInv
<1>12. CASE ReadFile
  <2>1. files[Params[broker.op].path] \in Contents
    BY <1>t, <1>12, ParamsAssumption
    DEF ReadFile, Exists, ActionParams, BrokerInv, CallInv, RowInv, InFlight,
        Executing, At, Row, Unrecorded
  <2> QED BY <1>t, <1>12, <2>1 DEF ReadFile, ProcessType, BrokerPc, Results, BrokerInv
<1>13. CASE CheckPrior \/ CheckTarget \/ CheckWritten \/ ReconcileAbsent
  BY <1>t, <1>13, MoveType
  DEF CheckPrior, CheckTarget, CheckWritten, ReconcileAbsent, Goto, BrokerPc, BrokerInv
<1>14. CASE Replace
  <2>1. /\ Params[broker.op].content \in Contents
        /\ Params[broker.op].path \in Paths
    BY <1>t, <1>14, ParamsAssumption
    DEF Replace, ActionParams, BrokerInv, CallInv, RowInv, InFlight, Executing,
        At, Row, Unrecorded
  <2>2. broker' \in ProcessType
    BY <1>t, <1>14, <2>1 DEF Replace, ProcessType, BrokerPc, Results
  <2>3. applied' \in [Attempts -> Nat] /\ files' \in [Paths -> Contents \cup {Absent}]
    BY <1>t, <1>14, <2>1 DEF Replace, At, BrokerInv
  <2> QED BY <1>14, <2>2, <2>3 DEF Replace, BrokerInv
<1>15. CASE Raise
  BY <1>t, <1>15, CommitType, FailedType
  DEF Raise, Executing, Errors, BrokerState, Results, BrokerInv
<1>16. CASE Deliver
  <2>1. broker.seen \in Results /\ [broker EXCEPT !.pc = "receipt"] \in ProcessType
    BY <1>t, MoveType DEF ProcessType, BrokerPc
  <2> QED BY <1>t, <1>16, <2>1, CommitType DEF Deliver, At, BrokerState, BrokerInv
<1>17. CASE ReconcileSettled
  <2>1. /\ Row.state \in BrokerState \cup {Unrecorded}
        /\ Answered(Outcome("NOT_FOUND")) \in ProcessType
        /\ Answered(Outcome("RESUME_SAFE")) \in ProcessType
        /\ \A s \in BrokerState : Answered(Outcome(s)) \in ProcessType
    BY <1>t, <1>17, OutcomeReplyType DEF ReconcileSettled, At, RowType, Outcomes
  <2>2. CASE Row.state = Unrecorded
    BY <1>17, <2>1, <2>2 DEF ReconcileSettled, Answer, BrokerInv
  <2>3. CASE Row.state # Unrecorded /\ Row.state = "ACCEPTED"
    BY <1>17, <2>1, <2>3 DEF ReconcileSettled, Answer, BrokerInv, Unrecorded
  <2>4. CASE Row.state # Unrecorded /\ Row.state # "ACCEPTED"
    BY <1>17, <2>1, <2>4 DEF ReconcileSettled, Answer, BrokerInv
  <2> QED BY <2>2, <2>3, <2>4
<1>18. CASE ReconcilePresent
  BY <1>t, <1>18, CommitType, OutcomeReplyType
  DEF ReconcilePresent, At, Outcomes, BrokerState, Results, BrokerInv
<1>19. CASE ReconcileRetry
  BY <1>t, <1>19, CommitType, OutcomeReplyType
  DEF ReconcileRetry, At, Outcomes, BrokerState, Results, BrokerInv
<1>20. CASE ReconcileUncertain
  BY <1>t, <1>20, CommitType, OutcomeReplyType
  DEF ReconcileUncertain, At, Outcomes, BrokerState, Results, BrokerInv
<1>21. CASE CallFails
  BY <1>t, <1>21, FailedType DEF CallFails, Answer, Errors, BrokerInv
<1>22. CASE Reply \/ ReplyBroken \/ Kill \/ Start
  BY <1>22, IdleType DEF Reply, ReplyBroken, Kill, Start, BrokerInv
<1>23. ASSUME NEW p \in Editable, NEW c \in Contents \cup {Absent}, Edit(p, c)
       PROVE  BrokerTypeOK'
  BY <1>23, EditableAssumption DEF Edit, BrokerInv
<1> QED
  BY <1>1, <1>2, <1>3, <1>4, <1>5, <1>6, <1>7, <1>8, <1>9, <1>10, <1>11, <1>12,
     <1>13, <1>14, <1>15, <1>16, <1>17, <1>18, <1>19, <1>20, <1>21, <1>22, <1>23
  DEF BrokerNext, Call, BrokerStep, Submitting, Reconciling, Edits

-----------------------------------------------------------------------------
(* The other conjuncts, step by step. *)

\* Every other step leaves the rows, the approvals and the effects alone.
LEMMA WritingSteps ==
  ASSUME BrokerNext
  PROVE  \/ UNCHANGED <<ledger, approvals, applied>>
         \/ Accept \/ Deny \/ (\E k \in ApprovalIds : Issue(k)) \/ Consume
         \/ Dispatch \/ Replace \/ Raise \/ Deliver
         \/ ReconcilePresent \/ ReconcileRetry \/ ReconcileUncertain
BY DEF BrokerNext, Call, BrokerStep, Submitting, Reconciling, Edits, Receive,
       Refuse, ReplayConflict, Resume, Duplicate, ConsumeExpired, ReadFile,
       CheckPrior, CheckTarget, CheckWritten, ReturnReceipt, ReconcileSettled,
       ReconcileAbsent, CallFails, Reply, ReplyBroken, Kill, Start, Edit

\* What the invariant says of the row under a commit: the transition is legal,
\* except that a delivered row may be found delivered again.
LEMMA CommitsAreLegal ==
  ASSUME BrokerInv
  PROVE  /\ Deny \/ Dispatch => Row.state = "ACCEPTED"
         /\ Raise \/ Deliver => Row.state = "IN_FLIGHT"
         /\ ReconcilePresent \/ ReconcileUncertain =>
              Row.state \in {"IN_FLIGHT", "DELIVERY_ATTEMPTED"}
         /\ ReconcileRetry => Row.state = "IN_FLIGHT"
BY DEF BrokerInv, CallInv, Deny, Dispatch, Raise, Deliver, ReconcilePresent,
       ReconcileUncertain, ReconcileRetry, RetrySafe, At, PreDispatch, InFlight,
       Executing, Reconcilable

LEMMA Transitions ==
  /\ BrokerTransitions("ACCEPTED") =
       {"IN_FLIGHT", "REJECTED", "EXPIRED", "CANCELLED", "FAILED"}
  /\ BrokerTransitions("IN_FLIGHT") =
       {"DELIVERY_ATTEMPTED", "UNCERTAIN", "FAILED", "SUPERSEDED"}
  /\ BrokerTransitions("DELIVERY_ATTEMPTED") = {"UNCERTAIN", "SUPERSEDED"}
BY DEF BrokerTransitions

\* The attempt of a call in progress is one of Attempts.
LEMMA AttemptOfCall ==
  ASSUME BrokerInv, broker.pc \notin {"idle", "down", "reply"}
  PROVE  broker.att \in Attempts /\ Row \in RowType
BY DEF BrokerInv, BrokerTypeOK, CallInv, Row

\* The row of the call has moved to `target', and no other row has changed.
Committed(target, approval, result) ==
  /\ \A a \in Attempts : a # broker.att => ledger'[a] = ledger[a]
  /\ ledger'[broker.att].state = target
  /\ ledger'[broker.att].op = Row.op
  /\ ledger'[broker.att].approval = Coalesce(NoApproval, approval, Row.approval)
  /\ ledger'[broker.att].result = Coalesce(NoResult, result, Row.result)

LEMMA LegalCommit ==
  ASSUME ledger \in [Attempts -> RowType], broker.att \in Attempts,
         NEW target, NEW approval, NEW result, NEW after,
         Commit(target, approval, result, after),
         target \in BrokerTransitions(Row.state)
  PROVE  Committed(target, approval, result) /\ broker' = after
BY DEF Commit, Committed, Updated, Row, RowType

\* The commits of a call, with what they leave behind.
LEMMA CommittedRow ==
  ASSUME BrokerInv
  PROVE  /\ Deny => Committed("REJECTED", NoApproval, NoResult)
         /\ Dispatch => Committed("IN_FLIGHT", broker.approval, NoResult)
         /\ Raise \/ ReconcileUncertain =>
              Committed("UNCERTAIN", NoApproval, NoResult)
         /\ Deliver => Committed("DELIVERY_ATTEMPTED", NoApproval, broker.seen)
         /\ ReconcilePresent =>
              \/ ledger' = ledger
              \/ Committed("DELIVERY_ATTEMPTED", NoApproval, Reconciled)
         /\ ReconcileRetry => Committed("SUPERSEDED", NoApproval, NoResult)
<1>t. /\ ledger \in [Attempts -> RowType]
      /\ Deny \/ Dispatch \/ Raise \/ ReconcileUncertain \/ Deliver
           \/ ReconcilePresent \/ ReconcileRetry => broker.att \in Attempts
  BY AttemptOfCall
  DEF BrokerInv, BrokerTypeOK, Deny, Dispatch, Raise, Deliver, ReconcilePresent,
      ReconcileUncertain, ReconcileRetry, At, Executing
<1>1. Deny => Committed("REJECTED", NoApproval, NoResult)
  BY <1>t, CommitsAreLegal, Transitions, LegalCommit DEF Deny
<1>2. Dispatch => Committed("IN_FLIGHT", broker.approval, NoResult)
  BY <1>t, CommitsAreLegal, Transitions, LegalCommit DEF Dispatch
<1>3. Raise \/ ReconcileUncertain => Committed("UNCERTAIN", NoApproval, NoResult)
  BY <1>t, CommitsAreLegal, Transitions, LegalCommit DEF Raise, ReconcileUncertain
<1>4. Deliver => Committed("DELIVERY_ATTEMPTED", NoApproval, broker.seen)
  BY <1>t, CommitsAreLegal, Transitions, LegalCommit DEF Deliver
<1>5. ReconcilePresent => \/ ledger' = ledger
                          \/ Committed("DELIVERY_ATTEMPTED", NoApproval, Reconciled)
  <2>1. CASE Row.state = "IN_FLIGHT"
    BY <1>t, <2>1, Transitions, LegalCommit DEF ReconcilePresent
  <2>2. CASE Row.state = "DELIVERY_ATTEMPTED"
    BY <2>2, Transitions DEF ReconcilePresent, Commit
  <2> QED BY <2>1, <2>2, CommitsAreLegal
<1>6. ReconcileRetry => Committed("SUPERSEDED", NoApproval, NoResult)
  BY <1>t, CommitsAreLegal, Transitions, LegalCommit DEF ReconcileRetry
<1> QED BY <1>1, <1>2, <1>3, <1>4, <1>5, <1>6

LEMMA AtMostOnceStep ==
  ASSUME BrokerInv, BrokerNext
  PROVE  EffectAtMostOnce'
<1>1. CASE UNCHANGED applied
  BY <1>1 DEF BrokerInv, EffectAtMostOnce
<1>2. CASE Replace
  BY <1>2, AttemptOfCall
  DEF Replace, At, BrokerInv, BrokerTypeOK, CallInv, EffectAtMostOnce
<1>3. Replace \/ UNCHANGED applied
  BY WritingSteps
  DEF Accept, Deny, Issue, Consume, Dispatch, Raise, Deliver, ReconcilePresent,
      ReconcileRetry, ReconcileUncertain
<1> QED BY <1>1, <1>2, <1>3

LEMMA RowStep ==
  ASSUME BrokerInv, BrokerNext
  PROVE  RowInv'
<1> USE DEF BrokerInv, BrokerTypeOK, RowInv, RowType, Unrecorded
<1>1. CASE UNCHANGED <<ledger, approvals, applied>>
  BY <1>1
<1>2. CASE Accept
  BY <1>2, AttemptOfCall DEF Accept, At, CallInv, NoRow, Row
<1>3. CASE Deny
  BY <1>3, CommittedRow, CommitsAreLegal, AttemptOfCall
  DEF Deny, At, Committed, Coalesce, Row
<1>4. CASE (\E k \in ApprovalIds : Issue(k)) \/ Consume
  BY <1>4 DEF Issue, Consume
<1>5. CASE Dispatch
  BY <1>5, CommittedRow, CommitsAreLegal, AttemptOfCall
  DEF Dispatch, At, Committed, Coalesce, Row
<1>6. CASE Replace
  BY <1>6, AttemptOfCall DEF Replace, At, CallInv, InFlight, Executing, Row
<1>7. CASE Raise
  BY <1>7, CommittedRow, CommitsAreLegal, AttemptOfCall
  DEF Raise, Executing, Committed, Coalesce, Row
<1>8. CASE Deliver
  BY <1>8, CommittedRow, CommitsAreLegal, AttemptOfCall
  DEF Deliver, At, Committed, Coalesce, Row
<1>9. CASE ReconcilePresent \/ ReconcileRetry \/ ReconcileUncertain
  BY <1>9, CommittedRow, CommitsAreLegal, AttemptOfCall
  DEF ReconcilePresent, ReconcileRetry, ReconcileUncertain, At, Committed, Coalesce, Row
<1> QED BY <1>1, <1>2, <1>3, <1>4, <1>5, <1>6, <1>7, <1>8, <1>9, WritingSteps

\* A consumed approval never changes again.
LEMMA ApprovalsStay ==
  ASSUME BrokerInv, BrokerNext, NEW k \in ApprovalIds, approvals[k].consumed = TRUE
  PROVE  approvals'[k] = approvals[k]
<1>t. approvals \in [ApprovalIds -> ApprovalType]
  BY DEF BrokerInv, BrokerTypeOK
<1>1. CASE UNCHANGED approvals
  BY <1>1
<1>2. ASSUME NEW i \in ApprovalIds, Issue(i)
      PROVE  approvals'[k] = approvals[k]
  BY <1>t, <1>2 DEF Issue, Unissued
<1>3. CASE Consume
  BY <1>t, <1>3 DEF Consume, Redeemable
<1> QED
  BY <1>1, <1>2, <1>3, WritingSteps
  DEF Accept, Deny, Dispatch, Replace, Raise, Deliver, ReconcilePresent,
      ReconcileRetry, ReconcileUncertain

LEMMA ApprovedStep ==
  ASSUME BrokerInv, BrokerNext
  PROVE  EffectWasApproved'
<1> DEFINE Covered(a, row) ==
      /\ row.approval \in ApprovalIds
      /\ approvals[row.approval].att = a
      /\ approvals[row.approval].op = row.op
      /\ approvals[row.approval].consumed = TRUE
<1>t. /\ ledger \in [Attempts -> RowType]
      /\ applied \in [Attempts -> Nat]
  BY DEF BrokerInv, BrokerTypeOK
<1>c. ASSUME NEW a \in Attempts, Covered(a, ledger[a]),
             ledger'[a].op = ledger[a].op,
             ledger'[a].approval = ledger[a].approval
      PROVE  Approved(a, ledger[a].op, ledger[a].approval)'
  <2>1. approvals[ledger[a].approval].consumed = TRUE
    BY <1>c
  <2>2. approvals'[ledger[a].approval] = approvals[ledger[a].approval]
    BY <1>c, <2>1, ApprovalsStay
  <2> QED BY <1>c, <2>2 DEF Approved
<1>1. CASE Replace
  <2>1. /\ broker.att \in Attempts
        /\ Covered(broker.att, Row)
    BY <1>1, AttemptOfCall
    DEF Replace, At, BrokerInv, CallInv, InFlight, Executing, RequiresApproval, Approved
  <2>2. ASSUME NEW a \in Attempts, applied'[a] > 0
        PROVE  Covered(a, ledger[a])
    <3>1. CASE a = broker.att
      BY <2>1, <3>1 DEF Row
    <3>2. CASE a # broker.att
      BY <1>1, <1>t, <2>2, <3>2 DEF Replace, BrokerInv, EffectWasApproved, Approved
    <3> QED BY <3>1, <3>2
  <2> QED BY <1>1, <1>c, <2>2 DEF Replace, EffectWasApproved
<1>2. CASE ~Replace
  <2>1. applied' = applied
    BY <1>2, WritingSteps
    DEF Accept, Deny, Issue, Consume, Dispatch, Raise, Deliver, ReconcilePresent,
        ReconcileRetry, ReconcileUncertain
  <2>2. ASSUME NEW a \in Attempts, applied[a] > 0
        PROVE  ledger'[a].op = ledger[a].op /\ ledger'[a].approval = ledger[a].approval
    <3>1. ledger[a].state \notin {Unrecorded, "ACCEPTED", "REJECTED"}
      BY <2>2 DEF BrokerInv, RowInv
    <3>2. CASE ledger' = ledger
      BY <3>2
    <3>3. CASE Accept
      BY <1>t, <3>1, <3>3 DEF Accept, Row
    <3>4. CASE Deny \/ Dispatch
      BY <3>1, <3>4, CommittedRow, CommitsAreLegal DEF Committed, Row
    <3>5. CASE Raise \/ Deliver \/ ReconcilePresent \/ ReconcileRetry
                 \/ ReconcileUncertain
      BY <3>5, CommittedRow DEF Committed, Row, Coalesce
    <3> QED BY <1>2, <3>2, <3>3, <3>4, <3>5, WritingSteps DEF Issue, Consume
  <2>3. \A a \in Attempts : applied[a] > 0 => Covered(a, ledger[a])
    BY DEF BrokerInv, EffectWasApproved, Approved
  <2> QED BY <1>c, <2>1, <2>2, <2>3 DEF EffectWasApproved
<1> QED BY <1>1, <1>2

LEMMA EvidenceStep ==
  ASSUME BrokerInv, BrokerNext
  PROVE  DeliveryHasEvidence'
<1> USE DEF BrokerInv, DeliveryHasEvidence
<1>t. /\ ledger \in [Attempts -> RowType]
      /\ applied \in [Attempts -> Nat]
  BY DEF BrokerTypeOK
<1>1. CASE UNCHANGED <<ledger, approvals, applied>>
  BY <1>1
<1>2. CASE Accept
  BY <1>2, <1>t, AttemptOfCall DEF Accept, At, NoRow
<1>3. CASE Deny
  BY <1>3, CommittedRow DEF Deny, Committed
<1>4. CASE (\E k \in ApprovalIds : Issue(k)) \/ Consume
  BY <1>4 DEF Issue, Consume
<1>5. CASE Dispatch
  BY <1>5, CommittedRow DEF Dispatch, Committed
<1>6. CASE Replace
  BY <1>6, <1>t, AttemptOfCall DEF Replace, At, CallInv, InFlight, Executing, Row
<1>7. CASE Raise \/ ReconcileUncertain
  BY <1>7, CommittedRow DEF Raise, ReconcileUncertain, Committed
<1>8. CASE Deliver
  <2>1. /\ broker.att \in Attempts /\ broker.op \in Operations
        /\ Row.op = broker.op
        /\ Params[broker.op].content \in Contents
        /\ Params[broker.op].action \in {"read_file", "write_file_atomic"}
    BY <1>8, AttemptOfCall, ParamsAssumption
    DEF Deliver, At, CallInv, RowInv, InFlight, ActionParams, Row, Unrecorded
  <2>2. \/ broker.seen \in Contents /\ Params[broker.op].action = "read_file"
        \/ broker.seen = Params[broker.op].content /\ applied[broker.att] = 1
    BY <1>8, <2>1 DEF Deliver, At, CallInv, RequiresApproval
  <2>3. broker.seen # NoResult
    BY <2>1, <2>2, ContentsAssumption
  <2>4. /\ ledger'[broker.att].result = broker.seen
        /\ ledger'[broker.att].op = broker.op
        /\ \A a \in Attempts : a # broker.att => ledger'[a] = ledger[a]
        /\ applied' = applied
    BY <1>8, <2>1, <2>3, CommittedRow DEF Committed, Coalesce, Deliver
  <2> QED BY <2>1, <2>2, <2>4
<1>9. CASE ReconcilePresent
  <2>1. Coalesce(NoResult, Reconciled, Row.result) = Reconciled
    BY DEF Coalesce, Reconciled, NoResult
  <2> QED BY <1>9, <2>1, CommittedRow DEF ReconcilePresent, Committed
<1>10. CASE ReconcileRetry
  BY <1>10, CommittedRow DEF ReconcileRetry, Committed
<1> QED
  BY <1>1, <1>2, <1>3, <1>4, <1>5, <1>6, <1>7, <1>8, <1>9, <1>10, WritingSteps

LEMMA CallStep ==
  ASSUME BrokerInv, BrokerNext
  PROVE  CallInv'
<1> USE DEF CallInv, At, PreDispatch, InFlight, Executing, Row
<1>t. /\ ledger \in [Attempts -> RowType]
      /\ approvals \in [ApprovalIds -> ApprovalType]
      /\ applied \in [Attempts -> Nat]
      /\ broker \in ProcessType
  BY DEF BrokerInv, BrokerTypeOK
<1>i. CallInv
  BY DEF BrokerInv
\* A process that is not in a call, or that only has its reply to send.
<1>q. ASSUME broker'.pc \in {"idle", "down", "reply"}
      PROVE  CallInv'
  BY <1>q
<1>a. ASSUME NEW e, Answer(e)
      PROVE  CallInv'
  BY <1>t, <1>a, <1>q DEF Answer, Answered, ProcessType
<1>1. ASSUME NEW c \in {"submit", "status", "reconcile"}, NEW a \in Attempts,
             NEW o \in Operations \cup {NoOperation}, Receive(c, a, o),
             c = "submit" => o \in Operations
      PROVE  CallInv'
  BY <1>1 DEF Receive, Idle
<1>2. CASE Accept
  BY <1>t, <1>i, <1>2 DEF Accept, AfterAccepted, NoRow, ProcessType, RowType
<1>3. CASE Refuse \/ ReplayConflict \/ Duplicate \/ ReturnReceipt
             \/ ReconcileSettled \/ CallFails
             \/ \E e \in {"ApprovalDenied", "ReplayConflict"} : ConsumeExpired(e)
  BY <1>3, <1>a
  DEF Refuse, ReplayConflict, Duplicate, ReturnReceipt, ReconcileSettled,
      CallFails, ConsumeExpired
<1>4. CASE Resume
  <2>1. Row.approval = NoApproval
    BY <1>i, <1>4 DEF Resume, Resumable, BrokerInv, RowInv
  <2> QED BY <1>t, <1>i, <1>4, <2>1
          DEF Resume, Resumable, Mutated, AfterAccepted, ProcessType
<1>5. CASE Deny \/ Raise \/ ReconcilePresent \/ ReconcileRetry \/ ReconcileUncertain
  <2>1. PICK r : \/ broker' = Answered(r)
                 \/ broker' = Answered(Failure("InvalidTransition"))
    BY <1>5 DEF Deny, Raise, ReconcilePresent, ReconcileRetry, ReconcileUncertain, Commit
  <2> QED BY <1>t, <1>q, <2>1 DEF Answered, ProcessType
<1>6. ASSUME NEW k \in ApprovalIds, Issue(k)
      PROVE  CallInv'
  BY <1>t, <1>i, <1>6 DEF Issue, ProcessType, Redeemable
<1>7. CASE Consume
  <2>1. /\ broker.approval \in ApprovalIds
        /\ approvals[broker.approval].att = broker.att
        /\ approvals[broker.approval].op = broker.op
    BY <1>i, <1>7 DEF Consume, Redeemable
  <2>a. /\ approvals'[broker.approval].att = broker.att
        /\ approvals'[broker.approval].op = broker.op
        /\ approvals'[broker.approval].consumed = TRUE
    BY <1>t, <1>7, <2>1 DEF Consume, ApprovalType
  <2>2. /\ broker'.pc = "dispatch"
        /\ broker'.att = broker.att /\ broker'.op = broker.op
        /\ broker'.approval = broker.approval
        /\ ledger' = ledger
    BY <1>t, <1>7 DEF Consume, Goto, ProcessType
  <2>3. Approved(broker.att, broker.op, broker.approval)'
    BY <2>1, <2>a, <2>2 DEF Approved
  <2> QED BY <1>i, <1>7, <2>2, <2>3 DEF Consume
<1>8. CASE Dispatch
  <2>1. /\ broker.att \in Attempts
        /\ Row.state = "ACCEPTED" /\ Row.op = broker.op
        /\ Row.approval = NoApproval
        /\ applied[broker.att] = 0
        /\ RequiresApproval(broker.op) =>
             Approved(broker.att, broker.op, broker.approval)
    BY <1>i, <1>8 DEF Dispatch, BrokerInv, RowInv
  <2>2. /\ broker' = [broker EXCEPT !.pc = "execute"]
        /\ Committed("IN_FLIGHT", broker.approval, NoResult)
    BY <1>t, <1>8, <2>1, Transitions, LegalCommit DEF Dispatch
  <2>3. ledger'[broker.att].approval = broker.approval
    BY <2>1, <2>2 DEF Committed, Coalesce
  <2>4. /\ broker'.pc = "execute"
        /\ broker'.att = broker.att /\ broker'.op = broker.op
        /\ ledger'[broker.att].state = "IN_FLIGHT"
        /\ ledger'[broker.att].op = broker.op
        /\ UNCHANGED <<approvals, files, applied>>
    BY <1>t, <1>8, <2>1, <2>2 DEF Committed, Dispatch, ProcessType
  <2> QED BY <2>1, <2>3, <2>4 DEF Approved
<1>9. CASE ReadFile
  <2>1. /\ Params[broker.op].action = "read_file"
        /\ files[Params[broker.op].path] \in Contents
    BY <1>i, <1>9, ParamsAssumption
    DEF ReadFile, Exists, ActionParams, BrokerInv, BrokerTypeOK, RowInv, Unrecorded
  <2>2. /\ broker'.pc = "deliver"
        /\ broker'.att = broker.att /\ broker'.op = broker.op
        /\ broker'.seen \in Contents
        /\ UNCHANGED <<ledger, approvals, applied>>
    BY <1>t, <1>9, <2>1 DEF ReadFile, ProcessType
  <2> QED BY <1>i, <1>9, <2>1, <2>2 DEF ReadFile, RequiresApproval, Approved
<1>10. CASE CheckPrior \/ CheckTarget
  BY <1>t, <1>i, <1>10 DEF CheckPrior, CheckTarget, Goto, ProcessType, Approved
<1>11. CASE Replace
  BY <1>t, <1>i, <1>11 DEF Replace, ProcessType, Approved
<1>12. CASE CheckWritten
  <2>1. /\ broker'.pc = "deliver"
        /\ broker'.att = broker.att /\ broker'.op = broker.op
        /\ broker'.seen = broker.seen
        /\ UNCHANGED <<ledger, approvals, applied>>
    BY <1>t, <1>12 DEF CheckWritten, Goto, ProcessType
  <2>2. RequiresApproval(broker.op)
    BY <1>i, <1>12 DEF CheckWritten, RequiresApproval
  <2> QED BY <1>i, <1>12, <2>1, <2>2 DEF CheckWritten, Approved
<1>13. CASE Deliver
  <2>1. broker' = [broker EXCEPT !.pc = "receipt"]
    BY <1>t, <1>i, <1>13, Transitions, LegalCommit DEF Deliver
  <2> QED BY <1>t, <1>i, <1>13, <2>1 DEF Deliver, ProcessType
<1>14. CASE ReconcileAbsent
  BY <1>t, <1>i, <1>14 DEF ReconcileAbsent, Goto, ProcessType
<1>15. CASE Reply \/ ReplyBroken \/ Kill \/ Start
  BY <1>15, <1>q DEF Reply, ReplyBroken, Kill, Start, Idle, Down
<1>16. ASSUME NEW p, NEW c, Edit(p, c)
       PROVE  CallInv'
  BY <1>i, <1>16 DEF Edit, Approved, Redeemable
<1> QED
  BY <1>1, <1>2, <1>3, <1>4, <1>5, <1>6, <1>7, <1>8, <1>9, <1>10, <1>11, <1>12,
     <1>13, <1>14, <1>15, <1>16
  DEF BrokerNext, Call, BrokerStep, Submitting, Reconciling, Edits

LEMMA NoInvalidStep ==
  ASSUME BrokerInv, BrokerNext
  PROVE  NoInvalidTransition'
<1> DEFINE Good(r) == r # Failure("InvalidTransition")
<1> SUFFICES Good(broker'.reply)
  BY DEF NoInvalidTransition
<1>t. broker \in ProcessType
  BY DEF BrokerInv, BrokerTypeOK
<1>i. Good(broker.reply)
  BY DEF BrokerInv, NoInvalidTransition
<1>g. /\ Good(NoReply) /\ Good(NoReceipt)
      /\ \A row : Good(Receipt(row))
      /\ \A o : Good(Outcome(o))
      /\ \A e : e # "InvalidTransition" => Good(Failure(e))
  BY OtherReplies
<1>a. ASSUME NEW r, Good(r), broker' = Answered(r)
      PROVE  Good(broker'.reply)
  BY <1>t, <1>a DEF Answered, ProcessType
<1>c. ASSUME NEW target, NEW approval, NEW result, NEW after,
             Commit(target, approval, result, after),
             \/ target \in BrokerTransitions(Row.state)
             \/ Row.state = target
      PROVE  broker' = after
  BY <1>c DEF Commit
<1>1. CASE Accept \/ Resume
  BY <1>t, <1>i, <1>1 DEF Accept, Resume, AfterAccepted, ProcessType
<1>2. CASE Refuse
  <2>1. Verdict(broker.op) # "InvalidTransition"
    BY <1>2, VerdictType DEF Refuse, BrokerInv, CallInv, At
  <2> QED BY <1>2, <2>1, <1>a, <1>g DEF Refuse, Answer
<1>3. CASE ReplayConflict \/ Duplicate \/ ReturnReceipt \/ ReconcileSettled
             \/ CallFails
             \/ \E e \in {"ApprovalDenied", "ReplayConflict"} : ConsumeExpired(e)
  BY <1>3, <1>a, <1>g
  DEF ReplayConflict, Duplicate, ReturnReceipt, ReconcileSettled, CallFails,
      ConsumeExpired, Answer
<1>4. CASE Deny \/ Raise \/ ReconcilePresent \/ ReconcileRetry \/ ReconcileUncertain
  <2>1. PICK r : Good(r) /\ broker' = Answered(r)
    <3>1. CASE Deny
      BY <1>c, <1>g, <3>1, CommitsAreLegal, Transitions DEF Deny
    <3>2. CASE Raise
      BY <1>c, <1>g, <3>2, CommitsAreLegal, Transitions DEF Raise
    <3>3. CASE ReconcilePresent
      BY <1>c, <1>g, <3>3, CommitsAreLegal, Transitions DEF ReconcilePresent
    <3>4. CASE ReconcileRetry
      BY <1>c, <1>g, <3>4, CommitsAreLegal, Transitions DEF ReconcileRetry
    <3>5. CASE ReconcileUncertain
      BY <1>c, <1>g, <3>5, CommitsAreLegal, Transitions DEF ReconcileUncertain
    <3> QED BY <1>4, <3>1, <3>2, <3>3, <3>4, <3>5
  <2> QED BY <1>a, <2>1
<1>5. CASE Dispatch \/ Deliver
  <2>1. \/ broker' = [broker EXCEPT !.pc = "execute"]
        \/ broker' = [broker EXCEPT !.pc = "receipt"]
    BY <1>5, <1>c, CommitsAreLegal, Transitions DEF Dispatch, Deliver
  <2> QED BY <1>t, <1>i, <2>1 DEF ProcessType
<1>6. CASE \/ Consume \/ ReadFile \/ CheckPrior \/ CheckTarget \/ Replace
           \/ CheckWritten \/ ReconcileAbsent \/ \E k \in ApprovalIds : Issue(k)
  BY <1>t, <1>i, <1>6
  DEF Consume, ReadFile, CheckPrior, CheckTarget, Replace, CheckWritten,
      ReconcileAbsent, Issue, Goto, ProcessType
<1>7. CASE Call \/ Reply \/ ReplyBroken \/ Kill \/ Start
  <2>1. Idle.reply = NoReply /\ Down.reply = NoReply
    BY DEF Idle, Down
  <2>2. broker'.reply = NoReply
    BY <1>7, <2>1, IdleType
    DEF Call, Receive, Reply, ReplyBroken, Kill, Start, ProcessType
  <2> QED BY <2>2, <1>g
<1>8. CASE Edits
  BY <1>i, <1>8 DEF Edits, Edit
<1> QED
  BY <1>1, <1>2, <1>3, <1>4, <1>5, <1>6, <1>7, <1>8
  DEF BrokerNext, BrokerStep, Submitting, Reconciling

-----------------------------------------------------------------------------
(* The theorems. *)

\* BrokerInv is inductive.
LEMMA BrokerInvStep ==
  ASSUME BrokerInv, [BrokerNext]_brokerVars
  PROVE  BrokerInv'
<1>1. CASE BrokerNext
  BY <1>1, TypeStep, CallStep, RowStep, AtMostOnceStep, ApprovedStep,
     EvidenceStep, NoInvalidStep
  DEF BrokerInv
<1>2. CASE UNCHANGED brokerVars
  BY <1>2
  DEF brokerVars, BrokerInv, BrokerTypeOK, CallInv, RowInv, EffectAtMostOnce,
      EffectWasApproved, DeliveryHasEvidence, NoInvalidTransition, At, Row, Approved,
      Redeemable
<1> QED BY <1>1, <1>2

\* The Broker's invariant holds, whatever is killed, edited or called: its part of
\* every theorem below (broker.py, storage.py:303-448).
THEOREM BrokerInvariant == BrokerSpec => []BrokerInv
<1>1. BrokerInit => BrokerInv
  BY BrokerInitInv
<1>2. BrokerInv /\ [BrokerNext]_brokerVars => BrokerInv'
  BY BrokerInvStep
<1> QED BY <1>1, <1>2, PTL DEF BrokerSpec

\* The Broker is type correct (all of broker.py, storage.py:303-448).
THEOREM BrokerTypeCorrect == BrokerSpec => []BrokerTypeOK
<1>1. BrokerInv => BrokerTypeOK
  BY DEF BrokerInv
<1> QED BY <1>1, BrokerInvariant, PTL

\* No attempt has its effect twice, whatever is killed and asked again
\* (broker.py:62, 90-100).
THEOREM AtMostOneEffect == BrokerSpec => []EffectAtMostOnce
<1>1. BrokerInv => EffectAtMostOnce
  BY DEF BrokerInv
<1> QED BY <1>1, BrokerInvariant, PTL

\* No effect without a consumed approval for exactly it (broker.py:76-94).
THEOREM ApprovalBeforeEffect == BrokerSpec => []EffectWasApproved
<1>1. BrokerInv => EffectWasApproved
  BY DEF BrokerInv
<1> QED BY <1>1, BrokerInvariant, PTL

\* No delivery is recorded without evidence of it (broker.py:97-141).
THEOREM DeliveriesAreReal == BrokerSpec => []DeliveryHasEvidence
<1>1. BrokerInv => DeliveryHasEvidence
  BY DEF BrokerInv
<1> QED BY <1>1, BrokerInvariant, PTL

\* No handler runs into a forbidden transition (storage.py:369-373).
THEOREM TransitionsAreLegal == BrokerSpec => []NoInvalidTransition
<1>1. BrokerInv => NoInvalidTransition
  BY DEF BrokerInv
<1> QED BY <1>1, BrokerInvariant, PTL

\* Every replacement is made in flight, with the recorded payload
\* (broker.py:90-100).
THEOREM RecordedEffects == BrokerSpec => EffectIsRecorded
<1>1. BrokerInv /\ [BrokerNext]_brokerVars =>
        [\A a \in Attempts : applied'[a] # applied[a] =>
           /\ ledger[a].state = "IN_FLIGHT"
           /\ files'[Params[ledger[a].op].path] = Params[ledger[a].op].content]_brokerVars
  <2> SUFFICES ASSUME BrokerInv, BrokerNext, NEW a \in Attempts, applied'[a] # applied[a]
               PROVE  /\ ledger[a].state = "IN_FLIGHT"
                      /\ files'[Params[ledger[a].op].path] = Params[ledger[a].op].content
    OBVIOUS
  <2>1. Replace
    BY WritingSteps
    DEF Accept, Deny, Issue, Consume, Dispatch, Raise, Deliver, ReconcilePresent,
        ReconcileRetry, ReconcileUncertain
  <2>2. /\ a = broker.att
        /\ Row.state = "IN_FLIGHT" /\ Row.op = broker.op /\ Row.op \in Operations
    BY <2>1, AttemptOfCall
    DEF Replace, At, BrokerInv, BrokerTypeOK, CallInv, RowInv, InFlight,
        Executing, Row, Unrecorded
  <2>3. Params[broker.op].path \in Paths
    BY <2>2, ParamsAssumption DEF ActionParams
  <2> QED BY <2>1, <2>2, <2>3 DEF Replace, Row, BrokerInv, BrokerTypeOK
<1> QED BY <1>1, BrokerInvariant, PTL DEF BrokerSpec, EffectIsRecorded

-----------------------------------------------------------------------------
(* While nobody else writes the files of the operations. *)

\* What the executor has checked is still so.
CheckedInv ==
  /\ broker.pc \in {"exists", "replace"} => PriorMatches(broker.op)
  /\ At("replace") => TargetFree(broker.op)
  /\ At("recheck") => ~Verify(Row.op)

\* Only Replace changes the file of an operation.
LEMMA FilesStay ==
  ASSUME BrokerInv, Undisturbed, [BrokerNext]_brokerVars, ~Replace
  PROVE  \A o \in Operations : files'[Params[o].path] = files[Params[o].path]
<1>t. files \in [Paths -> Contents \cup {Absent}]
  BY DEF BrokerInv, BrokerTypeOK
<1>1. CASE Edits
  BY <1>t, <1>1 DEF Edits, Edit, Undisturbed
<1>2. CASE UNCHANGED files
  BY <1>2
<1> QED
  BY <1>1, <1>2
  DEF BrokerNext, Call, BrokerStep, Submitting, Reconciling, Receive, Accept,
      Refuse, ReplayConflict, Resume, Duplicate, Deny, Issue, Consume,
      ConsumeExpired, Dispatch, ReadFile, CheckPrior, CheckTarget, CheckWritten,
      Raise, Deliver, ReturnReceipt, ReconcileSettled, ReconcilePresent,
      ReconcileAbsent, ReconcileRetry, ReconcileUncertain, CallFails, Reply,
      ReplyBroken, Kill, Start, brokerVars

\* The steps that bring the process to where CheckedInv speaks.
LEMMA CheckingSteps ==
  ASSUME BrokerInv, BrokerNext, broker'.pc \in {"exists", "replace", "recheck"}
  PROVE  CheckPrior \/ CheckTarget \/ ReconcileAbsent \/ Edits
<1>t. broker \in ProcessType
  BY DEF BrokerInv, BrokerTypeOK
<1>1. \A r : Answered(r).pc = "reply"
  BY <1>t DEF Answered, ProcessType
<1>2. Idle.pc = "idle" /\ Down.pc = "down"
  BY DEF Idle, Down
<1>3. \A row : AfterAccepted(row).pc \in {"approve", "dispatch"}
  BY <1>t DEF AfterAccepted, ProcessType
<1>4. ~(Accept \/ Refuse \/ ReplayConflict \/ Resume \/ Duplicate
        \/ ReturnReceipt \/ ReconcileSettled \/ CallFails
        \/ (\E e \in {"ApprovalDenied", "ReplayConflict"} : ConsumeExpired(e)))
  BY <1>t, <1>1, <1>3, ResumedAsRecorded
  DEF Accept, Refuse, ReplayConflict, Duplicate, ReturnReceipt,
      ReconcileSettled, CallFails, ConsumeExpired, Answer
<1>5. ~(Deny \/ Raise \/ ReconcilePresent \/ ReconcileRetry \/ ReconcileUncertain)
  BY <1>1 DEF Deny, Raise, ReconcilePresent, ReconcileRetry, ReconcileUncertain, Commit
<1>6. ~(Dispatch \/ Deliver)
  <2>1. /\ [broker EXCEPT !.pc = "execute"].pc = "execute"
        /\ [broker EXCEPT !.pc = "receipt"].pc = "receipt"
    BY <1>t DEF ProcessType
  <2> QED BY <1>1, <2>1 DEF Dispatch, Deliver, Commit
<1>7. ~((\E k \in ApprovalIds : Issue(k)) \/ Consume \/ ReadFile \/ Replace \/ CheckWritten)
  BY <1>t DEF Issue, Consume, ReadFile, Replace, CheckWritten, Goto, ProcessType
<1>8. ~(Call \/ Reply \/ ReplyBroken \/ Kill \/ Start)
  BY <1>2, IdleType DEF Call, Receive, Reply, ReplyBroken, Kill, Start, ProcessType
<1> QED
  BY <1>4, <1>5, <1>6, <1>7, <1>8 DEF BrokerNext, BrokerStep, Submitting, Reconciling

LEMMA CheckedStep ==
  ASSUME Undisturbed, BrokerInv, CheckedInv, [BrokerNext]_brokerVars
  PROVE  CheckedInv'
<1>t. broker \in ProcessType
  BY DEF BrokerInv, BrokerTypeOK
<1>o. /\ broker.pc \in {"execute", "exists", "replace"} => broker.op \in Operations
      /\ broker.pc \in {"reconcile", "recheck"} /\ Row.state \in Reconcilable =>
           Row.op \in Operations
  BY DEF BrokerInv, CallInv, RowInv, At, InFlight, Executing, Row, Unrecorded, Reconcilable
<1>1. CASE UNCHANGED brokerVars
  BY <1>1
  DEF brokerVars, CheckedInv, At, Row, PriorMatches, TargetFree, Exists, Verify
<1>2. CASE CheckPrior \/ CheckTarget
  BY <1>t, <1>2
  DEF CheckPrior, CheckTarget, At, Goto, ProcessType, CheckedInv, PriorMatches,
      TargetFree, Exists
<1>3. CASE ReconcileAbsent
  BY <1>t, <1>3 DEF ReconcileAbsent, At, Goto, ProcessType, CheckedInv, Row, Verify, Exists
<1>4. CASE Edits
  <2>1. \A o \in Operations : files'[Params[o].path] = files[Params[o].path]
    <3>1. broker' = broker
      BY <1>4 DEF Edits, Edit
    <3>2. ~Replace
      BY <1>t, <3>1 DEF Replace, At, ProcessType
    <3> QED BY <1>4, <3>2, FilesStay DEF BrokerNext
  <2>2. UNCHANGED <<broker, ledger>>
    BY <1>4 DEF Edits, Edit
  <2> QED BY <1>o, <2>1, <2>2
          DEF CheckedInv, At, Row, PriorMatches, TargetFree, Exists, Verify, BrokerInv,
              CallInv
<1>5. CASE broker'.pc \notin {"exists", "replace", "recheck"}
  BY <1>5 DEF CheckedInv, At
<1> QED BY <1>1, <1>2, <1>3, <1>4, <1>5, CheckingSteps

-----------------------------------------------------------------------------
(* While no write brings back what another has replaced. *)

\* The file still has the content that o wrote, or a later one.
Stands(o, order) ==
  /\ Params[o].action = "write_file_atomic"
  /\ Params[o].prior # NoHash => Params[o].overwrite
  /\ files[Params[o].path] \in Contents
  /\ \/ files[Params[o].path] = Params[o].content
     \/ <<Params[o].content, files[Params[o].path]>> \in order[Params[o].path]

\* Effects stand, so that recovery does not take them for undone.
StandingInv(order) ==
  \A a \in Attempts : applied[a] > 0 =>
    Stands(ledger[a].op, order) /\ ledger[a].state # "SUPERSEDED"

LEMMA ReplaceStands ==
  ASSUME BrokerInv, CheckedInv, NEW order, Forward(order), Replace,
         broker.op \in Operations
  PROVE  \A o \in Operations : o = broker.op \/ Stands(o, order) => Stands(o, order)'
<1> DEFINE p == Params[broker.op].path
           d == Params[broker.op].content
<1>t. files \in [Paths -> Contents \cup {Absent}]
  BY DEF BrokerInv, BrokerTypeOK
<1>1. Params[broker.op] \in ActionParams /\ \A o \in Operations : Params[o] \in ActionParams
  BY ParamsAssumption
<1>2. p \in Paths /\ d \in Contents /\ files' = [files EXCEPT ![p] = d]
  BY <1>1 DEF Replace, ActionParams
<1>3. /\ Params[broker.op].action = "write_file_atomic"
      /\ PriorMatches(broker.op) /\ TargetFree(broker.op)
  BY DEF BrokerInv, CallInv, Replace, At, CheckedInv
<1>4. files[p] \in Contents => Overwrites(broker.op, files[p])
  BY <1>3, ContentsAssumption DEF PriorMatches, TargetFree, Exists, Overwrites
<1>5. Params[broker.op].prior # NoHash => Params[broker.op].overwrite
  <2>1. SUFFICES ASSUME Params[broker.op].prior # NoHash
                 PROVE  Params[broker.op].overwrite
    OBVIOUS
  <2>2. files[p] = Params[broker.op].prior /\ files[p] \in Contents
    BY <1>1, <1>3, <2>1 DEF PriorMatches, ActionParams
  <2> QED BY <1>4, <2>2 DEF Overwrites
<1>6. \A o \in Operations : o = broker.op => Stands(o, order)'
  BY <1>t, <1>2, <1>3, <1>5 DEF Stands
<1>7. ASSUME NEW o \in Operations, Stands(o, order)
      PROVE  Stands(o, order)'
  <2>1. CASE Params[o].path # p
    BY <1>t, <1>1, <1>2, <1>7, <2>1 DEF Stands, ActionParams
  <2>2. CASE Params[o].path = p
    <3>1. /\ files[p] \in Contents /\ Params[o].content \in Contents
          /\ files[p] = Params[o].content \/ <<Params[o].content, files[p]>> \in order[p]
      BY <1>1, <1>7, <2>2 DEF Stands, ActionParams
    <3>2. files[p] = d \/ <<files[p], d>> \in order[p]
      BY <1>4, <3>1 DEF Forward
    <3>3. d = Params[o].content \/ <<Params[o].content, d>> \in order[p]
      BY <1>2, <3>1, <3>2 DEF Forward
    <3>4. files'[Params[o].path] = d
      BY <1>t, <1>2, <2>2
    <3> QED BY <1>2, <1>7, <2>2, <3>3, <3>4 DEF Stands
  <2> QED BY <2>1, <2>2
<1> QED BY <1>6, <1>7

\* A retry is not granted for an operation whose effect stands.
LEMMA RetryIsOfNothing ==
  ASSUME BrokerInv, NEW order, Forward(order), NEW o \in Operations,
         Stands(o, order), ~Verify(o)
  PROVE  ~PreconditionAllowsRetry(o)
<1>1. Params[o] \in ActionParams
  BY ParamsAssumption
<1>2. /\ Params[o].action # "read_file"
      /\ files[Params[o].path] # Absent
      /\ files[Params[o].path] # Params[o].content
  BY ContentsAssumption DEF Stands, Verify
<1>3. ASSUME files[Params[o].path] = Params[o].prior, Params[o].prior # NoHash
      PROVE  FALSE
  <2>1. Overwrites(o, Params[o].prior)
    BY <1>3 DEF Overwrites, Stands
  <2>2. Params[o].prior \in Contents /\ Params[o].content \in Contents /\ Params[o].path \in Paths
    BY <1>1, <1>3 DEF ActionParams
  <2>3. /\ <<Params[o].prior, Params[o].content>> \in order[Params[o].path]
        /\ <<Params[o].content, Params[o].prior>> \in order[Params[o].path]
    BY <1>2, <1>3, <2>1, <2>2 DEF Forward, Stands
  <2> QED BY <2>2, <2>3 DEF Forward
<1> QED BY <1>2, <1>3 DEF PreconditionAllowsRetry, Exists

LEMMA StandingStep ==
  ASSUME Undisturbed, NEW order, Forward(order), BrokerInv, CheckedInv,
         StandingInv(order), [BrokerNext]_brokerVars
  PROVE  StandingInv(order)'
<1>t. /\ ledger \in [Attempts -> RowType]
      /\ applied \in [Attempts -> Nat]
  BY DEF BrokerInv, BrokerTypeOK
<1>o. \A a \in Attempts : applied[a] > 0 =>
        ledger[a].state \notin {Unrecorded, "ACCEPTED"} /\ ledger[a].op \in Operations
  BY <1>t DEF BrokerInv, RowInv
<1>1. CASE Replace
  <2>1. Row.op = broker.op /\ broker.op \in Operations /\ broker.att \in Attempts
           /\ Row.state = "IN_FLIGHT"
    BY <1>1, AttemptOfCall
    DEF Replace, At, BrokerInv, CallInv, RowInv, InFlight, Executing, Row, Unrecorded
  <2>2. \A o \in Operations : o = broker.op \/ Stands(o, order) => Stands(o, order)'
    BY <1>1, <2>1, ReplaceStands
  <2>3. \A a \in Attempts : a # broker.att => applied'[a] = applied[a]
    BY <1>t, <1>1 DEF Replace
  <2>4. ledger' = ledger
    BY <1>1 DEF Replace
  <2>5. ASSUME NEW a \in Attempts, applied'[a] > 0
        PROVE  \E o \in Operations : /\ o = ledger'[a].op /\ Stands(o, order)'
                                     /\ ledger'[a].state # "SUPERSEDED"
    <3>1. CASE a = broker.att
      BY <2>1, <2>2, <2>4, <3>1 DEF Row
    <3>2. CASE a # broker.att
      BY <1>o, <2>2, <2>3, <2>4, <2>5, <3>2 DEF StandingInv
    <3> QED BY <3>1, <3>2
  <2> QED BY <2>5 DEF StandingInv, Stands
<1>2. CASE ~Replace
  <2>1. \A o \in Operations : files'[Params[o].path] = files[Params[o].path]
    BY <1>2, FilesStay
  <2>2. applied' = applied
    BY <1>2, WritingSteps
    DEF Accept, Deny, Issue, Consume, Dispatch, Raise, Deliver, ReconcilePresent,
        ReconcileRetry, ReconcileUncertain, brokerVars
  <2>3. ASSUME NEW a \in Attempts, applied[a] > 0
        PROVE  ledger'[a].op = ledger[a].op /\ ledger'[a].state # "SUPERSEDED"
    <3>1. CASE UNCHANGED ledger
      BY <2>3, <3>1 DEF StandingInv
    <3>2. CASE Accept
      BY <1>o, <1>t, <2>3, <3>2 DEF Accept, Row, StandingInv
    <3>3. CASE Deny \/ Dispatch \/ Raise \/ Deliver \/ ReconcilePresent \/ ReconcileUncertain
      BY <2>3, <3>3, CommittedRow DEF Committed, Row, StandingInv
    <3>4. CASE ReconcileRetry
      <4>1. ~Verify(Row.op) /\ PreconditionAllowsRetry(Row.op)
        BY <3>4 DEF ReconcileRetry, RetrySafe, CheckedInv
      <4>2. a # broker.att
        BY <1>o, <2>3, <4>1, RetryIsOfNothing DEF StandingInv, Row
      <4> QED BY <2>3, <3>4, <4>2, CommittedRow DEF Committed, StandingInv
    <3> QED BY <1>2, <3>1, <3>2, <3>3, <3>4, WritingSteps DEF Issue, Consume, brokerVars
  <2> QED BY <1>o, <2>1, <2>2, <2>3 DEF StandingInv, Stands
<1> QED BY <1>1, <1>2

\* An attempt with an effect is not superseded, so no other one gets its
\* operation, as long as no other program and no other write undoes what it
\* wrote (broker.py:147-157, actions.py:45-49).
THEOREM EffectsAreNotRetried ==
  ASSUME Undisturbed, NothingRestored
  PROVE  BrokerSpec => [](\A a \in Attempts :
                            ledger[a].state = "SUPERSEDED" => applied[a] = 0)
<1> PICK order : Forward(order)
  BY DEF NothingRestored
<1> DEFINE Inv == CheckedInv /\ StandingInv(order)
<1>1. BrokerInit => Inv
  BY DEF BrokerInit, CheckedInv, StandingInv, Down, Idle, At
<1>2. BrokerInv /\ Inv /\ [BrokerNext]_brokerVars => Inv'
  BY CheckedStep, StandingStep
<1>3. BrokerInv /\ Inv => \A a \in Attempts : ledger[a].state = "SUPERSEDED" => applied[a] = 0
  BY DEF StandingInv, BrokerInv, BrokerTypeOK
<1> HIDE DEF Inv
<1> QED BY <1>1, <1>2, <1>3, BrokerInvariant, PTL DEF BrokerSpec

-----------------------------------------------------------------------------
(* The Broker implements DispatchContract. *)

\* An approval was issued for a recorded attempt and its recorded operation, so
\* an attempt that is not recorded yet has nobody's consent.
IssuedInv ==
  \A k \in ApprovalIds : \A a \in Attempts :
    approvals[k].att = a =>
      ledger[a].state # Unrecorded /\ approvals[k].op = ledger[a].op

ContractInv == BrokerInv /\ IssuedInv

\* A row, once recorded, keeps its operation and stays recorded.
LEMMA RowsStay ==
  ASSUME BrokerInv, BrokerNext, NEW a \in Attempts, ledger[a].state # Unrecorded
  PROVE  ledger'[a].state # Unrecorded /\ ledger'[a].op = ledger[a].op
<1>t. ledger \in [Attempts -> RowType]
  BY DEF BrokerInv, BrokerTypeOK
<1>1. CASE ledger' = ledger
  BY <1>1
<1>2. CASE Accept
  BY <1>t, <1>2 DEF Accept, Row
<1>3. CASE Deny \/ Dispatch \/ Raise \/ Deliver \/ ReconcilePresent
           \/ ReconcileRetry \/ ReconcileUncertain
  BY <1>3, CommittedRow DEF Committed, Row, Unrecorded
<1> QED BY <1>1, <1>2, <1>3, WritingSteps DEF Issue, Consume, Replace

LEMMA IssuedStep ==
  ASSUME ContractInv, BrokerNext
  PROVE  IssuedInv'
<1>t. /\ approvals \in [ApprovalIds -> ApprovalType]
      /\ ledger \in [Attempts -> RowType]
  BY DEF ContractInv, BrokerInv, BrokerTypeOK
<1> SUFFICES ASSUME NEW k \in ApprovalIds, NEW a \in Attempts, approvals'[k].att = a
             PROVE  ledger'[a].state # Unrecorded /\ approvals'[k].op = ledger'[a].op
  BY DEF IssuedInv
<1>1. CASE approvals'[k].att = approvals[k].att /\ approvals'[k].op = approvals[k].op
  BY <1>1, RowsStay DEF ContractInv, IssuedInv
<1>2. ASSUME NEW i \in ApprovalIds, Issue(i), i = k
      PROVE  ledger'[a].state # Unrecorded /\ approvals'[k].op = ledger'[a].op
  <2>1. a = broker.att /\ approvals'[k].op = broker.op /\ ledger' = ledger
    BY <1>t, <1>2 DEF Issue
  <2>2. Row.state = "ACCEPTED" /\ Row.op = broker.op
    BY <1>2 DEF Issue, At, PreDispatch, ContractInv, BrokerInv, CallInv
  <2> QED BY <2>1, <2>2 DEF Row, Unrecorded
<1>3. ASSUME NEW i \in ApprovalIds, Issue(i), i # k
      PROVE  approvals'[k].att = approvals[k].att /\ approvals'[k].op = approvals[k].op
  BY <1>t, <1>3 DEF Issue
<1>4. CASE Consume
  BY <1>t, <1>4, <1>1 DEF Consume, ApprovalType
<1>5. CASE UNCHANGED approvals
  BY <1>5, <1>1
<1> QED
  BY <1>1, <1>2, <1>3, <1>4, <1>5, WritingSteps
  DEF Accept, Deny, Dispatch, Replace, Raise, Deliver, ReconcilePresent,
      ReconcileRetry, ReconcileUncertain

LEMMA ContractInvariant == BrokerSpec => []ContractInv
<1>1. BrokerInit => IssuedInv
  BY AttemptsAssumption DEF BrokerInit, IssuedInv, Unissued, NoAttempt
<1>2. ContractInv /\ [BrokerNext]_brokerVars => IssuedInv'
  <2>1. CASE UNCHANGED brokerVars
    BY <2>1 DEF brokerVars, ContractInv, IssuedInv
  <2> QED BY <2>1, IssuedStep
<1> QED BY <1>1, <1>2, BrokerInvariant, PTL DEF BrokerSpec, ContractInv

-----------------------------------------------------------------------------
(* Steps of the Broker are steps of the contract. *)

\* A commit moves the status of one attempt and nothing else that the contract
\* sees.
LEMMA CommitIsMove ==
  ASSUME BrokerInv, NEW target, NEW approval, NEW result,
         Committed(target, approval, result),
         NEW b \in Attempts, b = broker.att,
         UNCHANGED <<approvals, applied>>
  PROVE  /\ \A from : Row.state \in from => Contract!Move(b, from, target)
         /\ UNCHANGED [a \in Attempts |-> ledger[a].op]
         /\ UNCHANGED [a \in Attempts |-> Consented(a)]
<1>1. \A a \in Attempts : ledger'[a].op = ledger[a].op
  BY DEF Committed, Row
<1>2. \A a \in Attempts : Consented(a)' = Consented(a)
  BY <1>1 DEF Consented, Approved
<1>3. \A a \in Attempts :
        ledger'[a].state = IF a = b THEN target ELSE ledger[a].state
  BY DEF Committed
<1>4. \A from : Row.state \in from => Contract!Move(b, from, target)
  BY <1>3 DEF Contract!Move, Row
<1>5. UNCHANGED [a \in Attempts |-> ledger[a].op]
  BY <1>1
<1>6. UNCHANGED [a \in Attempts |-> Consented(a)]
  BY <1>2
<1> QED BY <1>4, <1>5, <1>6

\* Steps that the contract does not see.
LEMMA Invisible ==
  ASSUME UNCHANGED <<ledger, approvals, applied>>
  PROVE  UNCHANGED Contract!vars
<1>1. \A a \in Attempts : Consented(a)' = Consented(a)
  BY DEF Consented, Approved
<1>2. UNCHANGED [a \in Attempts |-> Consented(a)]
  BY <1>1
<1> QED BY <1>2 DEF Contract!vars

LEMMA CommitStep ==
  ASSUME BrokerInv, NEW b \in Attempts, b = broker.att,
         Deny \/ Dispatch \/ Raise \/ Deliver \/ ReconcilePresent
           \/ ReconcileRetry \/ ReconcileUncertain
  PROVE  Contract!Next \/ UNCHANGED Contract!vars
<1>1. CASE Deny
  <2>1. Contract!Reject(b)
    BY <1>1, CommittedRow, CommitsAreLegal, CommitIsMove DEF Deny, Contract!Reject
  <2> QED BY <2>1 DEF Contract!Next
<1>2. CASE Dispatch
  <2>1. Row.op \in {o \in Operations : RequiresApproval(o)} => Consented(b)
    <3>1. Row.op = broker.op
      BY <1>2 DEF Dispatch, At, PreDispatch, BrokerInv, CallInv
    <3>2. RequiresApproval(broker.op) => Approved(b, broker.op, broker.approval)
      BY <1>2 DEF Dispatch, At, BrokerInv, CallInv
    <3> QED BY <3>1, <3>2 DEF Consented, Approved, Row
  <2>2. Contract!Dispatch(b)
    BY <1>2, <2>1, CommittedRow, CommitsAreLegal, CommitIsMove
    DEF Dispatch, Contract!Dispatch, Row
  <2> QED BY <2>2 DEF Contract!Next
<1>3. CASE Raise \/ ReconcileUncertain
  <2>1. Contract!GiveUp(b)
    BY <1>3, CommittedRow, CommitsAreLegal, CommitIsMove
    DEF Raise, ReconcileUncertain, Contract!GiveUp
  <2> QED BY <2>1 DEF Contract!Next
<1>4. CASE Deliver
  <2>1. Contract!Deliver(b)
    BY <1>4, CommittedRow, CommitsAreLegal, CommitIsMove DEF Deliver, Contract!Deliver
  <2> QED BY <2>1 DEF Contract!Next
<1>5. CASE ReconcilePresent
  <2>1. CASE ledger' = ledger
    BY <1>5, <2>1, Invisible DEF ReconcilePresent
  <2>2. CASE ledger' # ledger
    <3>1. Row.state = "IN_FLIGHT"
      BY <1>5, <2>2, CommitsAreLegal, Transitions DEF ReconcilePresent, Commit
    <3>2. Contract!Deliver(b)
      BY <1>5, <2>2, <3>1, CommittedRow, CommitIsMove
      DEF ReconcilePresent, Contract!Deliver
    <3> QED BY <3>2 DEF Contract!Next
  <2> QED BY <2>1, <2>2
<1>6. CASE ReconcileRetry
  <2>1. Contract!Supersede(b)
    BY <1>6, CommittedRow, CommitsAreLegal, CommitIsMove
    DEF ReconcileRetry, Contract!Supersede
  <2> QED BY <2>1 DEF Contract!Next
<1> QED BY <1>1, <1>2, <1>3, <1>4, <1>5, <1>6

LEMMA ContractStep ==
  ASSUME ContractInv, BrokerNext
  PROVE  Contract!Next \/ UNCHANGED Contract!vars
<1>i. BrokerInv
  BY DEF ContractInv
<1>t. /\ approvals \in [ApprovalIds -> ApprovalType]
      /\ ledger \in [Attempts -> RowType]
      /\ applied \in [Attempts -> Nat]
      /\ broker \in ProcessType
  BY <1>i DEF BrokerInv, BrokerTypeOK
<1>1. CASE UNCHANGED <<ledger, approvals, applied>>
  BY <1>1, Invisible
<1>2. CASE \/ Deny \/ Dispatch \/ Raise \/ Deliver \/ ReconcilePresent
           \/ ReconcileRetry \/ ReconcileUncertain
  <2>1. broker.att \in Attempts
    BY <1>i, <1>2, AttemptOfCall
    DEF Deny, Dispatch, Raise, Deliver, ReconcilePresent, ReconcileRetry,
        ReconcileUncertain, At, Executing
  <2> QED BY <1>i, <1>2, <2>1, CommitStep
<1>3. CASE Accept
  <2>1. PICK b \in Attempts : b = broker.att
    BY <1>i, <1>3, AttemptOfCall DEF Accept, At
  <2>2. PICK o \in Operations : o = broker.op
    BY <1>i, <1>3 DEF Accept, At, BrokerInv, CallInv
  <2>3. \A a \in Attempts :
          ledger'[a] = IF a = b THEN [NoRow EXCEPT !.state = "ACCEPTED", !.op = o]
                       ELSE ledger[a]
    BY <1>t, <1>3, <2>1, <2>2 DEF Accept
  <2>4. \A a \in Attempts : Consented(a)' = Consented(a)
    <3>1. ASSUME NEW a \in Attempts, a # b
          PROVE  Consented(a)' = Consented(a)
      BY <1>3, <2>3, <3>1 DEF Accept, Consented, Approved
    <3>2. ~ Consented(b) /\ ~ Consented(b)'
      BY <1>3, <2>1 DEF Accept, Consented, Approved, ContractInv, IssuedInv, Row
    <3> QED BY <3>1, <3>2 DEF Consented
  <2>5. Contract!Move(b, {"UNRECORDED"}, "ACCEPTED")
    <3>1. ledger[b].state = "UNRECORDED"
      BY <1>3, <2>1 DEF Accept, Row, Unrecorded
    <3>2. \A a \in Attempts :
            ledger'[a].state = IF a = b THEN "ACCEPTED" ELSE ledger[a].state
      BY <2>3 DEF NoRow
    <3> QED BY <3>1, <3>2 DEF Contract!Move
  <2>6. [a \in Attempts |-> ledger[a].op]' =
          [[a \in Attempts |-> ledger[a].op] EXCEPT ![b] = o]
    BY <2>3 DEF NoRow
  <2>7. UNCHANGED [a \in Attempts |-> Consented(a)]
    BY <2>4
  <2>8. Contract!Accept(b, o)
    BY <1>3, <2>5, <2>6, <2>7 DEF Accept, Contract!Accept
  <2> QED BY <2>8 DEF Contract!Next
<1>4. ASSUME NEW k \in ApprovalIds, Issue(k)
      PROVE  UNCHANGED Contract!vars
  <2>1. \A a \in Attempts : Consented(a)' = Consented(a)
    BY <1>t, <1>4 DEF Issue, Unissued, Consented, Approved
  <2>2. UNCHANGED [a \in Attempts |-> Consented(a)]
    BY <2>1
  <2> QED BY <1>4, <2>2 DEF Issue, Contract!vars
<1>5. CASE Consume
  <2>1. PICK b \in Attempts : b = broker.att
    BY <1>i, <1>5, AttemptOfCall DEF Consume, At
  <2>2. /\ broker.approval \in ApprovalIds
        /\ Row.op = broker.op /\ Row.state = "ACCEPTED"
    BY <1>i, <1>5 DEF Consume, At, BrokerInv, CallInv, PreDispatch
  <2>3. Consented(b)'
    BY <1>t, <1>5, <2>1, <2>2 DEF Consume, Redeemable, Consented, Approved, Row, ApprovalType
  <2>4. ASSUME NEW a \in Attempts, a # b
        PROVE  Consented(a)' = Consented(a)
    BY <1>t, <1>5, <2>1, <2>4 DEF Consume, Redeemable, Consented, Approved, ApprovalType
  <2>5. [a \in Attempts |-> Consented(a)]' =
          [[a \in Attempts |-> Consented(a)] EXCEPT ![b] = TRUE]
    BY <2>3, <2>4 DEF Consented
  <2>6. Contract!Consent(b)
    BY <1>5, <2>1, <2>2, <2>5 DEF Consume, Contract!Consent, Row
  <2> QED BY <2>6 DEF Contract!Next
<1>6. CASE Replace
  <2>1. PICK b \in Attempts : b = broker.att
    BY <1>i, <1>6, AttemptOfCall DEF Replace, At
  <2>2. /\ Row.state = "IN_FLIGHT" /\ Row.op = broker.op
        /\ applied[b] = 0
        /\ Params[broker.op].action = "write_file_atomic"
    BY <1>i, <1>6, <2>1 DEF Replace, At, BrokerInv, CallInv, InFlight, Executing
  <2>3. Row.op \in {o \in Operations : RequiresApproval(o)}
    BY <1>i, <2>1, <2>2 DEF BrokerInv, RowInv, Row, Unrecorded, RequiresApproval
  <2>4. applied' = [applied EXCEPT ![b] = 1]
    BY <1>6, <1>t, <2>1, <2>2 DEF Replace
  <2>5. UNCHANGED [a \in Attempts |-> Consented(a)]
    <3>1. \A a \in Attempts : Consented(a)' = Consented(a)
      BY <1>6 DEF Replace, Consented, Approved
    <3> QED BY <3>1
  <2>6. Contract!Effect(b)
    BY <1>6, <2>1, <2>2, <2>3, <2>4, <2>5 DEF Replace, Contract!Effect, Row
  <2> QED BY <2>6 DEF Contract!Next
<1> QED BY <1>1, <1>2, <1>3, <1>4, <1>5, <1>6, WritingSteps

\* The Broker implements the contract of one dispatch attempt, for every set of
\* attempts, operations, files and approvals (broker.py:52-157).
THEOREM BrokerImplementsContract == BrokerSpec => ImplementsContract
<1>1. BrokerInit => Contract!Init
  <2> SUFFICES ASSUME BrokerInit PROVE Contract!Init
    OBVIOUS
  <2>1. \A a \in Attempts : Consented(a) = FALSE
    BY DEF BrokerInit, Unissued, Consented, Approved
  <2>2. [a \in Attempts |-> Consented(a)] = [a \in Attempts |-> FALSE]
    BY <2>1
  <2> QED BY <2>2 DEF BrokerInit, NoRow, Unrecorded, Contract!Init
<1>2. ContractInv /\ [BrokerNext]_brokerVars => [Contract!Next]_(Contract!vars)
  <2>1. CASE UNCHANGED brokerVars
    BY <2>1, Invisible DEF brokerVars
  <2> QED BY <2>1, ContractStep
<1> QED BY <1>1, <1>2, ContractInvariant, PTL
        DEF BrokerSpec, ImplementsContract, Contract!Spec

=============================================================================
