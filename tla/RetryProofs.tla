----------------------------- MODULE RetryProofs -----------------------------
(***************************************************************************)
(* OneLiveAttempt, proved for any number of Engines that execute and       *)
(* recover on one journal.                                                 *)
(*                                                                         *)
(* The Broker grants a retry with the reply RETRY_SAFE, and once only: it  *)
(* supersedes the attempt as it does.  Whoever has the grant of an         *)
(* operation is alone with it, and no attempt at the operation is live.    *)
(***************************************************************************)
EXTENDS SystemProofs

Grant == Outcome("RETRY_SAFE")

\* The process p of an Engine has been granted a retry, or is about to make it.
Holds(p) == p.reply = Grant \/ p.pc = "retry"

\* Every attempt at the operation o is superseded.
Over(o) ==
  \A b \in Attempts : journal[b].op = o => ledger[b].state = "SUPERSEDED"

\* Grants are given for operations without a live attempt, one for each.
GrantInv ==
  /\ \A e \in Engines : Holds(engine[e]) =>
       /\ Works(engine[e])
       /\ Over(engine[e].op)
  /\ \A e, x \in Engines :
       e # x /\ Holds(engine[e]) /\ Holds(engine[x]) => engine[e].op # engine[x].op
  /\ broker.reply = Grant =>
       /\ broker.att \in Attempts
       /\ journal[broker.att].state # Unrecorded
       /\ Over(journal[broker.att].op)
       /\ \A e \in Engines : Holds(engine[e]) => engine[e].op # journal[broker.att].op

\* The call in which the Broker's process is at pc.
CallAt(pc) ==
  CASE pc = "status"                   -> "status"
    [] pc \in {"reconcile", "recheck"} -> "reconcile"
    [] OTHER                           -> "submit"

\* A call that is served is the one its Engine waits for; a grant is the answer
\* to a call that may ask for one.
ServingInv ==
  serving # NoEngine =>
    /\ broker.pc \notin {"idle", "down"}
    /\ broker.att = engine[serving].att
    /\ Waiting(serving)
    /\ broker.pc # "reply" => CallName(engine[serving].pc) = CallAt(broker.pc)
    /\ broker.reply = Grant => CallName(engine[serving].pc) = "reconcile"

\* The inductive invariant behind OneLiveAttempt.
RetryInv ==
  /\ SystemInv
  /\ OneLiveAttempt
  /\ GrantInv
  /\ ServingInv

-----------------------------------------------------------------------------
(* Replies. *)

LEMMA OtherThanGrant ==
  /\ NoReply # Grant
  /\ NoReceipt # Grant
  /\ \A row : Receipt(row) # Grant
  /\ \A x : Failure(x) # Grant
  /\ \A o : o # "RETRY_SAFE" => Outcome(o) # Grant
<1>1. /\ NoReply.tag = "pending" /\ NoReceipt.tag = "none"
      /\ \A row : Receipt(row).tag = "receipt"
      /\ \A x : Failure(x).tag = "error"
      /\ \A o : Outcome(o).tag = "outcome" /\ Outcome(o).value = o
  BY DEF NoReply, NoReceipt, Receipt, Outcome, Failure
<1> QED BY <1>1 DEF Grant

\* The outcome RETRY_SAFE is a grant, and nothing becomes one on the way.
LEMMA GrantArrives ==
  ASSUME NEW r \in Replies
  PROVE  /\ r.tag = "outcome" /\ r.value = "RETRY_SAFE" => r = Grant
         /\ Transported(r) = Grant => r = Grant
<1>1. /\ NoReply.tag = "pending" /\ NoReceipt.tag = "none"
      /\ \A row : Receipt(row).tag = "receipt"
      /\ \A x : Failure(x).tag = "error"
      /\ \A o : Outcome(o).value = o
  BY DEF NoReply, NoReceipt, Receipt, Outcome, Failure
<1>2. r.tag = "outcome" => \E o \in Outcomes : r = Outcome(o)
  <2>1. \/ r \in {NoReply, NoReceipt}
        \/ \E o \in Outcomes : r = Outcome(o)
        \/ \E x \in Errors : r = Failure(x)
        \/ \E s \in BrokerState, v \in Results :
             r = Receipt([state |-> s, result |-> v])
    BY DEF Replies
  <2> QED BY <1>1, <2>1
<1>3. r.tag = "outcome" /\ r.value = "RETRY_SAFE" => r = Grant
  BY <1>1, <1>2 DEF Grant
<1>4. Transported(r) = r \/ Transported(r) = Failure("AutonomousIntelligenceError")
  BY DEF Transported
<1> QED BY <1>3, <1>4, OtherThanGrant

-----------------------------------------------------------------------------
(* What the Broker's steps leave alone. *)

LEMMA SupersededStays ==
  ASSUME BrokerInv, [BrokerNext]_brokerVars, NEW a \in Attempts,
         ledger[a].state = "SUPERSEDED"
  PROVE  ledger'[a].state = "SUPERSEDED"
<1>t. ledger \in [Attempts -> RowType]
  BY DEF BrokerInv, BrokerTypeOK
<1>1. CASE ledger' = ledger
  BY <1>1
<1>2. CASE Accept
  BY <1>t, <1>2 DEF Accept, Row, Unrecorded
<1>3. CASE Deny \/ Dispatch \/ Raise \/ Deliver \/ ReconcilePresent
           \/ ReconcileRetry \/ ReconcileUncertain
  BY <1>3, CommittedRow, CommitsAreLegal DEF Committed, Row
<1> QED BY <1>1, <1>2, <1>3, WritingSteps DEF Issue, Consume, Replace, brokerVars

LEMMA AnsweredKeeps ==
  ASSUME broker \in ProcessType, NEW r
  PROVE  /\ Answered(r).att = broker.att
         /\ Answered(r).pc = "reply"
         /\ Answered(r).reply = r
BY DEF Answered, ProcessType

\* The state of a call in progress, after a step that gives no grant.
Kept ==
  /\ broker'.att = broker.att
  /\ broker'.pc \notin {"idle", "down"}
  /\ broker'.pc # "reply" => CallAt(broker'.pc) = CallAt(broker.pc)
  /\ broker'.reply = Grant => broker.reply = Grant

LEMMA CommitKeeps ==
  ASSUME broker \in ProcessType, NEW target, NEW k, NEW result, NEW after,
         Commit(target, k, result, after),
         after.att = broker.att, after.pc \notin {"idle", "down"},
         after.pc # "reply" => CallAt(after.pc) = CallAt(broker.pc),
         after.reply = Grant => broker.reply = Grant
  PROVE  Kept
<1>1. broker' = after \/ broker' = Answered(Failure("InvalidTransition"))
  BY DEF Commit
<1> QED BY <1>1, AnsweredKeeps, OtherThanGrant DEF Kept

LEMMA AnswerKeeps ==
  ASSUME broker \in ProcessType, NEW r, r # Grant, Answer(r)
  PROVE  Kept
BY AnsweredKeeps DEF Answer, Kept

\* A call in progress keeps its attempt, and only ReconcileRetry grants a retry.
LEMMA CallKeeps ==
  ASSUME BrokerInv, BrokerStep \/ CallFails, ~ReconcileRetry
  PROVE  Kept
<1>t. broker \in ProcessType
  BY DEF BrokerInv, BrokerTypeOK
<1>r. \A r : r # Grant =>
        /\ Answered(r).att = broker.att
        /\ Answered(r).pc = "reply"
        /\ Answered(r).reply # Grant
  BY <1>t, AnsweredKeeps
<1>1. CASE Accept \/ Resume
  BY <1>t, <1>1 DEF Accept, Resume, AfterAccepted, ProcessType, Kept, CallAt, At
<1>2. CASE Deny \/ Raise
  BY <1>t, <1>r, <1>2, CommitKeeps, OtherThanGrant DEF Deny, Raise
<1>3. CASE Dispatch
  <2> DEFINE after == [broker EXCEPT !.pc = "execute"]
  <2>1. /\ after.att = broker.att /\ after.pc = "execute" /\ after.reply = broker.reply
        /\ broker.pc = "dispatch"
    BY <1>t, <1>3 DEF ProcessType, Dispatch, At
  <2>2. Commit("IN_FLIGHT", broker.approval, NoResult, after)
    BY <1>3 DEF Dispatch
  <2> HIDE DEF after
  <2> QED BY <1>t, <2>1, <2>2, CommitKeeps DEF CallAt
<1>4. CASE Deliver
  <2> DEFINE after == [broker EXCEPT !.pc = "receipt"]
  <2>1. /\ after.att = broker.att /\ after.pc = "receipt" /\ after.reply = broker.reply
        /\ broker.pc = "deliver"
    BY <1>t, <1>4 DEF ProcessType, Deliver, At
  <2>2. Commit("DELIVERY_ATTEMPTED", NoApproval, broker.seen, after)
    BY <1>4 DEF Deliver
  <2> HIDE DEF after
  <2> QED BY <1>t, <2>1, <2>2, CommitKeeps DEF CallAt
<1>5. CASE ReconcilePresent \/ ReconcileUncertain
  <2>1. Outcome("EFFECT_PRESENT") # Grant /\ Outcome("UNCERTAIN") # Grant
    BY OtherThanGrant
  <2> QED BY <1>t, <1>r, <1>5, <2>1, CommitKeeps
          DEF ReconcilePresent, ReconcileUncertain
<1>6. CASE Refuse \/ ReplayConflict \/ Duplicate \/ ReturnReceipt \/ CallFails
           \/ \E x \in {"ApprovalDenied", "ReplayConflict"} : ConsumeExpired(x)
  BY <1>t, <1>6, AnswerKeeps, OtherThanGrant
  DEF Refuse, ReplayConflict, Duplicate, ReturnReceipt, CallFails, ConsumeExpired
<1>7. CASE ReconcileSettled
  <2>1. broker.att \in Attempts
    BY <1>7 DEF ReconcileSettled, At, BrokerInv, CallInv
  <2>2. Row.state # "RETRY_SAFE"
    BY <2>1 DEF BrokerInv, BrokerTypeOK, RowType, Row, BrokerState, Unrecorded
  <2>3. \E o : o # "RETRY_SAFE" /\ Answer(Outcome(o))
    BY <1>7, <2>2 DEF ReconcileSettled
  <2> QED BY <1>t, <2>3, AnswerKeeps, OtherThanGrant
<1>8. CASE Consume \/ ReadFile \/ CheckPrior \/ CheckTarget \/ Replace
           \/ CheckWritten \/ ReconcileAbsent \/ \E k \in ApprovalIds : Issue(k)
  BY <1>t, <1>8
  DEF Consume, ReadFile, CheckPrior, CheckTarget, Replace, CheckWritten,
      ReconcileAbsent, Issue, Goto, ProcessType, Kept, CallAt, At
<1> QED
  BY <1>1, <1>2, <1>3, <1>4, <1>5, <1>6, <1>7, <1>8
  DEF BrokerStep, Submitting, Reconciling

-----------------------------------------------------------------------------
(* What an Engine's own steps do to grants. *)

LEMMA NoneHeld ==
  /\ ~Holds(Resting)
  /\ \A x : ~Holds(Raised(x))
  /\ \A todo : ~Holds(NextOf(todo))
<1>1. ~Holds(Resting)
  BY OtherThanGrant DEF Holds, Resting
<1>2. ASSUME NEW x
      PROVE  ~Holds(Raised(x))
  BY OtherThanGrant DEF Holds, Raised, Resting
<1>3. ASSUME NEW todo
      PROVE  ~Holds(NextOf(todo))
  <2>1. CASE todo = {}
    BY <1>1, <2>1 DEF NextOf
  <2>2. CASE todo # {}
    <3>1. \E a : NextOf(todo) = [Resting EXCEPT !.pc = "status", !.att = a,
                                               !.op = journal[a].op, !.todo = todo \ {a}]
      BY <2>2 DEF NextOf
    <3>2. NextOf(todo).pc = "status" /\ NextOf(todo).reply = NoReply
      BY <3>1 DEF Resting
    <3> QED BY <3>2, OtherThanGrant DEF Holds
  <2> QED BY <2>1, <2>2
<1> QED BY <1>1, <1>2, <1>3

LEMMA CallHolds ==
  ASSUME SystemInv, NEW e \in Engines, NEW pc
  PROVE  /\ CallNext(e, pc).pc = pc
         /\ CallNext(e, pc).op = engine[e].op
         /\ Holds(CallNext(e, pc)) => pc = "retry"
<1>1. engine[e] \in EngineType
  BY DEF SystemInv, Sound
<1>2. /\ CallNext(e, pc).pc = pc
      /\ CallNext(e, pc).op = engine[e].op
      /\ CallNext(e, pc).reply = NoReply
  BY <1>1 DEF CallNext, EngineType
<1> QED BY <1>2, OtherThanGrant DEF Holds

\* The process p holds what the process q has held.
Inherits(p, q) ==
  Holds(p) => Holds(q) /\ p.op = q.op /\ Works(p)

\* No attempt moves to another operation, and no process gets a grant.
NoGrant ==
  /\ \A a \in Attempts : journal'[a].op = journal[a].op
  /\ \A x \in Engines : Inherits(engine'[x], engine[x])

LEMMA MoveInherits ==
  ASSUME RetryInv, NEW e \in Engines, NEW next, Inherits(next, engine[e]),
         \A a \in Attempts : journal'[a].op = journal[a].op,
         Become(e, next)
  PROVE  NoGrant
<1>1. engine \in [Engines -> EngineType]
  BY DEF RetryInv, SystemInv, TypeOK
<1>2. \A x \in Engines : engine'[x] = IF x = e THEN next ELSE engine[x]
  BY <1>1 DEF Become
<1>3. \A x \in Engines : Inherits(engine[x], engine[x])
  BY DEF RetryInv, GrantInv, Inherits
<1> QED BY <1>2, <1>3 DEF NoGrant

LEMMA CommitInherits ==
  ASSUME RetryInv, NEW e \in Engines, NEW target, NEW result, NEW after,
         Inherits(after, engine[e]),
         JournalCommit(e, target, result, after)
  PROVE  NoGrant
<1>1. journal \in [Attempts -> JournalType]
  BY DEF RetryInv, SystemInv, TypeOK
<1>2. \A a \in Attempts : journal'[a].op = journal[a].op
  BY <1>1 DEF JournalCommit, JournalType
<1>3. Become(e, after) \/ Become(e, Raised("InvalidTransition"))
  BY DEF JournalCommit
<1>4. Inherits(Raised("InvalidTransition"), engine[e])
  BY NoneHeld DEF Inherits
<1> QED BY <1>2, <1>3, <1>4, MoveInherits

\* A process that moves has not been waiting, and without a new attempt it gets
\* no grant that it did not have.
LEMMA EngineStepInherits ==
  ASSUME RetryInv, NEW e \in Engines, EngineStep(e), \A a \in Attempts : ~Retry(e, a)
  PROVE  NoGrant
<1>s. SystemInv
  BY DEF RetryInv
<1>n. \A pc : pc # "retry" => Inherits(CallNext(e, pc), engine[e])
  BY <1>s, CallHolds DEF Inherits
<1>d. Inherits(Done(e), engine[e])
  BY NoneHeld DEF Inherits, Done
<1>x. \A err : Inherits(Raised(err), engine[e])
  BY NoneHeld DEF Inherits
<1>1. CASE StatusUnknown(e) \/ StatusAccepted(e) \/ StatusDispatched(e) \/ ReceiptInFlight(e)
  BY <1>1, <1>n, MoveInherits
  DEF StatusUnknown, StatusAccepted, StatusDispatched, ReceiptInFlight
<1>2. CASE StatusSettled(e) \/ ReconciledPresent(e) \/ ReconciledUncertain(e)
           \/ Confirmed(e) \/ Unconfirmed(e)
  BY <1>2, <1>d, CommitInherits
  DEF StatusSettled, ReconciledPresent, ReconciledUncertain, Confirmed, Unconfirmed
<1>3. CASE ReconciledRetry(e)
  <2>1. engine[e].reply \in Replies
    BY <1>s DEF SystemInv, Sound, EngineType
  <2>2. Holds(engine[e])
    BY <1>3, <2>1, GrantArrives DEF ReconciledRetry, Got, Value, Holds
  <2>3. Inherits(CallNext(e, "retry"), engine[e])
    BY <1>s, <2>2, CallHolds DEF Inherits, Works
  <2> QED BY <1>3, <2>3, CommitInherits DEF ReconciledRetry
<1>4. CASE MarkDelivered(e)
  BY <1>4, <1>n, CommitInherits DEF MarkDelivered
<1>5. CASE SubmitRejected(e)
  BY <1>5, <1>x, CommitInherits DEF SubmitRejected
<1>6. CASE CallRaises(e) \/ ReceiptUnexpected(e)
  BY <1>6, <1>x, MoveInherits DEF CallRaises, ReceiptUnexpected
<1>7. CASE Report(e)
  <2>1. Inherits(Resting, engine[e])
    BY NoneHeld DEF Inherits
  <2> QED BY <1>7, <2>1, MoveInherits DEF Report
<1>8. CASE ReceiptDelivered(e)
  <2>1. PICK next : /\ Become(e, next)
                    /\ \E pc \in {"deliver", "confirm"} :
                         next = [[engine[e] EXCEPT !.got = engine[e].reply.result,
                                                   !.reply = NoReply] EXCEPT !.pc = pc]
    BY <1>8 DEF ReceiptDelivered
  <2>2. engine[e] \in EngineType
    BY <1>s DEF SystemInv, Sound
  <2>3. next.reply = NoReply /\ next.pc \in {"deliver", "confirm"}
    BY <2>1, <2>2 DEF EngineType
  <2>4. Inherits(next, engine[e])
    BY <2>3, OtherThanGrant DEF Inherits, Holds
  <2> QED BY <1>8, <2>1, <2>4, MoveInherits DEF ReceiptDelivered
<1> QED
  BY <1>1, <1>2, <1>3, <1>4, <1>5, <1>6, <1>7, <1>8
  DEF EngineStep, Recovering, Consuming

LEMMA StepsAreAnswered ==
  ASSUME NEW e \in Engines, EngineStep(e) \/ engine[e].pc = "idle"
  PROVE  ~Waiting(e)
<1>1. NoReply.tag = "pending"
  BY DEF NoReply
<1> QED
  BY <1>1
  DEF Waiting, Calls, EngineStep, Recovering, Consuming, StatusUnknown, StatusAccepted,
      StatusDispatched, StatusSettled, ReconciledPresent, ReconciledRetry,
      ReconciledUncertain, Retry, ReceiptDelivered, ReceiptInFlight, ReceiptUnexpected,
      Submitted, MarkDelivered, Confirmed, Unconfirmed, SubmitRejected, CallRaises,
      Report, Got

-----------------------------------------------------------------------------
(* The invariant. *)

\* What is settled about a step before grants are looked at.
LEMMA StepFacts ==
  ASSUME RetryInv, Next
  PROVE  /\ RowsKept
         /\ \A a \in Attempts :
              ledger[a].state = "SUPERSEDED" => ledger'[a].state = "SUPERSEDED"
  BY EnginePart, BrokerPart, SupersededStays DEF RetryInv, SystemInv, EnginesKept

\* Steps without a new grant and without a new attempt.
LEMMA QuietStep ==
  ASSUME RetryInv, Next, NoGrant,
         broker'.reply = Grant => broker.reply = Grant /\ broker'.att = broker.att
  PROVE  OneLiveAttempt' /\ GrantInv'
<1>k. /\ \A a \in Attempts : journal[a].state # Unrecorded => journal'[a].state # Unrecorded
      /\ \A a \in Attempts : journal'[a].op = journal[a].op
      /\ \A a \in Attempts :
           ledger[a].state = "SUPERSEDED" => ledger'[a].state = "SUPERSEDED"
  BY StepFacts DEF RowsKept, NoGrant
<1>1. OneLiveAttempt'
  BY <1>k DEF RetryInv, OneLiveAttempt
<1>2. ASSUME NEW o, Over(o)
      PROVE  Over(o)'
  BY <1>k, <1>2 DEF Over
<1>3. ASSUME NEW e \in Engines, Holds(engine'[e])
      PROVE  /\ Works(engine'[e])
             /\ Over(engine[e].op)'
             /\ Holds(engine[e]) /\ engine'[e].op = engine[e].op
  <2>1. /\ Holds(engine[e]) /\ engine'[e].op = engine[e].op
        /\ Works(engine'[e])
    BY <1>3 DEF NoGrant, Inherits
  <2>2. PICK o : o = engine[e].op
    OBVIOUS
  <2>3. Over(o)'
    BY <1>2, <2>1, <2>2 DEF RetryInv, GrantInv
  <2> QED BY <2>1, <2>2, <2>3 DEF Over
<1>4. ASSUME broker'.reply = Grant
      PROVE  /\ broker'.att \in Attempts
             /\ journal'[broker'.att].state # Unrecorded
             /\ Over(journal[broker.att].op)'
             /\ \A e \in Engines : Holds(engine'[e]) => engine'[e].op # journal'[broker'.att].op
  <2>1. PICK o : o = journal[broker.att].op
    OBVIOUS
  <2>2. /\ broker'.att = broker.att /\ broker.att \in Attempts
        /\ journal[broker.att].state # Unrecorded /\ Over(o)
        /\ \A e \in Engines : Holds(engine[e]) => engine[e].op # o
    BY <1>4, <2>1 DEF RetryInv, GrantInv
  <2>3. Over(o)' /\ journal'[broker'.att].op = o
    BY <1>2, <1>k, <2>1, <2>2
  <2> QED BY <1>k, <1>3, <2>2, <2>3 DEF Over
<1>5. \A e, x \in Engines :
        e # x /\ Holds(engine'[e]) /\ Holds(engine'[x]) => engine'[e].op # engine'[x].op
  BY <1>3 DEF RetryInv, GrantInv
<1> QED BY <1>1, <1>3, <1>4, <1>5 DEF GrantInv, Over, Holds

\* A new attempt at the operation o, which nobody else may have a grant for.
LEMMA NewAttemptStep ==
  ASSUME RetryInv, UNCHANGED <<ledger, broker>>,
         NEW e \in Engines, NEW next, ~Holds(next), Become(e, next),
         NEW a \in Attempts, NEW o, Prepare(a, o), Over(o),
         \A x \in Engines : x # e /\ Holds(engine[x]) => engine[x].op # o,
         broker.reply = Grant => journal[broker.att].op # o
  PROVE  OneLiveAttempt' /\ GrantInv'
<1>t. journal \in [Attempts -> JournalType] /\ engine \in [Engines -> EngineType]
  BY DEF RetryInv, SystemInv, TypeOK
<1>1. /\ journal[a].state = Unrecorded
      /\ journal'[a].op = o /\ journal'[a].state = "PREPARED"
      /\ \A b \in Attempts : b # a => journal'[b] = journal[b]
  BY <1>t DEF Prepare
<1>2. OneLiveAttempt'
  BY <1>1 DEF RetryInv, OneLiveAttempt, Over
<1>3. ASSUME NEW u, u # o, Over(u)
      PROVE  Over(u)'
  BY <1>1, <1>3 DEF Over
<1>4. /\ \A x \in Engines : x # e => engine'[x] = engine[x]
      /\ engine'[e] = next
  BY <1>t DEF Become
<1>5. ASSUME NEW x \in Engines, Holds(engine'[x])
      PROVE  /\ x # e /\ engine'[x] = engine[x] /\ engine[x].op # o
             /\ Works(engine[x])
             /\ Over(engine[x].op)'
  <2>1. x # e /\ engine'[x] = engine[x] /\ engine[x].op # o /\ Holds(engine[x])
    BY <1>4, <1>5
  <2>2. PICK u : u = engine[x].op
    OBVIOUS
  <2>3. Over(u)'
    BY <1>3, <2>1, <2>2 DEF RetryInv, GrantInv
  <2> QED BY <2>1, <2>2, <2>3 DEF RetryInv, GrantInv, Over
<1>6. ASSUME broker.reply = Grant
      PROVE  /\ broker.att \in Attempts
             /\ journal'[broker.att].state # Unrecorded
             /\ journal'[broker.att].op = journal[broker.att].op
             /\ Over(journal[broker.att].op)'
  <2>1. PICK u : u = journal[broker.att].op
    OBVIOUS
  <2>2. broker.att \in Attempts /\ journal[broker.att].state # Unrecorded
        /\ Over(u) /\ u # o
    BY <1>6, <2>1 DEF RetryInv, GrantInv
  <2>3. Over(u)'
    BY <1>3, <2>2
  <2>4. journal'[broker.att] = journal[broker.att]
    BY <1>1, <2>2
  <2> QED BY <2>1, <2>2, <2>3, <2>4 DEF Over
<1>7. \A x, y \in Engines :
        x # y /\ Holds(engine'[x]) /\ Holds(engine'[y]) => engine'[x].op # engine'[y].op
  BY <1>4, <1>5 DEF RetryInv, GrantInv
<1>8. broker.reply = Grant =>
        \A x \in Engines : Holds(engine'[x]) => engine'[x].op # journal'[broker.att].op
  BY <1>4, <1>5, <1>6 DEF RetryInv, GrantInv
<1> QED BY <1>2, <1>4, <1>5, <1>6, <1>7, <1>8 DEF GrantInv, Over, Holds

\* The Broker grants a retry of the one attempt that was live.
LEMMA ReconcileRetryStep ==
  ASSUME RetryInv, Next, ReconcileRetry, UNCHANGED engineVars
  PROVE  OneLiveAttempt' /\ GrantInv'
<1> DEFINE a == broker.att
<1>t. ledger \in [Attempts -> RowType] /\ broker \in ProcessType
  BY DEF RetryInv, SystemInv, BrokerInv, BrokerTypeOK
<1>1. a \in Attempts /\ ledger[a].state = "IN_FLIGHT"
  BY DEF ReconcileRetry, RetrySafe, Row, At, RetryInv, SystemInv, BrokerInv, CallInv
<1>2. journal[a].state # Unrecorded /\ journal[a].op # NoOperation
  BY <1>1, OperationsAssumption DEF RetryInv, SystemInv, JournalFirst, Unrecorded
<1>3. \A b \in Attempts : b # a /\ journal[b].op = journal[a].op => ledger[b].state = "SUPERSEDED"
  BY <1>1, <1>2 DEF RetryInv, OneLiveAttempt
<1>4. /\ ledger'[a].state = "SUPERSEDED"
      /\ broker'.att = a
  <2>1. "SUPERSEDED" \in BrokerTransitions(Row.state)
    BY <1>1 DEF Row, BrokerTransitions
  <2>2. /\ ledger' = [ledger EXCEPT ![a] = Updated(@, "SUPERSEDED", NoApproval, NoResult)]
        /\ broker' = Answered(Outcome("RETRY_SAFE"))
    BY <2>1 DEF ReconcileRetry, Commit
  <2> QED BY <1>t, <1>1, <2>2, AnsweredKeeps DEF Updated, RowType
<1>5. /\ UNCHANGED <<journal, engine>>
      /\ \A b \in Attempts :
           ledger[b].state = "SUPERSEDED" => ledger'[b].state = "SUPERSEDED"
  BY StepFacts DEF engineVars
<1> HIDE DEF a
<1>6. OneLiveAttempt'
  BY <1>5 DEF RetryInv, OneLiveAttempt
<1>7. ASSUME NEW e \in Engines, Holds(engine[e])
      PROVE  engine[e].op # journal[a].op
  BY <1>1, <1>7 DEF RetryInv, GrantInv, Over
<1> QED
  BY <1>1, <1>2, <1>3, <1>4, <1>5, <1>6, <1>7 DEF RetryInv, GrantInv, Over, Holds

\* The grant goes from the Broker to the Engine whose call it was.
LEMMA RespondStep ==
  ASSUME RetryInv, Respond
  PROVE  OneLiveAttempt' /\ GrantInv'
<1> DEFINE e == serving
<1>1. UNCHANGED <<ledger, journal>> /\ broker'.reply # Grant
  BY OtherThanGrant DEF Respond, Reply, Idle
<1>2. OneLiveAttempt'
  BY <1>1 DEF RetryInv, OneLiveAttempt
<1>3. e \in Engines /\ engine \in [Engines -> EngineType] /\ broker.reply \in Replies
  BY DEF Respond, RetryInv, SystemInv, TypeOK, BrokerTypeOK, ProcessType
<1>4. /\ engine'[e].reply = Transported(broker.reply)
      /\ engine'[e].pc = engine[e].pc /\ engine'[e].op = engine[e].op
      /\ \A x \in Engines : x # e => engine'[x] = engine[x]
  BY <1>3 DEF Respond, Answers, EngineType
<1>5. /\ engine[e].pc \in Calls
      /\ engine[e].att = broker.att
      /\ broker.reply = Grant => CallName(engine[e].pc) = "reconcile"
  BY <1>3 DEF Respond, RetryInv, ServingInv, Waiting
<1>6. engine[e].pc \notin {"idle", "raise", "retry"}
  BY <1>5 DEF Calls
<1> HIDE DEF e
<1>7. ASSUME Holds(engine'[e])
      PROVE  /\ broker.reply = Grant /\ Works(engine'[e])
             /\ engine'[e].op = journal[broker.att].op
             /\ Over(engine'[e].op)
  <2>1. broker.reply = Grant
    BY <1>3, <1>4, <1>6, <1>7, GrantArrives DEF Holds
  <2>2. engine[e].pc \in {"reconcile", "confirm"}
    BY <1>5, <2>1 DEF Calls, CallName
  <2>3. journal[engine[e].att].op = engine[e].op
    BY <1>3, <2>2 DEF RetryInv, SystemInv, Sound, Works, Recorded
  <2> QED BY <1>4, <1>5, <2>1, <2>2, <2>3 DEF RetryInv, GrantInv, Works
<1>8. ASSUME NEW x \in Engines, Holds(engine'[x])
      PROVE  Works(engine'[x]) /\ Over(engine'[x].op)
  BY <1>4, <1>6, <1>7, <1>8 DEF RetryInv, GrantInv
<1>9. ASSUME NEW x \in Engines, NEW y \in Engines, x # y,
             Holds(engine'[x]), Holds(engine'[y])
      PROVE  engine'[x].op # engine'[y].op
  BY <1>3, <1>4, <1>7, <1>9 DEF RetryInv, GrantInv
<1> QED BY <1>1, <1>2, <1>8, <1>9 DEF GrantInv, Over, Holds

LEMMA GrantStep ==
  ASSUME RetryInv, Next
  PROVE  OneLiveAttempt' /\ GrantInv'
<1>s. /\ SystemInv /\ BrokerInv
      /\ engine \in [Engines -> EngineType]
  BY DEF RetryInv, SystemInv, TypeOK
<1>u. ASSUME UNCHANGED engineVars
      PROVE  NoGrant
  BY <1>u DEF engineVars, NoGrant, Inherits, RetryInv, GrantInv
<1>a. ASSUME NEW e \in Engines, NEW r, r # Grant, UNCHANGED journal,
             engine' = Answers(e, r)
      PROVE  NoGrant
  <2>1. PICK next : next = [engine[e] EXCEPT !.reply = r]
    OBVIOUS
  <2>2. next.reply = r /\ next.pc = engine[e].pc /\ next.op = engine[e].op
    BY <1>s, <2>1 DEF EngineType
  <2>3. Inherits(next, engine[e])
    BY <1>a, <2>2 DEF Inherits, Holds, RetryInv, GrantInv, Works
  <2>4. Become(e, next)
    BY <1>s, <1>a, <2>1 DEF Answers, Become
  <2> QED BY <1>a, <2>3, <2>4, MoveInherits
<1>b. /\ Idle.reply # Grant /\ Down.reply # Grant
      /\ \A x : Failure(x) # Grant
  BY OtherThanGrant DEF Idle, Down
<1>1. CASE BrokerWorks \/ (CallFails /\ UNCHANGED <<engineVars, serving>>)
  <2>1. CASE ReconcileRetry
    BY <1>1, <2>1, ReconcileRetryStep DEF BrokerWorks
  <2>2. CASE ~ReconcileRetry
    <3>1. Kept
      BY <1>s, <1>1, <2>2, CallKeeps DEF BrokerWorks
    <3> QED BY <1>1, <1>u, <3>1, QuietStep DEF BrokerWorks, Kept
  <2> QED BY <2>1, <2>2
<1>2. CASE BrokerStart \/ HangUp \/ OutsideEdit
  BY <1>2, <1>u, <1>b, QuietStep
  DEF BrokerStart, Start, HangUp, ReplyBroken, OutsideEdit, Edits, Edit
<1>3. CASE Respond
  BY <1>3, RespondStep
<1>4. CASE BrokerCrash
  <2>1. broker' = Down
    BY <1>4 DEF BrokerCrash, Kill
  <2>2. CASE serving = NoEngine
    BY <1>4, <1>u, <1>b, <2>1, <2>2, QuietStep DEF BrokerCrash, engineVars
  <2>3. CASE serving # NoEngine
    <3>1. serving \in Engines
      BY <2>3 DEF RetryInv, SystemInv, TypeOK
    <3>2. NoGrant
      BY <1>4, <1>a, <1>b, <2>3, <3>1 DEF BrokerCrash
    <3> QED BY <1>b, <2>1, <3>2, QuietStep
  <2> QED BY <2>2, <2>3
<1>5. ASSUME NEW e \in Engines, Connect(e)
      PROVE  OneLiveAttempt' /\ GrantInv'
  <2>1. broker'.reply = NoReply
    BY <1>5 DEF Connect, Receive, Idle
  <2> QED BY <1>5, <1>u, <2>1, OtherThanGrant, QuietStep DEF Connect
<1>6. ASSUME NEW e \in Engines, TooLarge(e) \/ ConnectionRefused(e)
      PROVE  OneLiveAttempt' /\ GrantInv'
  <2>1. broker' = Down \/ broker' = broker
    BY <1>6 DEF TooLarge, ConnectionRefused, brokerVars
  <2>2. NoGrant
    BY <1>6, <1>a, <1>b DEF TooLarge, ConnectionRefused
  <2> QED BY <1>b, <2>1, <2>2, QuietStep
<1>7. ASSUME NEW e \in Engines, EngineCrash(e) \/ Recovery(e)
      PROVE  OneLiveAttempt' /\ GrantInv'
  <2>1. PICK next : Become(e, next) /\ ~Holds(next)
    BY <1>7, NoneHeld DEF EngineCrash, Recovery, Recover
  <2>2. NoGrant
    BY <1>7, <2>1, MoveInherits DEF Inherits, EngineCrash, Recovery, Recover
  <2> QED BY <1>7, <2>2, QuietStep DEF EngineCrash, Recovery, brokerVars
<1>8. ASSUME NEW e \in Engines, EngineWorks(e)
      PROVE  OneLiveAttempt' /\ GrantInv'
  <2>1. CASE \A a \in Attempts : ~Retry(e, a)
    BY <1>8, <2>1, EngineStepInherits, QuietStep DEF EngineWorks, brokerVars
  <2>2. ASSUME NEW a \in Attempts, Retry(e, a)
        PROVE  OneLiveAttempt' /\ GrantInv'
    <3>1. PICK next : next = [CallNext(e, "submit") EXCEPT !.att = a]
      OBVIOUS
    <3>2. next.pc = "submit" /\ next.reply = NoReply
      BY <1>s, <3>1 DEF CallNext, EngineType
    <3>3. ~Holds(next)
      BY <3>2, OtherThanGrant DEF Holds
    <3>4. PICK o : o = engine[e].op
      OBVIOUS
    <3>5. Holds(engine[e])
      BY <2>2 DEF Retry, Holds
    <3>6. /\ Over(o)
          /\ \A x \in Engines : x # e /\ Holds(engine[x]) => engine[x].op # o
          /\ broker.reply = Grant => journal[broker.att].op # o
      BY <3>4, <3>5 DEF RetryInv, GrantInv
    <3>7. Become(e, next) /\ Prepare(a, o)
      BY <2>2, <3>1, <3>4 DEF Retry
    <3> QED BY <1>8, <3>3, <3>6, <3>7, NewAttemptStep DEF EngineWorks, brokerVars
  <2> QED BY <2>1, <2>2
<1>9. ASSUME NEW e \in Engines, Request(e)
      PROVE  OneLiveAttempt' /\ GrantInv'
  <2>1. PICK a \in Attempts, o \in Operations : Execute(e, a, o)
    BY <1>9 DEF Request
  <2>2. PICK next : next = [Resting EXCEPT !.pc = "submit", !.att = a, !.op = o]
    OBVIOUS
  <2>3. next.pc = "submit" /\ next.reply = NoReply
    BY <2>2 DEF Resting
  <2>4. ~Holds(next)
    BY <2>3, OtherThanGrant DEF Holds
  <2>5. Become(e, next) /\ Prepare(a, o) /\ \A b \in Attempts : journal[b].op # o
    BY <2>1, <2>2 DEF Execute
  <2>6. /\ Over(o)
        /\ broker.reply = Grant => journal[broker.att].op # o
    BY <2>5 DEF Over, RetryInv, GrantInv
  <2>7. ASSUME NEW x \in Engines, Holds(engine[x])
        PROVE  engine[x].op # o
    BY <1>s, <2>5, <2>7 DEF RetryInv, GrantInv, SystemInv, Sound, Recorded
  <2> QED BY <1>9, <2>4, <2>5, <2>6, <2>7, NewAttemptStep DEF Request, brokerVars
<1> QED
  BY <1>1, <1>2, <1>3, <1>4, <1>5, <1>6, <1>7, <1>8, <1>9 DEF Next, Progress, Fault

LEMMA ServingStep ==
  ASSUME SystemInv, ServingInv, Next
  PROVE  ServingInv'
<1>s. /\ BrokerInv
      /\ engine \in [Engines -> EngineType]
      /\ serving # NoEngine => serving \in Engines
  BY DEF SystemInv, TypeOK
<1>o. ASSUME NEW e \in Engines, ~Waiting(e), NEW next, Become(e, next),
             UNCHANGED <<broker, serving>>
      PROVE  ServingInv'
  <2>1. serving # NoEngine => engine'[serving] = engine[serving]
    BY <1>s, <1>o DEF Become, ServingInv
  <2> QED BY <1>o, <2>1 DEF ServingInv, Waiting
<1>1. CASE BrokerWorks \/ (CallFails /\ UNCHANGED <<engineVars, serving>>)
  <2>1. CASE ReconcileRetry
    <3>1. broker' = Answered(Outcome("RETRY_SAFE"))
            \/ broker' = Answered(Failure("InvalidTransition"))
      BY <2>1 DEF ReconcileRetry, Commit
    <3>2. broker'.att = broker.att /\ broker'.pc = "reply"
      BY <1>s, <3>1, AnsweredKeeps DEF BrokerInv, BrokerTypeOK
    <3>3. broker.pc = "recheck"
      BY <2>1 DEF ReconcileRetry, At
    <3> QED BY <1>1, <3>2, <3>3 DEF BrokerWorks, engineVars, ServingInv, Waiting, CallAt
  <2>2. CASE ~ReconcileRetry
    <3>1. Kept
      BY <1>s, <1>1, <2>2, CallKeeps DEF BrokerWorks
    <3>2. broker.pc # "reply"
      BY <1>1, IdleWaits DEF BrokerWorks
    <3> QED BY <1>1, <3>1, <3>2 DEF BrokerWorks, Kept, engineVars, ServingInv, Waiting
  <2> QED BY <2>1, <2>2
<1>2. CASE BrokerStart \/ OutsideEdit
  BY <1>2
  DEF BrokerStart, Start, At, OutsideEdit, Edits, Edit, engineVars, ServingInv,
      Waiting
<1>3. CASE Respond \/ HangUp \/ BrokerCrash
  BY <1>3 DEF Respond, HangUp, BrokerCrash, ServingInv
<1>4. ASSUME NEW e \in Engines, Connect(e)
      PROVE  ServingInv'
  <2>1. CallName(engine[e].pc) \in {"submit", "status", "reconcile"}
    BY <1>4 DEF Connect, Waiting, Calls, CallName
  <2>2. broker'.att = engine[e].att /\ broker'.pc = CallName(engine[e].pc)
    BY <1>4 DEF Connect, Receive, Idle
  <2>3. broker'.reply # Grant
    BY <1>4, OtherThanGrant DEF Connect, Receive, Idle
  <2> QED BY <1>4, <2>1, <2>2, <2>3 DEF Connect, engineVars, ServingInv, Waiting, CallAt
<1>5. ASSUME NEW e \in Engines, TooLarge(e) \/ ConnectionRefused(e)
      PROVE  ServingInv'
  BY <1>5 DEF TooLarge, ConnectionRefused, At, ServingInv
<1>6. ASSUME NEW e \in Engines, EngineCrash(e)
      PROVE  ServingInv'
  <2>1. serving' # NoEngine =>
          serving' = serving /\ serving # e /\ engine'[serving] = engine[serving]
    BY <1>s, <1>6 DEF EngineCrash, Become
  <2> QED BY <1>6, <2>1 DEF EngineCrash, brokerVars, ServingInv, Waiting
<1>7. ASSUME NEW e \in Engines, EngineWorks(e) \/ Request(e) \/ Recovery(e)
      PROVE  ServingInv'
  <2>1. ~Waiting(e)
    BY <1>7, StepsAreAnswered DEF EngineWorks, Request, Execute, Recovery, Recover
  <2>2. engine' = engine \/ \E next : Become(e, next)
    BY <1>7
    DEF EngineWorks, Request, Execute, Recovery, Recover, EngineStep, Recovering,
        Consuming, StatusUnknown, StatusAccepted, StatusDispatched, StatusSettled,
        ReconciledPresent, ReconciledRetry, ReconciledUncertain, Retry, ReceiptDelivered,
        ReceiptInFlight, ReceiptUnexpected, MarkDelivered, Confirmed, Unconfirmed,
        SubmitRejected, CallRaises, Report, JournalCommit
  <2>3. UNCHANGED <<broker, serving>>
    BY <1>7 DEF EngineWorks, Request, Recovery, brokerVars
  <2> QED BY <1>o, <2>1, <2>2, <2>3 DEF ServingInv, Waiting
<1> QED
  BY <1>1, <1>2, <1>3, <1>4, <1>5, <1>6, <1>7 DEF Next, Progress, Fault

LEMMA RetryInitInv == Init => RetryInv
<1> SUFFICES ASSUME Init PROVE RetryInv
  OBVIOUS
<1>1. \A e \in Engines : engine[e] = Resting
  BY DEF Init, EngineInit
<1>2. \A a \in Attempts : journal[a].op = NoOperation
  BY DEF Init, EngineInit, Unprepared
<1>3. broker.reply # Grant
  BY OtherThanGrant DEF Init, BrokerInit, Down, Idle
<1>4. OneLiveAttempt
  BY <1>2 DEF OneLiveAttempt
<1>5. GrantInv
  BY <1>1, <1>3, NoneHeld DEF GrantInv
<1>6. ServingInv
  BY DEF Init, ServingInv
<1> QED BY <1>4, <1>5, <1>6, SystemInitInv DEF RetryInv

LEMMA RetryStep == RetryInv /\ [Next]_vars => RetryInv'
<1>1. ASSUME RetryInv, Next
      PROVE  RetryInv'
  BY <1>1, SystemStep, GrantStep, ServingStep DEF RetryInv
<1>2. ASSUME RetryInv, UNCHANGED vars
      PROVE  RetryInv'
  <2>1. SystemInv'
    BY <1>2, SystemStep DEF RetryInv
  <2> QED BY <1>2, <2>1
          DEF RetryInv, OneLiveAttempt, GrantInv, Over, Holds, ServingInv, Waiting, vars,
              brokerVars, engineVars
<1> QED BY <1>1, <1>2

\* Of two attempts at one operation the Broker has superseded one, however many
\* Engines execute and recover on the journal at once, and whatever crashes
\* (engine.py:79-94).
THEOREM OneLiveAttemptAlways == Spec => []OneLiveAttempt
<1>1. RetryInv => OneLiveAttempt
  BY DEF RetryInv
<1> QED BY <1>1, RetryInitInv, RetryStep, PTL DEF Spec

\* One logical operation has one effect, through all its attempts, crashes and
\* recoveries, and any number of Engines that share the journal: the attempt that
\* had the effect is not superseded, so there is no other beside it.  The two
\* conditions are what the Broker cannot see: that somebody put back a file
\* (engine.py:79-94, broker.py:143-157, actions.py:45-49).
THEOREM OneEffectPerOperation ==
  ASSUME Undisturbed, NothingRestored
  PROVE  Spec => []EffectOncePerOperation
<1>1. RetryInv /\ (\A a \in Attempts : ledger[a].state = "SUPERSEDED" => applied[a] = 0)
        => EffectOncePerOperation
  <2> SUFFICES ASSUME RetryInv,
                      \A a \in Attempts : ledger[a].state = "SUPERSEDED" => applied[a] = 0,
                      NEW a \in Attempts, NEW b \in Attempts,
                      a # b, applied[a] > 0, applied[b] > 0,
                      ledger[a].op = ledger[b].op
               PROVE  FALSE
    BY DEF EffectOncePerOperation
  <2>1. /\ ledger[a].state # "SUPERSEDED" /\ ledger[b].state # "SUPERSEDED"
        /\ ledger[a].state # Unrecorded /\ ledger[b].state # Unrecorded
    BY DEF RetryInv, SystemInv, BrokerInv, RowInv
  <2>2. ledger[a].op \in Operations
    BY <2>1 DEF RetryInv, SystemInv, BrokerInv, RowInv
  <2>3. journal[a].op = ledger[a].op /\ journal[b].op = ledger[b].op
    BY <2>1 DEF RetryInv, SystemInv, JournalFirst
  <2> QED BY <2>1, <2>2, <2>3, OperationsAssumption DEF RetryInv, OneLiveAttempt
<1>2. Spec => []RetryInv
  BY RetryInitInv, RetryStep, PTL DEF Spec
<1> QED BY <1>1, <1>2, SystemRunsTheBroker, EffectsAreNotRetried, PTL

=============================================================================
