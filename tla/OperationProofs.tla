--------------------------- MODULE OperationProofs ---------------------------
(***************************************************************************)
(* One Engine and the Broker implement OperationContract, proved for every *)
(* set of attempts, operations, files and approvals: with all their        *)
(* crashes, retries and recoveries, the attempts at an operation amount to *)
(* one compare-and-swap and one truthful outcome.                          *)
(*                                                                         *)
(* At every step, at most one attempt at an operation can still have an    *)
(* effect or an outcome: the others are superseded, and had no effect.     *)
(*                                                                         *)
(* The last section is about any number of Engines: nothing is dispatched  *)
(* any more for an operation that is VERIFIED.                             *)
(***************************************************************************)
EXTENDS AgreementProofs, FiniteSetTheorems

Present == Outcome("EFFECT_PRESENT")

\* A postcondition that was found true still is when the answer arrives.
PresentInv ==
  /\ At("reply") /\ broker.reply = Present =>
       \E o \in Operations : Recorded(broker.att, o) /\ Verify(o)
  /\ \A e \in Engines : engine[e].reply = Present /\ Works(engine[e]) =>
       Verify(engine[e].op)

\* An attempt_id without a row belongs to no operation.
FreshInv ==
  \A a \in Attempts : journal[a].state = Unrecorded => journal[a].op = NoOperation

\* The inductive invariant behind ImplementsOperations.
OperationInv(order) ==
  /\ RetryInv
  /\ AgreeInv
  /\ CheckedInv
  /\ StandingInv(order)
  /\ PresentInv
  /\ FreshInv

-----------------------------------------------------------------------------
(* Who finds an effect present. *)

LEMMA OtherThanPresent ==
  /\ NoReply # Present
  /\ NoReceipt # Present
  /\ \A row : Receipt(row) # Present
  /\ \A x : Failure(x) # Present
  /\ \A o : o # "EFFECT_PRESENT" => Outcome(o) # Present
<1>1. /\ NoReply.tag = "pending" /\ NoReceipt.tag = "none"
      /\ \A row : Receipt(row).tag = "receipt"
      /\ \A x : Failure(x).tag = "error"
      /\ \A o : Outcome(o).tag = "outcome" /\ Outcome(o).value = o
  BY DEF NoReply, NoReceipt, Receipt, Outcome, Failure
<1> QED BY <1>1 DEF Present

\* The outcome EFFECT_PRESENT is one reply, and nothing becomes it on the way.
LEMMA PresentArrives ==
  ASSUME NEW r \in Replies
  PROVE  /\ r.tag = "outcome" /\ r.value = "EFFECT_PRESENT" => r = Present
         /\ Transported(r) = Present => r = Present
<1>1. /\ NoReply.tag = "pending" /\ NoReceipt.tag = "none"
      /\ \A row : Receipt(row).tag = "receipt"
      /\ \A x : Failure(x).tag = "error"
      /\ \A o : Outcome(o).value = o
  BY DEF NoReply, NoReceipt, Receipt, Outcome, Failure
<1>2. r.tag = "outcome" => \E o \in Outcomes : r = Outcome(o)
  <2>1. \/ r \in {NoReply, NoReceipt}
        \/ \E o \in Outcomes : r = Outcome(o)
        \/ \E x \in Errors : r = Failure(x)
        \/ \E s \in BrokerState, v \in Results :
             r = Receipt([state |-> s, result |-> v])
    BY DEF Replies
  <2> QED BY <1>1, <2>1
<1>3. r.tag = "outcome" /\ r.value = "EFFECT_PRESENT" => r = Present
  BY <1>1, <1>2 DEF Present
<1>4. Transported(r) = r \/ Transported(r) = Failure("AutonomousIntelligenceError")
  BY DEF Transported
<1> QED BY <1>3, <1>4, OtherThanPresent

\* The process answers that the effect is present.
Finding == broker'.pc = "reply" /\ broker'.reply = Present

LEMMA OnlyReconcileFinds ==
  ASSUME BrokerInv, BrokerStep \/ CallFails, Finding
  PROVE  ReconcilePresent
<1>t. broker \in ProcessType
  BY DEF BrokerInv, BrokerTypeOK
<1>r. \A r : Answered(r).pc = "reply" /\ Answered(r).reply = r
  BY <1>t, AnsweredKeeps
<1>a. ASSUME NEW r, r # Present, Answer(r)
      PROVE  FALSE
  BY <1>a, <1>r DEF Answer, Finding
<1>c. ASSUME NEW target, NEW k, NEW result, NEW after, Commit(target, k, result, after),
             after.pc # "reply" \/ after.reply # Present
      PROVE  FALSE
  <2>1. broker' = after \/ broker' = Answered(Failure("InvalidTransition"))
    BY <1>c DEF Commit
  <2> QED BY <1>c, <1>r, <2>1, OtherThanPresent DEF Finding
<1>1. CASE Accept \/ Resume
  BY <1>t, <1>1 DEF Accept, Resume, AfterAccepted, ProcessType, Finding
<1>2. CASE Deny \/ Raise
  BY <1>r, <1>c, <1>2, OtherThanPresent DEF Deny, Raise
<1>3. CASE Dispatch \/ Deliver
  <2>1. /\ [broker EXCEPT !.pc = "execute"].pc # "reply"
        /\ [broker EXCEPT !.pc = "receipt"].pc # "reply"
    BY <1>t DEF ProcessType
  <2>2. PICK target, k, result, after :
          Commit(target, k, result, after) /\ after.pc # "reply"
    BY <1>3, <2>1 DEF Dispatch, Deliver
  <2> QED BY <1>c, <2>2
<1>4. CASE ReconcileRetry \/ ReconcileUncertain
  <2>1. Outcome("RETRY_SAFE") # Present /\ Outcome("UNCERTAIN") # Present
    BY OtherThanPresent
  <2> QED BY <1>r, <1>c, <1>4, <2>1 DEF ReconcileRetry, ReconcileUncertain
<1>5. CASE Refuse \/ ReplayConflict \/ Duplicate \/ ReturnReceipt \/ CallFails
           \/ \E x \in {"ApprovalDenied", "ReplayConflict"} : ConsumeExpired(x)
  BY <1>a, <1>5, OtherThanPresent
  DEF Refuse, ReplayConflict, Duplicate, ReturnReceipt, CallFails, ConsumeExpired
<1>6. CASE ReconcileSettled
  <2>1. broker.att \in Attempts
    BY <1>6 DEF ReconcileSettled, At, BrokerInv, CallInv
  <2>2. Row.state # "EFFECT_PRESENT"
    BY <2>1 DEF BrokerInv, BrokerTypeOK, RowType, Row, BrokerState, Unrecorded
  <2>3. \E o : o # "EFFECT_PRESENT" /\ Answer(Outcome(o))
    BY <1>6, <2>2 DEF ReconcileSettled
  <2> QED BY <1>a, <2>3, OtherThanPresent
<1>7. CASE Consume \/ ReadFile \/ CheckPrior \/ CheckTarget \/ Replace
           \/ CheckWritten \/ ReconcileAbsent \/ \E k \in ApprovalIds : Issue(k)
  BY <1>t, <1>7
  DEF Consume, ReadFile, CheckPrior, CheckTarget, Replace, CheckWritten,
      ReconcileAbsent, Issue, Goto, ProcessType, Finding
<1> QED
  BY <1>1, <1>2, <1>3, <1>4, <1>5, <1>6, <1>7 DEF BrokerStep, Submitting, Reconciling

\* The effect is found present where the row is, and is there.
LEMMA FoundIsThere ==
  ASSUME SystemInv, ReconcilePresent
  PROVE  \E o \in Operations : Recorded(broker.att, o) /\ Verify(o)
<1>1. broker.att \in Attempts /\ Row.state # Unrecorded /\ Verify(Row.op)
  BY DEF ReconcilePresent, At, Reconcilable, Unrecorded, SystemInv, BrokerInv, CallInv
<1>2. /\ journal[broker.att].state # Unrecorded
      /\ journal[broker.att].op = Row.op /\ Row.op \in Operations
  BY <1>1 DEF SystemInv, JournalFirst, Row
<1> QED BY <1>1, <1>2 DEF Recorded

\* What an Engine does by itself leaves it without the outcome.
LEMMA StepForgets ==
  ASSUME SystemInv, NEW e \in Engines, EngineStep(e)
  PROVE  \E next : Become(e, next) /\ next.reply # Present
<1>n. NoReply # Present
  BY OtherThanPresent
<1>c. \A pc : CallNext(e, pc).reply # Present
  BY <1>n, CallNextIs
<1>x. Resting.reply # Present /\ \A err : Raised(err).reply # Present
  BY OtherThanPresent DEF Raised, Resting
<1>d. Done(e).reply # Present
  <2>1. CASE engine[e].todo = {}
    BY <1>x, <2>1 DEF Done, NextOf
  <2>2. CASE engine[e].todo # {}
    <3>1. \E a : Done(e) = [Resting EXCEPT !.pc = "status", !.att = a,
                                           !.op = journal[a].op,
                                           !.todo = engine[e].todo \ {a}]
      BY <2>2 DEF Done, NextOf
    <3>2. Done(e).reply = NoReply
      BY <3>1 DEF Resting
    <3> QED BY <1>n, <3>2
  <2> QED BY <2>1, <2>2
<1>j. ASSUME NEW target, NEW result, NEW after, after.reply # Present,
             JournalCommit(e, target, result, after)
      PROVE  \E next : Become(e, next) /\ next.reply # Present
  <2>1. Become(e, after) \/ Become(e, Raised("InvalidTransition"))
    BY <1>j DEF JournalCommit
  <2> QED BY <1>j, <1>x, <2>1
<1>1. CASE StatusUnknown(e) \/ StatusAccepted(e) \/ StatusDispatched(e) \/ ReceiptInFlight(e)
  BY <1>1, <1>c DEF StatusUnknown, StatusAccepted, StatusDispatched, ReceiptInFlight
<1>2. CASE StatusSettled(e) \/ ReconciledPresent(e) \/ ReconciledUncertain(e)
           \/ Confirmed(e) \/ Unconfirmed(e)
  BY <1>2, <1>d, <1>j
  DEF StatusSettled, ReconciledPresent, ReconciledUncertain, Confirmed, Unconfirmed
<1>3. CASE ReconciledRetry(e) \/ MarkDelivered(e) \/ SubmitRejected(e)
  BY <1>3, <1>c, <1>j, <1>x DEF ReconciledRetry, MarkDelivered, SubmitRejected
<1>4. CASE CallRaises(e) \/ ReceiptUnexpected(e) \/ Report(e)
  BY <1>4, <1>x DEF CallRaises, ReceiptUnexpected, Report
<1>5. CASE ReceiptDelivered(e)
  <2>1. PICK next : /\ Become(e, next)
                    /\ \E pc \in {"deliver", "confirm"} :
                         next = [[engine[e] EXCEPT !.got = engine[e].reply.result,
                                                   !.reply = NoReply] EXCEPT !.pc = pc]
    BY <1>5 DEF ReceiptDelivered
  <2>2. next.reply = NoReply
    BY <2>1 DEF SystemInv, Sound, EngineType
  <2> QED BY <1>n, <2>1, <2>2
<1>6. ASSUME NEW a \in Attempts, Retry(e, a)
      PROVE  \E next : Become(e, next) /\ next.reply # Present
  <2>1. [CallNext(e, "submit") EXCEPT !.att = a].reply = CallNext(e, "submit").reply
    BY DEF CallNext, SystemInv, Sound, EngineType
  <2> QED BY <1>6, <1>c, <2>1 DEF Retry
<1> QED
  BY <1>1, <1>2, <1>3, <1>4, <1>5, <1>6 DEF EngineStep, Recovering, Consuming

\* An Engine that has the outcome has had it, or is given it now.
LEMMA PresentComes ==
  ASSUME SystemInv, Next, NEW e \in Engines, engine'[e].reply = Present
  PROVE  \/ engine'[e] = engine[e]
         \/ /\ Respond /\ serving = e /\ broker.reply = Present
            /\ engine'[e] = [engine[e] EXCEPT !.reply = Present]
<1>t. engine \in [Engines -> EngineType] /\ broker.reply \in Replies
  BY DEF SystemInv, TypeOK, BrokerTypeOK, ProcessType
<1>a. ASSUME NEW x \in Engines, NEW r, engine' = Answers(x, r)
      PROVE  \/ engine'[e] = engine[e]
             \/ x = e /\ r = Present /\ engine'[e] = [engine[e] EXCEPT !.reply = Present]
  <2>1. CASE x = e
    <3>1. engine'[e] = [engine[e] EXCEPT !.reply = r]
      BY <1>t, <1>a, <2>1 DEF Answers
    <3>2. engine'[e].reply = r
      BY <1>t, <3>1 DEF EngineType
    <3> QED BY <2>1, <3>1, <3>2
  <2>2. CASE x # e
    BY <1>t, <1>a, <2>2 DEF Answers
  <2> QED BY <2>1, <2>2
<1>b. ASSUME NEW x \in Engines, NEW next, Become(x, next), next.reply # Present
      PROVE  engine'[e] = engine[e]
  BY <1>t, <1>b DEF Become
<1>f. \A err : Failure(err) # Present
  BY OtherThanPresent
<1>1. CASE BrokerWorks \/ BrokerStart \/ HangUp \/ OutsideEdit
           \/ (CallFails /\ UNCHANGED <<engineVars, serving>>)
           \/ \E x \in Engines : Connect(x)
  BY <1>1 DEF BrokerWorks, BrokerStart, HangUp, OutsideEdit, Connect, engineVars
<1>2. CASE Respond
  <2>1. serving \in Engines
    BY <1>2 DEF Respond, SystemInv, TypeOK
  <2>2. engine' = Answers(serving, Transported(broker.reply))
    BY <1>2 DEF Respond
  <2> QED BY <1>2, <1>a, <1>t, <2>1, <2>2, PresentArrives
<1>3. CASE BrokerCrash
  BY <1>3, <1>a, <1>f DEF BrokerCrash, SystemInv, TypeOK
<1>4. ASSUME NEW x \in Engines, TooLarge(x) \/ ConnectionRefused(x)
      PROVE  engine'[e] = engine[e]
  BY <1>4, <1>a, <1>f DEF TooLarge, ConnectionRefused
<1>r. Resting.reply = NoReply /\ NoReply # Present
  BY OtherThanPresent DEF Resting
<1>5. ASSUME NEW x \in Engines, EngineCrash(x)
      PROVE  engine'[e] = engine[e]
  BY <1>5, <1>b, <1>r DEF EngineCrash
<1>6. ASSUME NEW x \in Engines, EngineWorks(x)
      PROVE  engine'[e] = engine[e]
  BY <1>6, <1>b, StepForgets DEF EngineWorks
<1>7. ASSUME NEW x \in Engines, Recovery(x)
      PROVE  engine'[e] = engine[e]
  <2>1. \E a : NextOf(Pending) = [Resting EXCEPT !.pc = "status", !.att = a,
                                     !.op = journal[a].op, !.todo = Pending \ {a}]
    BY <1>7 DEF Recovery, Recover, NextOf
  <2>2. NextOf(Pending).reply = NoReply
    BY <2>1 DEF Resting
  <2> QED BY <1>7, <1>b, <1>r, <2>2 DEF Recovery, Recover
<1>8. ASSUME NEW x \in Engines, NEW a \in Attempts, NEW o \in Operations, Execute(x, a, o)
      PROVE  engine'[e] = engine[e]
  <2>1. [Resting EXCEPT !.pc = "submit", !.att = a, !.op = o].reply = NoReply
    BY DEF Resting
  <2> QED BY <1>8, <1>b, <1>r, <2>1 DEF Execute
<1> QED
  BY <1>1, <1>2, <1>3, <1>4, <1>5, <1>6, <1>7, <1>8
  DEF Next, Progress, Fault, Request

\* A Broker that answers so has answered so, or looks now.
LEMMA PresentIsFound ==
  ASSUME SystemInv, Next, Finding
  PROVE  /\ broker' = broker \/ ReconcilePresent
         /\ broker'.att = broker.att
         /\ ~Replace
<1>t. broker \in ProcessType
  BY DEF SystemInv, BrokerInv, BrokerTypeOK
<1>1. ASSUME BrokerStep \/ CallFails
      PROVE  ReconcilePresent
  BY <1>1, OnlyReconcileFinds DEF SystemInv
<1>2. ~(BrokerStart \/ HangUp \/ Respond \/ BrokerCrash \/ \E e \in Engines : TooLarge(e))
  BY DEF BrokerStart, Start, HangUp, ReplyBroken, Respond, Reply, BrokerCrash, Kill, TooLarge,
         Idle, Down, Finding
<1>3. ASSUME NEW e \in Engines, Connect(e)
      PROVE  FALSE
  <2>1. CallName(engine[e].pc) \in {"submit", "status", "reconcile"}
    BY <1>3 DEF Connect, Waiting, Calls, CallName
  <2>2. broker'.pc = CallName(engine[e].pc)
    BY <1>3 DEF Connect, Receive, Idle
  <2> QED BY <2>1, <2>2 DEF Finding
<1>4. broker' = broker \/ ReconcilePresent
  BY <1>1, <1>2, <1>3
  DEF Next, Progress, Fault, BrokerWorks, OutsideEdit, Edits, Edit, ConnectionRefused,
      EngineCrash, EngineWorks, Request, Recovery, brokerVars
<1>5. ASSUME ReconcilePresent
      PROVE  broker'.att = broker.att
  BY <1>5, <1>t, AnsweredKeeps DEF ReconcilePresent, Commit
<1>6. ~Replace
  BY <1>t DEF Replace, ProcessType, Finding
<1> QED BY <1>4, <1>5, <1>6

LEMMA VerifiedStays ==
  ASSUME Undisturbed, SystemInv, Next, ~Replace, NEW o \in Operations, Verify(o)
  PROVE  Verify(o)'
BY BrokerPart, FilesStay DEF SystemInv, Verify, Exists

LEMMA PresentStep ==
  ASSUME Undisturbed, SystemInv, AgreeInv, PresentInv, Next
  PROVE  PresentInv'
<1>k. RowsKept /\ SystemInv'
  BY EnginePart, SystemStep DEF EnginesKept
<1>1. ASSUME Finding
      PROVE  \E o \in Operations : Recorded(broker.att, o)' /\ Verify(o)'
  <2>1. PICK o \in Operations : Recorded(broker.att, o) /\ Verify(o)
    <3>1. CASE broker' = broker
      BY <1>1, <3>1 DEF PresentInv, At, Finding
    <3>2. CASE ReconcilePresent
      BY <3>2, FoundIsThere
    <3> QED BY <1>1, <3>1, <3>2, PresentIsFound
  <2>2. Verify(o)'
    BY <1>1, <2>1, PresentIsFound, VerifiedStays
  <2>3. broker'.att = broker.att
    BY <1>1, PresentIsFound
  <2> QED BY <1>k, <2>1, <2>2, <2>3 DEF RowsKept, Recorded
<1>2. ASSUME NEW e \in Engines, engine'[e].reply = Present, Works(engine'[e])
      PROVE  \E o \in Operations : o = engine'[e].op /\ Verify(o)'
  <2>1. CASE engine'[e] = engine[e]
    <3>1. Active(e) /\ ~Waiting(e)
      BY <1>2, <2>1, OtherThanPresent DEF Works, Active, Waiting
    <3>2. ~Replace
      BY <3>1 DEF AgreeInv, KnowsInv, Free, Replace, At
    <3>3. PICK o \in Operations : o = engine[e].op /\ Verify(o)
      BY <1>2, <2>1 DEF PresentInv, SystemInv, Sound, Recorded
    <3> QED BY <2>1, <3>2, <3>3, VerifiedStays
  <2>2. CASE /\ Respond /\ serving = e /\ broker.reply = Present
             /\ engine'[e] = [engine[e] EXCEPT !.reply = Present]
    <3>1. PICK o \in Operations : Recorded(broker.att, o) /\ Verify(o)
      BY <2>2 DEF PresentInv, Respond, Reply
    <3>2. ~Replace
      BY <2>2 DEF Respond, Reply, Replace, At
    <3>3. engine[e] \in EngineType
      BY DEF SystemInv, Sound
    <3>4. engine'[e].op = engine[e].op /\ Works(engine[e])
      BY <1>2, <2>2, <3>3 DEF EngineType, Works
    <3>5. engine[e].op = o
      BY <2>2, <3>1, <3>4, EnginesAssumption
      DEF SystemInv, Sound, Recorded, AgreeInv, ServingInv
    <3> QED BY <3>1, <3>2, <3>4, <3>5, VerifiedStays
  <2> QED BY <1>2, <2>1, <2>2, PresentComes
<1>3. ASSUME NEW e \in Engines, engine'[e].reply = Present, Works(engine'[e])
      PROVE  Verify(engine[e].op)'
  BY <1>2, <1>3 DEF Verify, Exists
<1> QED BY <1>1, <1>3 DEF PresentInv, Finding, At, Works

-----------------------------------------------------------------------------
(* What happens to the journal. *)

\* The journal takes the pending attempt a to the state target.
Moved(a, target) ==
  /\ a \in Pending
  /\ journal' = [journal EXCEPT ![a] = journal'[a]]
  /\ journal'[a].state = target
  /\ journal'[a].op = journal[a].op
  /\ target \in Targets
  /\ target = "VERIFIED" => Verify(journal[a].op)

LEMMA CommitMoves ==
  ASSUME AgreeInv, NEW e \in Engines, Works(engine[e]), engine[e].pc # "retry",
         NEW target \in Targets, NEW result, NEW after,
         JournalCommit(e, target, result, after),
         target = "VERIFIED" => Verify(engine[e].op)
  PROVE  UNCHANGED journal \/ Moved(engine[e].att, target)
<1> DEFINE a == engine[e].att
<1>1. /\ a \in Attempts /\ a \in Pending /\ journal[a].op = engine[e].op
      /\ journal \in [Attempts -> JournalType]
  BY DEF AgreeInv, WorkInv, SystemInv, TypeOK, Sound, Recorded
<1>2. CASE target \in EngineTransitions(journal[a].state)
  <2>1. journal' = [journal EXCEPT ![a].state  = target,
                                   ![a].result = Coalesce(NoResult, result, @)]
    BY <1>2 DEF JournalCommit
  <2>2. journal'[a].state = target /\ journal'[a].op = journal[a].op
    BY <1>1, <2>1 DEF JournalType
  <2> QED BY <1>1, <2>1, <2>2 DEF Moved
<1>3. CASE target \notin EngineTransitions(journal[a].state)
  BY <1>3 DEF JournalCommit
<1> QED BY <1>2, <1>3

\* What an Engine does by itself to the journal.
LEMMA StepMoves ==
  ASSUME AgreeInv, PresentInv, NEW e \in Engines, EngineStep(e)
  PROVE  \/ UNCHANGED journal
         \/ \E a \in Attempts : Retry(e, a)
         \/ \E a \in Attempts, target \in Targets : Moved(a, target)
<1> DEFINE p == engine[e]
<1>s. SystemInv /\ p.reply \in Replies
  BY DEF AgreeInv, SystemInv, Sound, EngineType
<1>w. ~Waiting(e) /\ (Works(p) => p.att \in Attempts)
  BY <1>s, StepsAreAnswered DEF SystemInv, Sound, Recorded
<1>c. ASSUME Works(p), p.pc # "retry", NEW target \in Targets, NEW result, NEW after,
             JournalCommit(e, target, result, after),
             target = "VERIFIED" => Verify(p.op)
      PROVE  UNCHANGED journal \/ \E a \in Attempts, t \in Targets : Moved(a, t)
  BY <1>c, <1>w, CommitMoves
<1>1. CASE StatusSettled(e)
  <2>1. /\ Works(p) /\ p.pc = "status" /\ p.reply.tag = "receipt"
        /\ JournalCommit(e, Value(e), NoResult, Done(e))
        /\ Value(e) \notin {"ACCEPTED", "IN_FLIGHT", "DELIVERY_ATTEMPTED"}
    BY <1>1 DEF StatusSettled, Got, Works
  <2>2. Value(e) = StateOf(p)
    BY <1>w, <2>1 DEF AgreeInv, KnowsInv, Truthful, Value, Calls
  <2>3. Value(e) \in Entered /\ Value(e) \in BrokerState
    BY <1>s, <1>w, <2>1, <2>2, ReceiptIsRecorded DEF AgreeInv, StateOf, Value
  <2>4. Value(e) \in Targets \ {"VERIFIED"}
    BY <2>1, <2>3 DEF Entered, Targets, BrokerState, Unrecorded
  <2> QED BY <1>c, <2>1, <2>4
<1>2. CASE ReconciledPresent(e) \/ Confirmed(e)
  <2>1. Works(p) /\ p.pc \in {"reconcile", "confirm"} /\ p.reply = Present
    BY <1>2, <1>s, PresentArrives DEF ReconciledPresent, Confirmed, Got, Value, Works
  <2>2. Verify(p.op)
    BY <2>1 DEF PresentInv
  <2>3. \E result, after : JournalCommit(e, "VERIFIED", result, after)
    BY <1>2 DEF ReconciledPresent, Confirmed
  <2> QED BY <1>c, <2>1, <2>2, <2>3 DEF Targets
<1>3. CASE ReconciledRetry(e) \/ ReconciledUncertain(e) \/ Unconfirmed(e)
           \/ SubmitRejected(e) \/ MarkDelivered(e)
  <2>1. Works(p) /\ p.pc # "retry"
    BY <1>3 DEF ReconciledRetry, ReconciledUncertain, Unconfirmed, SubmitRejected,
                MarkDelivered, Got, Works
  <2>2. \E target \in Targets \ {"VERIFIED"} : \E result, after :
          JournalCommit(e, target, result, after)
    BY <1>3 DEF ReconciledRetry, ReconciledUncertain, Unconfirmed, SubmitRejected,
                MarkDelivered, Targets
  <2> QED BY <1>c, <2>1, <2>2
<1>4. CASE StatusUnknown(e) \/ StatusAccepted(e) \/ StatusDispatched(e) \/ CallRaises(e)
           \/ ReceiptDelivered(e) \/ ReceiptInFlight(e) \/ ReceiptUnexpected(e) \/ Report(e)
  BY <1>4 DEF StatusUnknown, StatusAccepted, StatusDispatched, CallRaises, ReceiptDelivered,
              ReceiptInFlight, ReceiptUnexpected, Report
<1> QED
  BY <1>1, <1>2, <1>3, <1>4 DEF EngineStep, Recovering, Consuming

\* A step that changes the journal changes nothing that the Broker has.
LEMMA JournalSteps ==
  ASSUME AgreeInv, PresentInv, Next
  PROVE  \/ UNCHANGED journal
         \/ /\ UNCHANGED brokerVars
            /\ \/ \E e \in Engines, a \in Attempts, o \in Operations : Execute(e, a, o)
               \/ \E e \in Engines, a \in Attempts : Retry(e, a)
               \/ \E a \in Attempts, target \in Targets : Moved(a, target)
<1>1. ASSUME NEW e \in Engines, EngineWorks(e)
      PROVE  /\ UNCHANGED brokerVars
             /\ \/ UNCHANGED journal
                \/ \E a \in Attempts : Retry(e, a)
                \/ \E a \in Attempts, target \in Targets : Moved(a, target)
  BY <1>1, StepMoves DEF EngineWorks
<1>2. CASE \E e \in Engines : Request(e)
  BY <1>2 DEF Request
<1> QED
  BY <1>1, <1>2
  DEF Next, Progress, Fault, BrokerWorks, BrokerStart, Respond, HangUp, Recovery, Recover,
      Connect, TooLarge, ConnectionRefused, BrokerCrash, EngineCrash, OutsideEdit, engineVars

LEMMA FreshStep ==
  ASSUME SystemInv, AgreeInv, PresentInv, FreshInv, Next
  PROVE  FreshInv'
<1>t. journal \in [Attempts -> JournalType]
  BY DEF SystemInv, TypeOK
<1>1. ASSUME NEW a \in Attempts, NEW o, Prepare(a, o)
      PROVE  FreshInv'
  BY <1>t, <1>1 DEF Prepare, FreshInv, Unrecorded
<1>2. ASSUME NEW a \in Attempts, NEW target \in Targets, Moved(a, target)
      PROVE  FreshInv'
  BY <1>t, <1>2 DEF Moved, FreshInv, Targets, Unrecorded
<1> QED BY <1>1, <1>2, JournalSteps DEF Execute, Retry, FreshInv

-----------------------------------------------------------------------------
(* What a journal says of an operation. *)

Ended == {"VERIFIED", "REJECTED", "UNCERTAIN"}

\* The name that the contract has for the end of an attempt.
Named(state) ==
  CASE state = "VERIFIED"  -> "verified"
    [] state = "REJECTED"  -> "rejected"
    [] state = "UNCERTAIN" -> "uncertain"

\* Phase, of any journal.
StatesIn(j, o) == {j[a].state : a \in {b \in Attempts : j[b].op = o}}

PhaseIn(j, o) ==
  LET states == StatesIn(j, o)
  IN  IF states = {} THEN "none"
      ELSE IF "VERIFIED" \in states THEN "verified"
      ELSE IF "REJECTED" \in states THEN "rejected"
      ELSE IF "UNCERTAIN" \in states THEN "uncertain"
      ELSE "pending"

LEMMA PhaseIsIn ==
  ASSUME NEW o
  PROVE  Phase(o) = PhaseIn(journal, o) /\ Phase(o)' = PhaseIn(journal', o)
BY DEF Phase, PhaseIn, StatesOf, StatesIn

LEMMA NonePhase ==
  ASSUME NEW j, NEW o, \A b \in Attempts : j[b].op # o
  PROVE  PhaseIn(j, o) = "none"
BY DEF PhaseIn, StatesIn

\* An operation is pending while no attempt at it has ended.
LEMMA PendingPhase ==
  ASSUME NEW j, NEW o, NEW a \in Attempts, j[a].op = o,
         \A b \in Attempts : j[b].op = o => j[b].state \notin Ended
  PROVE  PhaseIn(j, o) = "pending"
BY DEF PhaseIn, StatesIn, Ended

\* It ends as the only one that has ended does.
LEMMA EndedPhase ==
  ASSUME NEW j, NEW o, NEW a \in Attempts, j[a].op = o, j[a].state \in Ended,
         \A b \in Attempts : b # a /\ j[b].op = o => j[b].state \notin Ended
  PROVE  PhaseIn(j, o) = Named(j[a].state)
<1>1. \A s \in Ended : s \in StatesIn(j, o) <=> s = j[a].state
  BY DEF StatesIn
<1> QED BY <1>1 DEF PhaseIn, Ended, Named

\* Its phase does not tell apart the states in which an attempt goes on.
LEMMA SamePhase ==
  ASSUME NEW i, NEW j, NEW o,
         \A b \in Attempts : i[b].op = o <=> j[b].op = o,
         \A b \in Attempts : i[b].op = o =>
           i[b].state = j[b].state \/ {i[b].state, j[b].state} \cap Ended = {}
  PROVE  PhaseIn(i, o) = PhaseIn(j, o)
<1>1. StatesIn(i, o) = {} <=> StatesIn(j, o) = {}
  BY DEF StatesIn
<1>2. ASSUME NEW s \in Ended
      PROVE  s \in StatesIn(i, o) <=> s \in StatesIn(j, o)
  BY <1>2 DEF StatesIn
<1> QED BY <1>1, <1>2 DEF PhaseIn, Ended

-----------------------------------------------------------------------------
(* Attempts beside a live one. *)

\* Beside an attempt that is not superseded, no other one has ended or has had
\* an effect; where all are superseded, none has.
LEMMA SupersededIsNeutral ==
  ASSUME AgreeInv, NEW order, StandingInv(order), NEW b \in Attempts,
         ledger[b].state = "SUPERSEDED"
  PROVE  journal[b].state \notin Ended /\ applied[b] = 0
<1>1. ledger[b].state \in Compatible(journal[b].state)
  BY DEF AgreeInv, JournalAgreesWithLedger
<1>2. journal[b].state \notin Ended
  BY <1>1 DEF Ended, Compatible, Unrecorded
<1>3. applied[b] \in Nat /\ ~(applied[b] > 0)
  BY DEF StandingInv, AgreeInv, SystemInv, BrokerInv, BrokerTypeOK
<1> QED BY <1>2, <1>3

LEMMA OthersAreNeutral ==
  ASSUME AgreeInv, OneLiveAttempt, NEW order, StandingInv(order),
         NEW a \in Attempts, ledger[a].state # "SUPERSEDED", journal[a].op # NoOperation
  PROVE  \A b \in Attempts : b # a /\ journal[b].op = journal[a].op =>
           journal[b].state \notin Ended /\ applied[b] = 0
BY SupersededIsNeutral DEF OneLiveAttempt

-----------------------------------------------------------------------------
(* Steps of the contract. *)

LEMMA MoveIsStep ==
  ASSUME NEW o \in Operations, NEW from, NEW to,
         Phase(o) = from, Phase(o)' = to,
         \A x \in Operations : x # o => Phase(x)' = Phase(x)
  PROVE  Operation!Move(o, from, to)
BY DEF Operation!Move

LEMMA SameIsStutter ==
  ASSUME \A o \in Operations : Phase(o)' = Phase(o),
         \A o \in Operations : ChangedBy(o)' = ChangedBy(o),
         UNCHANGED files
  PROVE  UNCHANGED Operation!vars
<1>1. UNCHANGED [o \in Operations |-> Phase(o)]
  OBVIOUS
<1>2. UNCHANGED [o \in Operations |-> Cardinality(ChangedBy(o))]
  OBVIOUS
<1> QED BY <1>1, <1>2 DEF Operation!vars

LEMMA ChangesStay ==
  ASSUME UNCHANGED brokerVars
  PROVE  /\ UNCHANGED [o \in Operations |-> Cardinality(ChangedBy(o))]
         /\ \A o \in Operations : ChangedBy(o)' = ChangedBy(o)
         /\ UNCHANGED files
<1>1. \A o \in Operations : ChangedBy(o)' = ChangedBy(o)
  BY DEF ChangedBy, brokerVars
<1> QED BY <1>1 DEF brokerVars

\* A request is asked for.
LEMMA ExecuteAsks ==
  ASSUME SystemInv, FreshInv, UNCHANGED brokerVars,
         NEW e \in Engines, NEW a \in Attempts, NEW o \in Operations, Execute(e, a, o)
  PROVE  [Operation!Next]_(Operation!vars)
<1>1. /\ journal'[a].state = "PREPARED" /\ journal'[a].op = o
      /\ \A b \in Attempts : b # a => journal'[b] = journal[b]
      /\ \A b \in Attempts : journal[b].op # o
      /\ journal[a].op = NoOperation
  BY DEF Execute, Prepare, FreshInv, SystemInv, TypeOK
<1>2. Phase(o) = "none"
  BY <1>1, PhaseIsIn, NonePhase
<1>3. Phase(o)' = "pending"
  BY <1>1, PhaseIsIn, PendingPhase DEF Ended
<1>4. ASSUME NEW x \in Operations, x # o
      PROVE  Phase(x)' = Phase(x)
  <2>1. \A b \in Attempts : journal'[b].op = x <=> journal[b].op = x
    BY <1>1, <1>4, OperationsAssumption
  <2>2. \A b \in Attempts : journal'[b].op = x => journal'[b].state = journal[b].state
    BY <1>1, <1>4
  <2>3. PhaseIn(journal', x) = PhaseIn(journal, x)
    BY <2>1, <2>2, SamePhase
  <2> QED BY <2>3, PhaseIsIn
<1>5. Operation!Ask(o)
  BY <1>2, <1>3, <1>4, ChangesStay, MoveIsStep DEF Operation!Ask
<1> QED BY <1>5 DEF Operation!Next

\* A retry goes on with what is pending.
LEMMA RetryGoesOn ==
  ASSUME RetryInv, AgreeInv, FreshInv, NEW order, StandingInv(order), UNCHANGED brokerVars,
         NEW e \in Engines, NEW a \in Attempts, Retry(e, a)
  PROVE  [Operation!Next]_(Operation!vars)
<1> DEFINE o == engine[e].op
<1>1. Works(engine[e]) /\ Over(o) /\ o \in Operations
      /\ \E b \in Attempts : journal[b].op = o
  BY DEF Retry, RetryInv, GrantInv, Holds, SystemInv, Sound, Works, Recorded
<1>2. /\ journal'[a].state = "PREPARED" /\ journal'[a].op = o
      /\ \A b \in Attempts : b # a => journal'[b] = journal[b]
      /\ journal[a].op = NoOperation
  BY DEF Retry, Prepare, FreshInv, RetryInv, SystemInv, TypeOK
<1>3. \A b \in Attempts : journal[b].op = o => journal[b].state \notin Ended
  BY <1>1, SupersededIsNeutral DEF Over
<1>4. PhaseIn(journal, o) = "pending"
  BY <1>1, <1>3, PendingPhase
<1>5. PhaseIn(journal', o) = "pending"
  <2>1. \A b \in Attempts : journal'[b].op = o => journal'[b].state \notin Ended
    BY <1>2, <1>3 DEF Ended
  <2> QED BY <1>2, <2>1, PendingPhase
<1>6. ASSUME NEW x \in Operations, x # o
      PROVE  PhaseIn(journal', x) = PhaseIn(journal, x)
  <2>1. \A b \in Attempts : journal'[b].op = x <=> journal[b].op = x
    BY <1>2, <1>6, OperationsAssumption
  <2>2. \A b \in Attempts : journal'[b].op = x => journal'[b].state = journal[b].state
    BY <1>2, <1>6
  <2> QED BY <2>1, <2>2, SamePhase
<1>7. \A x \in Operations : Phase(x)' = Phase(x)
  BY <1>4, <1>5, <1>6, PhaseIsIn
<1> QED BY <1>7, ChangesStay, SameIsStutter

\* An attempt goes on, and so does its operation; or it ends as the only one.
LEMMA MovedIsStep ==
  ASSUME RetryInv, AgreeInv, AgreeInv', NEW order, StandingInv(order),
         UNCHANGED brokerVars,
         NEW a \in Attempts, NEW target \in Targets, Moved(a, target)
  PROVE  [Operation!Next]_(Operation!vars)
<1>t. journal \in [Attempts -> JournalType]
  BY DEF RetryInv, SystemInv, TypeOK
<1>o. PICK o \in Operations : o = journal[a].op
  BY DEF Moved, Pending, RetryInv, SystemInv, Unrecorded
<1>1. /\ journal[a].state \in {"PREPARED", "DELIVERY_ATTEMPTED"}
      /\ journal'[a].state = target /\ journal'[a].op = o
      /\ \A b \in Attempts : b # a => journal'[b] = journal[b]
      /\ target = "VERIFIED" => Verify(o)
  BY <1>t, <1>o DEF Moved, Pending
<1>2. o = journal[a].op /\ o # NoOperation
  BY <1>o, OperationsAssumption
<1>3. ASSUME NEW x \in Operations, x # o \/ target \notin Ended
      PROVE  Phase(x)' = Phase(x)
  <2>1. \A b \in Attempts : journal'[b].op = x <=> journal[b].op = x
    BY <1>1, <1>2
  <2>2. \A b \in Attempts : journal'[b].op = x =>
          \/ journal'[b].state = journal[b].state
          \/ {journal'[b].state, journal[b].state} \cap Ended = {}
    BY <1>1, <1>2, <1>3 DEF Ended
  <2>3. PhaseIn(journal', x) = PhaseIn(journal, x)
    BY <2>1, <2>2, SamePhase
  <2> QED BY <2>3, PhaseIsIn
<1>4. CASE target \notin Ended
  BY <1>3, <1>4, ChangesStay, SameIsStutter
<1>5. CASE target \in Ended
  <2>1. ledger[a].state \in Compatible(target)
    BY <1>1 DEF AgreeInv, JournalAgreesWithLedger, brokerVars
  <2>2. ledger[a].state # "SUPERSEDED"
    BY <1>5, <2>1 DEF Ended, Compatible, Unrecorded
  <2>3. \A b \in Attempts : b # a /\ journal[b].op = o =>
          journal[b].state \notin Ended /\ applied[b] = 0
    BY <1>2, <2>2, OthersAreNeutral DEF RetryInv
  <2>4. Phase(o) = "pending"
    <3>1. \A b \in Attempts : journal[b].op = o => journal[b].state \notin Ended
      BY <1>1, <2>3 DEF Ended
    <3> QED BY <1>2, <3>1, PhaseIsIn, PendingPhase
  <2>5. Phase(o)' = Named(target)
    <3>1. \A b \in Attempts : b # a /\ journal'[b].op = o => journal'[b].state \notin Ended
      BY <1>1, <2>3
    <3>2. PhaseIn(journal', o) = Named(journal'[a].state)
      BY <1>1, <1>5, <3>1, EndedPhase
    <3> QED BY <1>1, <3>2, PhaseIsIn
  <2>6. Operation!Move(o, "pending", Named(target))
    BY <1>3, <2>4, <2>5, MoveIsStep
  <2>7. CASE target = "VERIFIED"
    <3>1. Params[o].action \in {"read_file", "write_file_atomic"} /\ Verify(o)
      BY <1>1, <2>7, ParamsAssumption DEF ActionParams
    <3>2. Operation!Verify(o)
      BY <2>6, <2>7, <3>1, ChangesStay
      DEF Operation!Verify, Operation!Writes, Operation!File, Verify, Exists, Named
    <3> QED BY <3>2 DEF Operation!Next
  <2>8. CASE target = "REJECTED"
    <3>1. ledger[a].state \in {Unrecorded, "ACCEPTED", "REJECTED"}
      BY <2>1, <2>8 DEF Compatible, Unrecorded
    <3>2. ChangedBy(o) = {}
      <4>1. applied[a] = 0
        BY <3>1 DEF RetryInv, SystemInv, BrokerInv, RowInv
      <4>2. \A b \in Attempts : applied[b] > 0 => journal[b].op = ledger[b].op
        BY DEF RetryInv, SystemInv, BrokerInv, RowInv, JournalFirst
      <4> QED BY <1>2, <2>3, <4>1, <4>2 DEF ChangedBy
    <3>3. Cardinality(ChangedBy(o)) = 0
      BY <3>2, FS_EmptySet
    <3>4. Operation!Reject(o)
      BY <2>6, <2>8, <3>3, ChangesStay DEF Operation!Reject, Named
    <3> QED BY <3>4 DEF Operation!Next
  <2>9. CASE target = "UNCERTAIN"
    <3>1. Operation!GiveUp(o)
      BY <2>6, <2>9, ChangesStay DEF Operation!GiveUp, Named
    <3> QED BY <3>1 DEF Operation!Next
  <2> QED BY <1>5, <2>7, <2>8, <2>9 DEF Ended
<1> QED BY <1>4, <1>5

\* A replacement is the compare-and-swap of its operation.
LEMMA ReplaceSwaps ==
  ASSUME RetryInv, AgreeInv, CheckedInv, NEW order, StandingInv(order),
         UNCHANGED journal, Replace
  PROVE  [Operation!Next]_(Operation!vars)
<1>b. BrokerInv /\ SystemInv
  BY DEF RetryInv, SystemInv
<1>1. PICK a \in Attempts : a = broker.att
  BY <1>b DEF Replace, At, BrokerInv, CallInv
<1>2. PICK o \in Operations : o = broker.op
  BY <1>b, AttemptOfCall, <1>1
  DEF Replace, At, BrokerInv, CallInv, RowInv, InFlight, Executing, Row, Unrecorded
<1>3. /\ ledger[a].state = "IN_FLIGHT" /\ ledger[a].op = o
      /\ applied[a] = 0
      /\ Params[o].action = "write_file_atomic"
      /\ PriorMatches(o) /\ TargetFree(o)
  BY <1>b, <1>1, <1>2
  DEF Replace, At, BrokerInv, CallInv, InFlight, Executing, Row, CheckedInv
<1>4. /\ journal[a].op = o /\ o # NoOperation
      /\ journal[a].state \notin Ended
  <2>1. ledger[a].state \in Compatible(journal[a].state)
    BY DEF AgreeInv, JournalAgreesWithLedger
  <2>2. journal[a].state \notin Ended
    BY <1>3, <2>1 DEF Ended, Compatible, Unrecorded
  <2>3. journal[a].op = ledger[a].op
    BY <1>b, <1>3 DEF SystemInv, JournalFirst, Unrecorded
  <2> QED BY <1>3, <2>2, <2>3, OperationsAssumption
<1>5. \A b \in Attempts : b # a /\ journal[b].op = o =>
        journal[b].state \notin Ended /\ applied[b] = 0
  BY <1>3, <1>4, OthersAreNeutral DEF RetryInv
<1>6. Phase(o) = "pending"
  <2>1. \A b \in Attempts : journal[b].op = o => journal[b].state \notin Ended
    BY <1>4, <1>5
  <2> QED BY <1>4, <2>1, PhaseIsIn, PendingPhase
<1>7. UNCHANGED [x \in Operations |-> Phase(x)]
  <2>1. \A x \in Operations : Phase(x)' = Phase(x)
    BY DEF Phase, StatesOf
  <2> QED BY <2>1
<1>8. /\ applied \in [Attempts -> Nat] /\ files \in [Paths -> Contents \cup {Absent}]
      /\ applied' = [applied EXCEPT ![a] = 1] /\ UNCHANGED ledger
      /\ files' = [files EXCEPT ![Params[o].path] = Params[o].content]
  BY <1>b, <1>1, <1>2, <1>3 DEF Replace, BrokerInv, BrokerTypeOK
<1>9. \A b \in Attempts : applied[b] > 0 => journal[b].op = ledger[b].op
  BY <1>b DEF SystemInv, BrokerInv, RowInv, JournalFirst
<1>10. ChangedBy(o) = {} /\ ChangedBy(o)' = {a}
  <2>1. ASSUME NEW b \in Attempts, b # a, ledger[b].op = o
        PROVE  ~(applied[b] > 0) /\ ~(applied'[b] > 0)
    BY <1>5, <1>8, <1>9, <2>1
  <2>2. ~(applied[a] > 0) /\ applied'[a] > 0
    BY <1>3, <1>8
  <2> QED BY <1>3, <1>8, <2>1, <2>2 DEF ChangedBy
<1>11. \A x \in Operations : x # o => ChangedBy(x)' = ChangedBy(x)
  BY <1>3, <1>8 DEF ChangedBy
<1>12. Cardinality(ChangedBy(o)) = 0 /\ Cardinality(ChangedBy(o)') = 1
  BY <1>10, FS_EmptySet, FS_Singleton
<1>13. [x \in Operations |-> Cardinality(ChangedBy(x))]' =
         [[x \in Operations |-> Cardinality(ChangedBy(x))] EXCEPT ![o] = 1]
  BY <1>11, <1>12
<1>14. Operation!CompareAndSwap(o)
  BY <1>3, <1>6, <1>7, <1>8, <1>12, <1>13
  DEF Operation!CompareAndSwap, Operation!Writes, Operation!File, PriorMatches, TargetFree,
      Exists
<1> QED BY <1>14 DEF Operation!Next

\* Nothing else that leaves the journal alone is seen.
LEMMA OthersAreStutters ==
  ASSUME SystemInv, Editable = {}, Next, UNCHANGED journal, ~Replace
  PROVE  UNCHANGED Operation!vars
<1>b. BrokerInv /\ [BrokerNext]_brokerVars
  BY BrokerPart DEF SystemInv
<1>1. UNCHANGED files
  BY <1>b
  DEF BrokerNext, Call, BrokerStep, Submitting, Reconciling, Receive, Accept,
      Refuse, ReplayConflict, Resume, Duplicate, Deny, Issue, Consume,
      ConsumeExpired, Dispatch, ReadFile, CheckPrior, CheckTarget, CheckWritten,
      Raise, Deliver, ReturnReceipt, ReconcileSettled, ReconcilePresent,
      ReconcileAbsent, ReconcileRetry, ReconcileUncertain, CallFails, Reply,
      ReplyBroken, Kill, Start, Edits, brokerVars
<1>2. UNCHANGED applied
  BY <1>b, WritingSteps
  DEF Accept, Deny, Issue, Consume, Dispatch, Raise, Deliver, ReconcilePresent,
      ReconcileRetry, ReconcileUncertain, brokerVars
<1>3. ASSUME NEW a \in Attempts, applied[a] > 0
      PROVE  ledger'[a].op = ledger[a].op
  <2>1. SystemInv'
    BY SystemStep
  <2>2. journal[a].op = ledger[a].op
    BY <1>3 DEF SystemInv, BrokerInv, RowInv, JournalFirst
  <2>3. journal'[a].op = ledger'[a].op
    BY <1>2, <1>3, <2>1 DEF SystemInv, BrokerInv, RowInv, JournalFirst
  <2> QED BY <2>2, <2>3
<1>4. \A o \in Operations : ChangedBy(o)' = ChangedBy(o)
  BY <1>2, <1>3 DEF ChangedBy
<1>5. \A o \in Operations : Phase(o)' = Phase(o)
  BY DEF Phase, StatesOf
<1> QED BY <1>1, <1>4, <1>5, SameIsStutter

-----------------------------------------------------------------------------
(* The refinement. *)

LEMMA OperationInitInv ==
  ASSUME NEW order, Init
  PROVE  OperationInv(order)
<1>1. RetryInv /\ AgreeInv
  BY RetryInitInv, AgreeInit
<1>2. CheckedInv /\ StandingInv(order)
  BY DEF Init, BrokerInit, CheckedInv, StandingInv, Down, Idle, At
<1>3. PresentInv
  <2>1. Down.pc = "down" /\ Resting.reply = NoReply
    BY DEF Down, Resting
  <2> QED BY <2>1, OtherThanPresent DEF Init, BrokerInit, EngineInit, PresentInv, At
<1>4. FreshInv
  BY DEF Init, EngineInit, Unprepared, FreshInv
<1> QED BY <1>1, <1>2, <1>3, <1>4 DEF OperationInv

LEMMA OperationInvStep ==
  ASSUME Undisturbed, NEW order, Forward(order), OperationInv(order), Next, OneActive'
  PROVE  OperationInv(order)'
<1>1. RetryInv' /\ AgreeInv'
  BY RetryStep, AgreeStep DEF OperationInv
<1>2. CheckedInv' /\ StandingInv(order)'
  BY BrokerPart, CheckedStep, StandingStep DEF OperationInv, RetryInv, SystemInv
<1>3. PresentInv' /\ FreshInv'
  BY PresentStep, FreshStep DEF OperationInv, RetryInv
<1> QED BY <1>1, <1>2, <1>3 DEF OperationInv

\* As long as the Broker and the journal stay as they are, so does what is known
\* of what was written and of what was found.
LEMMA ViewKeeps ==
  ASSUME Undisturbed, NEW order, Forward(order), OperationInv(order),
         UNCHANGED <<brokerVars, journal>>,
         RetryInv', AgreeInv',
         \A e \in Engines : engine'[e] = engine[e] \/ engine'[e].reply = NoReply
  PROVE  OperationInv(order)'
<1>1. CheckedInv' /\ StandingInv(order)'
  BY CheckedStep, StandingStep DEF OperationInv, RetryInv, SystemInv
<1>2. PresentInv' /\ FreshInv'
  BY OtherThanPresent
  DEF OperationInv, PresentInv, FreshInv, brokerVars, At, Works, Recorded, Verify, Exists
<1> QED BY <1>1, <1>2 DEF OperationInv

LEMMA OperationInvStutters ==
  ASSUME Undisturbed, NEW order, Forward(order), OperationInv(order), UNCHANGED vars
  PROVE  OperationInv(order)'
<1>1. RetryInv' /\ AgreeInv'
  BY RetryStep, AgreeStutters DEF OperationInv
<1> QED BY <1>1, ViewKeeps DEF vars, engineVars

LEMMA ViewStutters ==
  ASSUME UNCHANGED <<brokerVars, journal>>
  PROVE  [Operation!Next]_(Operation!vars)
<1>1. /\ \A o \in Operations : Phase(o)' = Phase(o)
      /\ \A o \in Operations : ChangedBy(o)' = ChangedBy(o)
      /\ UNCHANGED files
  BY DEF brokerVars, Phase, StatesOf, ChangedBy
<1> QED BY <1>1, SameIsStutter

LEMMA StepIsStep ==
  ASSUME Editable = {}, NEW order, OperationInv(order), OperationInv(order)', Next
  PROVE  [Operation!Next]_(Operation!vars)
<1>i. SystemInv
  BY DEF OperationInv, RetryInv
<1>1. CASE UNCHANGED journal
  BY <1>1, <1>i, ReplaceSwaps, OthersAreStutters DEF OperationInv
<1>2. ASSUME UNCHANGED brokerVars,
             NEW e \in Engines, NEW a \in Attempts,
             Retry(e, a) \/ \E o \in Operations : Execute(e, a, o)
      PROVE  [Operation!Next]_(Operation!vars)
  BY <1>2, <1>i, ExecuteAsks, RetryGoesOn DEF OperationInv
<1>3. ASSUME UNCHANGED brokerVars,
             NEW a \in Attempts, NEW target \in Targets, Moved(a, target)
      PROVE  [Operation!Next]_(Operation!vars)
  BY <1>3, MovedIsStep DEF OperationInv
<1> QED BY <1>1, <1>2, <1>3, JournalSteps DEF OperationInv

LEMMA InitIsInit ==
  ASSUME Init
  PROVE  Operation!Init
<1>1. ASSUME NEW o \in Operations
      PROVE  Phase(o) = "none" /\ Cardinality(ChangedBy(o)) = 0
  <2>1. \A b \in Attempts : journal[b].op # o
    BY OperationsAssumption DEF Init, EngineInit, Unprepared
  <2>2. ChangedBy(o) = {}
    BY DEF Init, BrokerInit, ChangedBy
  <2> QED BY <2>1, <2>2, PhaseIsIn, NonePhase, FS_EmptySet
<1> QED BY <1>1 DEF Operation!Init

\* One Engine and the Broker, with all their crashes, retries and recoveries, make
\* of each operation one compare-and-swap and one truthful outcome, where only
\* the Broker writes the files and no write brings back what another replaced
\* (engine.py:31-142, broker.py:52-157).
THEOREM SystemImplementsOperations ==
  ASSUME OneEngine, Editable = {}, NothingRestored
  PROVE  Spec => ImplementsOperations
<1> PICK order : Forward(order)
  BY DEF NothingRestored
<1>u. Undisturbed
  BY DEF Undisturbed
<1>1. Init => Operation!Init
  BY InitIsInit
<1>2. Init => OperationInv(order)
  BY OperationInitInv
<1>3. OperationInv(order) /\ [Next]_vars => OperationInv(order)'
  <2>1. OneActive'
    BY DEF OneEngine, OneActive
  <2> QED BY <1>u, <2>1, OperationInvStep, OperationInvStutters
<1>4. OperationInv(order) /\ OperationInv(order)' /\ [Next]_vars
      => [Operation!Next]_(Operation!vars)
  BY StepIsStep, ViewStutters DEF vars, engineVars
<1> QED BY <1>1, <1>2, <1>3, <1>4, PTL DEF Spec, ImplementsOperations, Operation!Spec

-----------------------------------------------------------------------------
(* The adapter, with any number of threads. *)

\* What the adapter does is what its Engines do, or shows a status.
LEMMA AdapterSteps ==
  ASSUME McpInv, [McpNext]_mcpVars
  PROVE  \/ Next
         \/ UNCHANGED vars
         \/ /\ UNCHANGED <<brokerVars, journal, serving>>
            /\ \E e \in Engines : \E next :
                 /\ ~Waiting(e)
                 /\ Become(e, next)
                 /\ Sound(next)
                 /\ next.pc \in {"inquire", "idle"}
                 /\ next.reply = NoReply
<1>1. ASSUME NEW e \in Engines, FileTool(e) \/ RecoverTool(e) \/ ToolWorks(e)
      PROVE  Next
  BY <1>1 DEF FileTool, RecoverTool, ToolWorks, Next, Progress
<1>2. ASSUME NEW e \in Engines, StatusTool(e)
      PROVE  /\ UNCHANGED <<brokerVars, journal, serving>>
             /\ \E next : /\ ~Waiting(e) /\ Become(e, next) /\ Sound(next)
                          /\ next.pc \in {"inquire", "idle"} /\ next.reply = NoReply
  <2>1. PICK a \in Attempts : Become(e, [Resting EXCEPT !.pc = "inquire", !.att = a])
    BY <1>2 DEF StatusTool
  <2>2. PICK next : next = [Resting EXCEPT !.pc = "inquire", !.att = a]
    OBVIOUS
  <2>3. next.pc = "inquire" /\ next.todo = {} /\ next.reply = NoReply
    BY <2>2 DEF Resting
  <2>4. Sound(next) /\ ~Waiting(e)
    BY <1>2, <2>2, <2>3, NoReplyType
    DEF Sound, Works, StatusTool, Waiting, Calls, Resting, EngineType, EnginePc, Results
  <2> QED BY <1>2, <2>1, <2>2, <2>3, <2>4 DEF StatusTool
<1>3. ASSUME NEW e \in Engines, StatusShown(e)
      PROVE  /\ UNCHANGED <<brokerVars, journal, serving>>
             /\ \E next : /\ ~Waiting(e) /\ Become(e, next) /\ Sound(next)
                          /\ next.pc \in {"inquire", "idle"} /\ next.reply = NoReply
  <2>1. ~Waiting(e)
    BY <1>3, ReplyKinds DEF StatusShown, Got, Waiting
  <2>2. Resting.pc = "idle" /\ Resting.reply = NoReply
    BY DEF Resting
  <2> QED BY <1>3, <2>1, <2>2, RestingSound DEF StatusShown
<1>4. CASE AdapterCrash
  BY <1>4, CrashOfAll DEF Next, Fault
<1>5. CASE Outside
  BY <1>5, OutsideLeaves DEF McpInv, AgreeInv
<1>6. CASE UNCHANGED mcpVars
  BY <1>6 DEF mcpVars
<1> QED BY <1>1, <1>2, <1>3, <1>4, <1>5, <1>6 DEF McpNext

\* To show a status holds no grant.
LEMMA ShowKeepsRetries ==
  ASSUME RetryInv, UNCHANGED <<brokerVars, journal, serving>>,
         NEW e \in Engines, ~Waiting(e), NEW next, Sound(next), Become(e, next),
         next.pc \in {"inquire", "idle"}, next.reply = NoReply
  PROVE  RetryInv'
<1>1. SystemInv' /\ ServingInv'
  BY ShowKeeps DEF RetryInv
<1>2. engine \in [Engines -> EngineType]
  BY DEF RetryInv, SystemInv, TypeOK
<1>3. ~Holds(next)
  BY OtherThanGrant DEF Holds
<1>4. \A x \in Engines : Holds(engine'[x]) => engine'[x] = engine[x]
  BY <1>2, <1>3 DEF Become
<1>5. UNCHANGED <<ledger, broker>>
  BY DEF brokerVars
<1>6. OneLiveAttempt' /\ GrantInv'
  BY <1>4, <1>5 DEF RetryInv, OneLiveAttempt, GrantInv, Over
<1> QED BY <1>1, <1>6 DEF RetryInv

LEMMA AdapterInvStep ==
  ASSUME Undisturbed, NEW order, Forward(order), OperationInv(order), McpInv, McpInv',
         [McpNext]_mcpVars
  PROVE  OperationInv(order)'
<1>1. CASE Next
  BY <1>1, OperationInvStep DEF McpInv, AgreeInv
<1>2. CASE UNCHANGED vars
  BY <1>2, OperationInvStutters
<1>3. ASSUME UNCHANGED <<brokerVars, journal, serving>>, NEW e \in Engines, NEW next,
             ~Waiting(e), Become(e, next), Sound(next),
             next.pc \in {"inquire", "idle"}, next.reply = NoReply
      PROVE  OperationInv(order)'
  <2>1. RetryInv'
    BY <1>3, ShowKeepsRetries DEF OperationInv
  <2>2. engine \in [Engines -> EngineType]
    BY DEF OperationInv, RetryInv, SystemInv, TypeOK
  <2>3. \A x \in Engines : engine'[x] = engine[x] \/ engine'[x].reply = NoReply
    BY <1>3, <2>2 DEF Become
  <2> QED BY <1>3, <2>1, <2>3, ViewKeeps DEF McpInv
<1> QED BY <1>1, <1>2, <1>3, AdapterSteps

\* The MCP adapter and the Broker do the same for tools on any number of threads:
\* the lock that a tool holds is enough (mcp_server.py:136-363).
THEOREM AdapterImplementsOperations ==
  ASSUME Editable = {}, NothingRestored
  PROVE  McpSpec => ImplementsOperations
<1> PICK order : Forward(order)
  BY DEF NothingRestored
<1>u. Undisturbed
  BY DEF Undisturbed
<1> DEFINE Inv == McpInv /\ OperationInv(order)
<1>1. McpInit => Operation!Init
  BY InitIsInit DEF McpInit
<1>2. McpInit => Inv
  BY McpInitInv, OperationInitInv DEF McpInit
<1>3. Inv /\ [McpNext]_mcpVars => Inv'
  BY <1>u, McpStep, AdapterInvStep
<1>4. Inv /\ Inv' /\ [McpNext]_mcpVars => [Operation!Next]_(Operation!vars)
  BY AdapterSteps, StepIsStep, ViewStutters DEF vars, engineVars
<1> QED BY <1>1, <1>2, <1>3, <1>4, PTL DEF McpSpec, ImplementsOperations, Operation!Spec

-----------------------------------------------------------------------------
(* Any number of Engines, and nothing asked of those who edit files. *)

\* The Broker has sent it and will not send it again.
Sent == {"DELIVERY_ATTEMPTED", "UNCERTAIN"}

\* What was found present, and what is verified for it, was sent.
FoundInv ==
  /\ At("reply") /\ broker.reply = Present =>
       broker.att \in Attempts /\ ledger[broker.att].state \in Sent
  /\ \A e \in Engines : engine[e].reply = Present /\ Works(engine[e]) =>
       StateOf(engine[e]) \in Sent
  /\ \A a \in Attempts : journal[a].state = "VERIFIED" => ledger[a].state \in Sent

\* The Broker moves rows only in a call.
LEMMA RowsMoveInCalls ==
  ASSUME SystemInv, Next
  PROVE  UNCHANGED ledger \/ BrokerStep \/ CallFails
BY DEF Next, Progress, Fault, BrokerWorks, BrokerStart, Start, Respond, Reply, HangUp,
       ReplyBroken, BrokerCrash, Kill, Connect, Receive, TooLarge, ConnectionRefused,
       EngineCrash, EngineWorks, Request, Recovery, OutsideEdit, Edits, Edit, brokerVars

LEMMA SentStays ==
  ASSUME SystemInv, Next, NEW a \in Attempts, ledger[a].state \in Sent
  PROVE  ledger'[a].state \in Sent
<1>1. CASE UNCHANGED ledger
  BY <1>1
<1>2. CASE BrokerStep \/ CallFails
  BY <1>2, RowMoves DEF SystemInv, Sent, Edges, Row, Unrecorded
<1> QED BY <1>1, <1>2, RowsMoveInCalls

\* A row is dispatched out of ACCEPTED.
LEMMA DispatchedFromAccepted ==
  ASSUME SystemInv, Next, NEW a \in Attempts,
         ledger[a].state # "IN_FLIGHT", ledger'[a].state = "IN_FLIGHT"
  PROVE  ledger[a].state = "ACCEPTED"
<1>1. BrokerStep \/ CallFails
  BY RowsMoveInCalls
<1> QED BY <1>1, RowMoves DEF SystemInv, Edges, Row, Unrecorded

LEMMA FoundIsSent ==
  ASSUME SystemInv, ReconcilePresent
  PROVE  broker.att \in Attempts /\ ledger'[broker.att].state \in Sent
<1>1. broker.att \in Attempts /\ BrokerInv /\ ledger \in [Attempts -> RowType]
  BY DEF ReconcilePresent, At, SystemInv, BrokerInv, BrokerTypeOK, CallInv
<1>2. CASE Row.state = "IN_FLIGHT"
  BY <1>1, <1>2, Transitions, LegalCommit DEF ReconcilePresent, Committed, Sent
<1>3. CASE Row.state = "DELIVERY_ATTEMPTED"
  BY <1>1, <1>3, Transitions DEF ReconcilePresent, Commit, Row, Sent
<1> QED BY <1>1, <1>2, <1>3, CommitsAreLegal

\* Only a process that was told so verifies an attempt.
LEMMA OnlyFoundIsVerified ==
  ASSUME SystemInv, Next, NEW a \in Attempts,
         journal'[a].state = "VERIFIED", journal[a].state # "VERIFIED"
  PROVE  /\ UNCHANGED brokerVars
         /\ \E e \in Engines : /\ Works(engine[e])
                               /\ engine[e].att = a
                               /\ engine[e].reply = Present
<1>t. journal \in [Attempts -> JournalType]
  BY DEF SystemInv, TypeOK
<1>p. ASSUME NEW b \in Attempts, NEW o, Prepare(b, o)
      PROVE  FALSE
  BY <1>t, <1>p DEF Prepare
<1>j. ASSUME NEW e \in Engines, NEW target, NEW result, NEW after,
             JournalCommit(e, target, result, after)
      PROVE  target = "VERIFIED" /\ engine[e].att = a
  BY <1>t, <1>j DEF JournalCommit, JournalType
<1>1. ASSUME NEW e \in Engines, EngineStep(e)
      PROVE  Works(engine[e]) /\ engine[e].att = a /\ engine[e].reply = Present
  <2>1. engine[e].reply \in Replies
    BY DEF SystemInv, Sound, EngineType
  <2>2. ~StatusSettled(e)
    <3>1. \A r \in Replies : r.tag = "receipt" => r.value # "VERIFIED"
      BY DEF Replies, NoReply, NoReceipt, Receipt, Outcome, Failure, BrokerState
    <3> QED BY <1>j, <2>1, <3>1 DEF StatusSettled, Got, Value
  <2>3. ~(ReconciledRetry(e) \/ ReconciledUncertain(e) \/ Unconfirmed(e)
            \/ SubmitRejected(e) \/ MarkDelivered(e))
    BY <1>j DEF ReconciledRetry, ReconciledUncertain, Unconfirmed, SubmitRejected,
                MarkDelivered
  <2>4. ~\E b \in Attempts : Retry(e, b)
    BY <1>p DEF Retry
  <2>5. ReconciledPresent(e) \/ Confirmed(e)
    BY <1>1, <2>2, <2>3, <2>4
    DEF EngineStep, Recovering, Consuming, StatusUnknown, StatusAccepted, StatusDispatched,
        CallRaises, ReceiptDelivered, ReceiptInFlight, ReceiptUnexpected, Report
  <2>6. Works(engine[e]) /\ engine[e].reply = Present
    BY <2>1, <2>5, PresentArrives DEF ReconciledPresent, Confirmed, Got, Value, Works
  <2> QED BY <1>j, <2>5, <2>6 DEF ReconciledPresent, Confirmed
<1>2. ~\E e \in Engines : Request(e)
  BY <1>p DEF Request, Execute
<1>3. \E e \in Engines : EngineWorks(e)
  BY <1>2
  DEF Next, Progress, Fault, BrokerWorks, BrokerStart, Respond, HangUp, Recovery, Recover,
      Connect, TooLarge, ConnectionRefused, BrokerCrash, EngineCrash, OutsideEdit, engineVars
<1> QED BY <1>1, <1>3 DEF EngineWorks

LEMMA FoundStep ==
  ASSUME RetryInv, FoundInv, Next
  PROVE  FoundInv'
<1>s. SystemInv
  BY DEF RetryInv
<1>1. ASSUME Finding
      PROVE  broker'.att \in Attempts /\ ledger'[broker'.att].state \in Sent
  <2>1. broker' = broker \/ ReconcilePresent
    BY <1>1, <1>s, PresentIsFound
  <2>2. broker'.att = broker.att
    BY <1>1, <1>s, PresentIsFound
  <2>3. CASE broker' = broker
    BY <1>1, <1>s, <2>3, SentStays DEF FoundInv, Finding, At
  <2>4. CASE ReconcilePresent
    BY <1>s, <2>2, <2>4, FoundIsSent
  <2> QED BY <2>1, <2>3, <2>4
<1>2. ASSUME NEW e \in Engines, engine'[e].reply = Present, Works(engine'[e])
      PROVE  ledger'[engine'[e].att].state \in Sent
  <2>1. CASE engine'[e] = engine[e]
    BY <1>2, <1>s, <2>1, SentStays DEF FoundInv, StateOf, SystemInv, Sound, Recorded
  <2>2. CASE /\ Respond /\ serving = e /\ broker.reply = Present
             /\ engine'[e] = [engine[e] EXCEPT !.reply = Present]
    <3>1. /\ broker.att \in Attempts /\ ledger[broker.att].state \in Sent
          /\ UNCHANGED ledger
      BY <2>2 DEF FoundInv, Respond, Reply
    <3>2. engine'[e].att = engine[e].att
      BY <1>s, <2>2 DEF SystemInv, Sound, EngineType
    <3>3. engine[e].att = broker.att
      BY <2>2, EnginesAssumption DEF RetryInv, ServingInv
    <3> QED BY <3>1, <3>2, <3>3
  <2> QED BY <1>2, <1>s, <2>1, <2>2, PresentComes
<1>3. ASSUME NEW a \in Attempts, journal'[a].state = "VERIFIED"
      PROVE  ledger'[a].state \in Sent
  <2>1. CASE journal[a].state = "VERIFIED"
    BY <1>s, <2>1, SentStays DEF FoundInv
  <2>2. CASE journal[a].state # "VERIFIED"
    BY <1>3, <1>s, <2>2, OnlyFoundIsVerified DEF FoundInv, StateOf, brokerVars
  <2> QED BY <2>1, <2>2
<1> QED BY <1>1, <1>2, <1>3 DEF FoundInv, Finding, At, StateOf

\* Once an operation is reported VERIFIED nothing is dispatched for it any more,
\* however many Engines execute, recover and retry on the journal at once, and
\* whatever crashes or is edited: the attempt that was verified is one that the
\* Broker has sent and not superseded, so there is no other that it could still
\* send (engine.py:46-142, broker.py:62-90, 134-149).
THEOREM VerifiedIsDone == Spec => VerifiedIsNotRedone
<1>1. Init => FoundInv
  <2>1. Down.pc = "down" /\ Resting.reply = NoReply
    BY DEF Down, Resting
  <2> QED BY <2>1, OtherThanPresent
          DEF Init, BrokerInit, EngineInit, Unprepared, FoundInv, At, Unrecorded
<1>2. RetryInv /\ FoundInv /\ [Next]_vars => FoundInv'
  <2>1. CASE UNCHANGED vars
    BY <2>1 DEF vars, brokerVars, engineVars, FoundInv, At, Works, StateOf
  <2> QED BY <2>1, FoundStep
<1>3. RetryInv /\ FoundInv /\ [Next]_vars =>
        [\A a, b \in Attempts :
           /\ journal[a].state = "VERIFIED"
           /\ ledger[b].state # "IN_FLIGHT"
           /\ ledger'[b].state = "IN_FLIGHT"
           => ledger[b].op # journal[a].op]_vars
  <2> SUFFICES ASSUME RetryInv, FoundInv, Next, NEW a \in Attempts, NEW b \in Attempts,
                      journal[a].state = "VERIFIED",
                      ledger[b].state # "IN_FLIGHT", ledger'[b].state = "IN_FLIGHT",
                      ledger[b].op = journal[a].op
               PROVE  FALSE
    OBVIOUS
  <2>1. ledger[a].state \in Sent /\ ledger[b].state = "ACCEPTED"
    BY DispatchedFromAccepted DEF RetryInv, FoundInv
  <2>2. /\ journal[b].op = ledger[b].op
        /\ ledger[b].op \in Operations
    BY <2>1 DEF RetryInv, SystemInv, BrokerInv, RowInv, JournalFirst, Unrecorded
  <2> QED BY <2>1, <2>2, OperationsAssumption DEF RetryInv, OneLiveAttempt, Sent
<1>4. Spec => []RetryInv
  BY RetryInitInv, RetryStep, PTL DEF Spec
<1> QED BY <1>1, <1>2, <1>3, <1>4, PTL DEF Spec, VerifiedIsNotRedone

=============================================================================
