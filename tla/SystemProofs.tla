---------------------------- MODULE SystemProofs ----------------------------
(***************************************************************************)
(* The composed system, proved for any number of Engines, attempts,        *)
(* operations, files and approvals: its Broker is the one of module        *)
(* Broker, and the journal knows of an attempt before the Broker does.     *)
(***************************************************************************)
EXTENDS TransactionSystem, BrokerProofs, WellFoundedInduction

\* The journal holds the attempt a at the operation o.
Recorded(a, o) ==
  /\ a \in Attempts
  /\ o \in Operations
  /\ journal[a].state # Unrecorded
  /\ journal[a].op = o

\* The process p works on an attempt; a tool may show one that is not known.
Works(p) == p.pc \notin {"idle", "raise", "inquire"}

\* What a process of Engine may look like: whatever it works on, or has still
\* to work on, is in the journal.
Sound(p) ==
  /\ p \in EngineType
  /\ Works(p) => Recorded(p.att, p.op)
  /\ p.pc = "inquire" => p.att \in Attempts
  /\ \A a \in p.todo : journal[a].state # Unrecorded

\* The inductive invariant behind JournalFirst.
SystemInv ==
  /\ BrokerInv
  /\ TypeOK
  /\ \A a \in Attempts : journal[a].state # Unrecorded => journal[a].op \in Operations
  /\ \A e \in Engines : Sound(engine[e])
  /\ At("submit") => Recorded(broker.att, broker.op)
  /\ JournalFirst

-----------------------------------------------------------------------------
(* Replies *)

LEMMA ReplyType ==
  ASSUME NEW r \in Replies
  PROVE  /\ r.result \in Results
         /\ r.tag = "error" => r.value \in Errors /\ r = Failure(r.value)
<1>1. CASE r \in {NoReply, NoReceipt}
  BY <1>1 DEF NoReply, NoReceipt, Results
<1>2. ASSUME NEW o \in Outcomes, r = Outcome(o)
      PROVE  r.result \in Results /\ r.tag # "error"
  BY <1>2 DEF Outcome, Results
<1>3. ASSUME NEW x \in Errors, r = Failure(x)
      PROVE  r.result \in Results /\ r.value \in Errors /\ r = Failure(r.value)
  BY <1>3 DEF Failure, Results
<1>4. ASSUME NEW s \in BrokerState, NEW v \in Results,
             r = Receipt([state |-> s, result |-> v])
      PROVE  r.result \in Results /\ r.tag # "error"
  BY <1>4 DEF Receipt
<1>5. \/ r \in {NoReply, NoReceipt}
      \/ \E o \in Outcomes : r = Outcome(o)
      \/ \E x \in Errors : r = Failure(x)
      \/ \E s \in BrokerState, v \in Results :
           r = Receipt([state |-> s, result |-> v])
  BY DEF Replies
<1>6. CASE \E s \in BrokerState, v \in Results :
             r = Receipt([state |-> s, result |-> v])
  BY <1>4, <1>6
<1> QED BY <1>1, <1>2, <1>3, <1>5, <1>6

LEMMA TransportedType ==
  ASSUME NEW r \in Replies
  PROVE  Transported(r) \in Replies
BY FailureType DEF Transported, Errors

-----------------------------------------------------------------------------
(* What the processes of Engine become. *)

LEMMA Least ==
  ASSUME NEW T, T \subseteq Nat, T # {}
  PROVE  \E x \in T : \A y \in T : x <= y
<1> DEFINE less == {ss \in Nat \X Nat : ss[1] < ss[2]}
<1>1. IsWellFoundedOn(less, Nat)
  BY NatLessThanWellFounded DEF OpToRel
<1>2. PICK x \in T : \A y \in T : <<y, x>> \notin less
  BY <1>1, WFMin
<1>3. ASSUME NEW y \in T
      PROVE  x <= y
  <2>1. <<y, x>> \in Nat \X Nat /\ <<y, x>>[1] = y /\ <<y, x>>[2] = x
    OBVIOUS
  <2>2. ~ (y < x)
    BY <1>2, <2>1
  <2> QED BY <2>2
<1> QED BY <1>3

LEMMA RestingSound == Sound(Resting)
BY NoReplyType DEF Sound, Works, Resting, EngineType, EnginePc, Calls, Results

LEMMA RaisedSound ==
  ASSUME NEW err \in Errors
  PROVE  Sound(Raised(err))
BY FailureType DEF Sound, Works, Raised, Resting, EngineType, EnginePc, Calls, Results

LEMMA NextOfSound ==
  ASSUME SystemInv, NEW todo \in SUBSET Attempts,
         \A a \in todo : journal[a].state # Unrecorded
  PROVE  Sound(NextOf(todo))
<1>1. CASE todo = {}
  BY <1>1, RestingSound DEF NextOf
<1>2. CASE todo # {}
  <2> DEFINE a == CHOOSE a \in todo : \A b \in todo : a <= b
  <2>1. todo \subseteq Nat
    BY AttemptsAssumption
  <2>2. a \in todo
    BY <1>2, <2>1, Least
  <2>3. Recorded(a, journal[a].op)
    BY <2>2 DEF Recorded, SystemInv
  <2>4. NextOf(todo) = [Resting EXCEPT !.pc = "status", !.att = a,
                                       !.op = journal[a].op, !.todo = todo \ {a}]
    BY <1>2 DEF NextOf
  <2> HIDE DEF a
  <2> QED
    BY <2>3, <2>4, NoReplyType
    DEF Sound, Works, Recorded, Resting, EngineType, EnginePc, Calls, Results
<1> QED BY <1>1, <1>2

LEMMA CallNextSound ==
  ASSUME SystemInv, NEW e \in Engines, Works(engine[e]),
         NEW pc \in EnginePc
  PROVE  Sound(CallNext(e, pc))
BY NoReplyType DEF SystemInv, Sound, Works, CallNext, EngineType, Recorded

\* The journal only grows: a step keeps the rows it has, at their operation.
RowsKept ==
  /\ journal' \in [Attempts -> JournalType]
  /\ \A a \in Attempts : journal[a].state # Unrecorded =>
       journal'[a].state # Unrecorded /\ journal'[a].op = journal[a].op
  /\ \A a \in Attempts : journal'[a].state # Unrecorded => journal'[a].op \in Operations

LEMMA UnchangedKept ==
  ASSUME SystemInv, UNCHANGED journal
  PROVE  RowsKept
BY DEF SystemInv, TypeOK, RowsKept

LEMMA CommitKept ==
  ASSUME SystemInv, NEW e \in Engines, Works(engine[e]),
         NEW target, NEW result \in Results, NEW after,
         JournalCommit(e, target, result, after)
  PROVE  RowsKept
<1> DEFINE a == engine[e].att
<1>1. Recorded(a, engine[e].op) /\ journal \in [Attempts -> JournalType]
  BY DEF SystemInv, Sound, Works, TypeOK
<1>2. CASE target \in EngineTransitions(journal[a].state)
  <2>1. target \in EngineState
    BY <1>2 DEF EngineTransitions, EngineState
  <2>2. journal' = [journal EXCEPT ![a].state  = target,
                                   ![a].result = Coalesce(NoResult, result, @)]
    BY <1>2 DEF JournalCommit
  <2>3. Coalesce(NoResult, result, journal[a].result) \in Results
    BY <1>1 DEF Recorded, JournalType, Coalesce
  <2> QED BY <1>1, <2>1, <2>2, <2>3
          DEF RowsKept, Recorded, JournalType, SystemInv, EngineState, Unrecorded
<1>3. CASE target \notin EngineTransitions(journal[a].state)
  BY <1>3, UnchangedKept DEF JournalCommit
<1> QED BY <1>2, <1>3

LEMMA PrepareKept ==
  ASSUME SystemInv, NEW a \in Attempts, NEW o \in Operations, Prepare(a, o)
  PROVE  RowsKept /\ Recorded(a, o)'
<1>1. journal \in [Attempts -> JournalType]
  BY DEF SystemInv, TypeOK
<1> QED BY <1>1 DEF Prepare, RowsKept, Recorded, JournalType, EngineState, SystemInv,
                    Results, Unrecorded

\* What was sound stays sound.
LEMMA SoundStays ==
  ASSUME RowsKept, NEW p, Sound(p)
  PROVE  Sound(p)'
BY DEF RowsKept, Sound, Works, Recorded, EngineType

\* One process moves on.
LEMMA BecomeSound ==
  ASSUME SystemInv, RowsKept, NEW e \in Engines, NEW next, Sound(next)',
         Become(e, next)
  PROVE  engine' \in [Engines -> EngineType] /\ \A x \in Engines : Sound(engine[x])'
<1>1. engine \in [Engines -> EngineType]
  BY DEF SystemInv, TypeOK
<1>2. next \in EngineType
  BY DEF Sound, Works
<1>3. \A x \in Engines : engine'[x] = IF x = e THEN next ELSE engine[x]
  BY <1>1 DEF Become
<1>4. ASSUME NEW x \in Engines, x # e
      PROVE  Sound(engine[x])'
  <2>1. PICK p : p = engine[x]
    OBVIOUS
  <2>2. Sound(p)'
    BY <2>1, SoundStays DEF SystemInv
  <2> QED BY <1>3, <1>4, <2>1, <2>2
<1>5. Sound(engine[e])'
  BY <1>3
<1> QED BY <1>1, <1>2, <1>4, <1>5 DEF Become

-----------------------------------------------------------------------------
(* The steps of an Engine. *)

\* The processes of Engine stay sound.
EnginesKept ==
  /\ RowsKept
  /\ engine' \in [Engines -> EngineType]
  /\ \A x \in Engines : Sound(engine[x])'

LEMMA MoveKept ==
  ASSUME SystemInv, RowsKept, NEW e \in Engines,
         \E next : Sound(next) /\ engine' = [engine EXCEPT ![e] = next]
  PROVE  EnginesKept
<1>1. PICK next : Sound(next) /\ engine' = [engine EXCEPT ![e] = next]
  OBVIOUS
<1>2. Sound(next)'
  BY <1>1, SoundStays
<1> QED BY <1>1, <1>2, BecomeSound DEF EnginesKept, Become

LEMMA CommitMoveKept ==
  ASSUME SystemInv, NEW e \in Engines, Works(engine[e]),
         NEW target, NEW result \in Results, NEW after, Sound(after),
         JournalCommit(e, target, result, after)
  PROVE  EnginesKept
<1>1. RowsKept
  BY CommitKept
<1>2. \/ engine' = [engine EXCEPT ![e] = after]
      \/ engine' = [engine EXCEPT ![e] = Raised("InvalidTransition")]
  BY DEF JournalCommit, Become
<1>3. Sound(Raised("InvalidTransition"))
  BY RaisedSound DEF Errors
<1> QED BY <1>1, <1>2, <1>3, MoveKept

LEMMA DoneSound ==
  ASSUME SystemInv, NEW e \in Engines
  PROVE  Sound(Done(e))
BY NextOfSound DEF Done, SystemInv, Sound, Works, EngineType

LEMMA EngineStepKept ==
  ASSUME SystemInv, NEW e \in Engines, EngineStep(e)
  PROVE  EnginesKept
<1> DEFINE p == engine[e]
<1>t. Sound(p) /\ p \in EngineType
  BY DEF SystemInv, Sound, Works
<1>r. p.reply \in Replies /\ p.reply.result \in Results /\ p.got \in Results
  BY <1>t, ReplyType DEF EngineType
<1>n. NoResult \in Results /\ Reconciled \in Results
  BY DEF Results
<1>c. ASSUME NEW pc \in EnginePc, Works(p)
      PROVE  Sound(CallNext(e, pc))
  BY <1>c, CallNextSound
<1>d. Sound(Done(e))
  BY DoneSound
<1>1. CASE StatusUnknown(e) \/ StatusAccepted(e) \/ StatusDispatched(e) \/ ReceiptInFlight(e)
  <2>1. Works(p)
    BY <1>1
    DEF StatusUnknown, StatusAccepted, StatusDispatched, ReceiptInFlight, Submitted, Got,
        Works
  <2>2. \E next : Sound(next) /\ engine' = [engine EXCEPT ![e] = next]
    BY <1>1, <1>c, <2>1
    DEF StatusUnknown, StatusAccepted, StatusDispatched, ReceiptInFlight, Become,
        EnginePc, Calls
  <2> QED BY <1>1, <2>2, UnchangedKept, MoveKept
          DEF StatusUnknown, StatusAccepted, StatusDispatched, ReceiptInFlight
<1>2. CASE StatusSettled(e) \/ ReconciledPresent(e) \/ ReconciledUncertain(e)
           \/ Confirmed(e) \/ Unconfirmed(e)
  BY <1>2, <1>d, <1>r, <1>n, CommitMoveKept
  DEF StatusSettled, ReconciledPresent, ReconciledUncertain, Confirmed, Unconfirmed, Got,
      Works
<1>3. CASE ReconciledRetry(e)
  BY <1>3, <1>c, <1>n, CommitMoveKept DEF ReconciledRetry, Got, EnginePc, Works
<1>4. CASE MarkDelivered(e)
  BY <1>4, <1>c, <1>r, CommitMoveKept DEF MarkDelivered, EnginePc, Calls, Works
<1>5. CASE SubmitRejected(e)
  <2>1. Sound(Raised(Value(e)))
    BY <1>5, RaisedSound DEF SubmitRejected, Rejecting, Errors
  <2> QED BY <1>5, <2>1, <1>n, CommitMoveKept DEF SubmitRejected, Got, Works
<1>6. CASE CallRaises(e)
  <2>1. Sound(Raised(Value(e)))
    BY <1>6, <1>r, ReplyType, RaisedSound DEF CallRaises, Value
  <2> QED BY <1>6, <2>1, UnchangedKept, MoveKept DEF CallRaises, Become
<1>7. CASE ReceiptUnexpected(e)
  <2>1. Sound(Raised("RuntimeError"))
    BY RaisedSound DEF Errors
  <2> QED BY <1>7, <2>1, UnchangedKept, MoveKept DEF ReceiptUnexpected, Become
<1>8. CASE Report(e)
  BY <1>8, RestingSound, UnchangedKept, MoveKept DEF Report, Become
<1>9. CASE ReceiptDelivered(e)
  <2> DEFINE next(pc) == [[p EXCEPT !.got = p.reply.result, !.reply = NoReply]
                            EXCEPT !.pc = pc]
  <2>1. Works(p)
    BY <1>9 DEF ReceiptDelivered, Submitted, Got, Works
  <2>2. \A pc \in EnginePc : Sound(next(pc))
    BY <1>t, <1>r, <2>1, NoReplyType DEF Sound, Works, EngineType, Recorded
  <2>3. \E pc \in {"deliver", "confirm"} : engine' = [engine EXCEPT ![e] = next(pc)]
    BY <1>9 DEF ReceiptDelivered, Become
  <2>4. {"deliver", "confirm"} \subseteq EnginePc
    BY DEF EnginePc, Calls
  <2> HIDE DEF next
  <2>5. \E n : Sound(n) /\ engine' = [engine EXCEPT ![e] = n]
    BY <2>2, <2>3, <2>4
  <2> QED BY <1>9, <2>5, UnchangedKept, MoveKept DEF ReceiptDelivered
<1>10. ASSUME NEW a \in Attempts, Retry(e, a)
       PROVE  EnginesKept
  <2>1. PICK o \in Operations : o = p.op
    BY <1>t, <1>10 DEF Sound, Works, Recorded, Retry
  <2>2. RowsKept /\ Recorded(a, o)'
    BY <1>10, <2>1, PrepareKept DEF Retry
  <2>3. PICK next : next = [CallNext(e, "submit") EXCEPT !.att = a]
    OBVIOUS
  <2>4. Sound(CallNext(e, "submit"))
    BY <1>c, <1>10 DEF Retry, EnginePc, Calls, Works
  <2>5. /\ next \in EngineType /\ next.att = a /\ next.op = o
        /\ \A b \in next.todo : b \in Attempts /\ journal[b].state # Unrecorded
    BY <1>t, <2>1, <2>3, <2>4 DEF Sound, Works, EngineType, CallNext
  <2>6. Sound(next)'
    BY <2>2, <2>5 DEF Sound, Works, Recorded, RowsKept
  <2> QED BY <1>10, <2>2, <2>3, <2>6, BecomeSound DEF EnginesKept, Retry
<1> QED
  BY <1>1, <1>2, <1>3, <1>4, <1>5, <1>6, <1>7, <1>8, <1>9, <1>10
  DEF EngineStep, Recovering, Consuming

-----------------------------------------------------------------------------
(* The Broker's part of a step. *)

\* A step of the system is a step of its Broker, or not one that the Broker
\* takes part in.
LEMMA BrokerPart ==
  ASSUME SystemInv, Next
  PROVE  [BrokerNext]_brokerVars
<1>1. CASE BrokerWorks \/ BrokerStart \/ HangUp \/ OutsideEdit \/ BrokerCrash
           \/ CallFails
  BY <1>1 DEF BrokerWorks, BrokerStart, HangUp, OutsideEdit, BrokerCrash, BrokerNext
<1>2. CASE Respond
  BY <1>2 DEF Respond, BrokerNext
<1>3. ASSUME NEW e \in Engines, Connect(e)
      PROVE  Call
  <2>1. PICK a \in Attempts : a = engine[e].att
    BY <1>3 DEF Connect, Waiting, Calls, SystemInv, Sound, Works, Recorded
  <2>2. CASE engine[e].pc \in {"submit", "resume"}
    <3>1. PICK o \in Operations : o = engine[e].op
      BY <2>2 DEF SystemInv, Sound, Works, Recorded
    <3> QED BY <1>3, <2>1, <2>2, <3>1 DEF Connect, CallName, Call
  <2>3. CASE engine[e].pc \in {"status", "inquire"}
    BY <1>3, <2>1, <2>3 DEF Connect, CallName, Call
  <2>4. CASE engine[e].pc \in {"reconcile", "confirm"}
    BY <1>3, <2>1, <2>4 DEF Connect, CallName, Call
  <2> QED BY <1>3, <2>2, <2>3, <2>4 DEF Connect, Waiting, Calls
<1>4. ASSUME NEW e \in Engines, TooLarge(e)
      PROVE  Kill
  BY <1>4 DEF TooLarge, At, Kill
<1>5. ASSUME NEW e \in Engines,
             EngineWorks(e) \/ Request(e) \/ Recovery(e) \/ ConnectionRefused(e)
               \/ EngineCrash(e)
      PROVE  UNCHANGED brokerVars
  BY <1>5 DEF EngineWorks, Request, Recovery, ConnectionRefused, EngineCrash
<1> QED BY <1>1, <1>2, <1>3, <1>4, <1>5 DEF Next, Progress, Fault, BrokerNext

\* A submission starts when the call is received, and in no other way.
LEMMA SubmitStarts ==
  ASSUME BrokerInv, BrokerNext, broker'.pc = "submit"
  PROVE  broker' = broker \/ \E a \in Attempts, o \in Operations : Receive("submit", a, o)
<1>t. broker \in ProcessType
  BY DEF BrokerInv, BrokerTypeOK
<1>1. CASE Call
  BY <1>1 DEF Call, Receive, Idle
<1>2. CASE Accept \/ Resume
  BY <1>t, <1>2 DEF Accept, Resume, AfterAccepted, ProcessType
<1>3. CASE Deny \/ Dispatch \/ Raise \/ Deliver \/ ReconcilePresent
           \/ ReconcileRetry \/ ReconcileUncertain
  BY <1>t, <1>3
  DEF Deny, Dispatch, Raise, Deliver, ReconcilePresent, ReconcileRetry,
      ReconcileUncertain, Commit, Answered, ProcessType
<1>4. CASE Refuse \/ ReplayConflict \/ Duplicate \/ ReturnReceipt \/ ReconcileSettled
           \/ CallFails \/ \E e \in {"ApprovalDenied", "ReplayConflict"} : ConsumeExpired(e)
  BY <1>t, <1>4
  DEF Refuse, ReplayConflict, Duplicate, ReturnReceipt, ReconcileSettled,
      CallFails, ConsumeExpired, Answer, Answered, ProcessType
<1>5. CASE Consume \/ ReadFile \/ CheckPrior \/ CheckTarget \/ Replace
           \/ CheckWritten \/ ReconcileAbsent \/ \E k \in ApprovalIds : Issue(k)
  BY <1>t, <1>5
  DEF Consume, ReadFile, CheckPrior, CheckTarget, Replace, CheckWritten,
      ReconcileAbsent, Issue, Goto, ProcessType
<1>6. CASE Reply \/ ReplyBroken \/ Kill \/ Start
  BY <1>6 DEF Reply, ReplyBroken, Kill, Start, Idle, Down
<1>7. CASE Edits
  BY <1>7 DEF Edits, Edit
<1> QED BY <1>1, <1>2, <1>3, <1>4, <1>5, <1>6, <1>7
        DEF BrokerNext, BrokerStep, Submitting, Reconciling

\* Only accept() records an attempt, under the operation of the call.
LEMMA NewRow ==
  ASSUME BrokerInv, BrokerNext, NEW a \in Attempts,
         ledger[a].state = Unrecorded, ledger'[a].state # Unrecorded
  PROVE  At("submit") /\ a = broker.att /\ ledger'[a].op = broker.op
<1>t. ledger \in [Attempts -> RowType]
  BY DEF BrokerInv, BrokerTypeOK
<1>1. CASE Accept
  BY <1>t, <1>1 DEF Accept, NoRow
<1>2. CASE Deny \/ Dispatch \/ Raise \/ Deliver \/ ReconcilePresent
           \/ ReconcileRetry \/ ReconcileUncertain
  BY <1>2, CommittedRow, CommitsAreLegal DEF Committed, Row, Unrecorded
<1> QED BY <1>1, <1>2, WritingSteps DEF Issue, Consume, Replace

-----------------------------------------------------------------------------
(* The Engines' part of a step. *)

LEMMA AnswerKept ==
  ASSUME SystemInv, UNCHANGED journal, NEW e \in Engines, NEW r \in Replies,
         engine' = Answers(e, r)
  PROVE  EnginesKept
<1>1. Sound([engine[e] EXCEPT !.reply = r])
  BY DEF SystemInv, Sound, Works, EngineType, Recorded
<1>2. engine' = [engine EXCEPT ![e] = [engine[e] EXCEPT !.reply = r]]
  BY DEF Answers, SystemInv, TypeOK
<1> QED BY <1>1, <1>2, UnchangedKept, MoveKept

LEMMA EnginePart ==
  ASSUME SystemInv, Next
  PROVE  EnginesKept /\ serving' \in Engines \cup {NoEngine}
<1>t. serving \in Engines \cup {NoEngine} /\ broker.reply \in Replies
  BY DEF SystemInv, TypeOK, BrokerTypeOK, ProcessType
<1>u. ASSUME UNCHANGED engineVars
      PROVE  EnginesKept
  <2>1. RowsKept
    BY <1>u, UnchangedKept DEF engineVars
  <2>2. \A x \in Engines : \E p : p = engine[x] /\ Sound(p)
    BY DEF SystemInv
  <2>3. ASSUME NEW x \in Engines
        PROVE  Sound(engine[x])'
    <3>1. PICK p : p = engine[x] /\ Sound(p)
      BY <2>2
    <3>2. Sound(p)'
      BY <2>1, <3>1, SoundStays
    <3> QED BY <1>u, <3>1, <3>2 DEF engineVars
  <2> QED BY <1>u, <2>1, <2>3 DEF EnginesKept, engineVars, SystemInv, TypeOK
<1>1. CASE BrokerWorks \/ BrokerStart \/ HangUp \/ OutsideEdit
           \/ (CallFails /\ UNCHANGED <<engineVars, serving>>)
  BY <1>1, <1>t, <1>u DEF BrokerWorks, BrokerStart, HangUp, OutsideEdit
<1>2. CASE Respond
  BY <1>2, <1>t, TransportedType, AnswerKept DEF Respond
<1>3. CASE BrokerCrash
  <2>1. Failure("EOFError") \in Replies
    BY FailureType DEF Errors
  <2>2. CASE serving = NoEngine
    BY <1>3, <1>u, <2>2 DEF BrokerCrash, engineVars
  <2>3. CASE serving # NoEngine
    BY <1>3, <1>t, <2>1, <2>3, AnswerKept DEF BrokerCrash
  <2> QED BY <1>3, <2>2, <2>3 DEF BrokerCrash
<1>4. ASSUME NEW e \in Engines, Connect(e)
      PROVE  EnginesKept /\ serving' \in Engines \cup {NoEngine}
  BY <1>4, <1>u DEF Connect
<1>5. ASSUME NEW e \in Engines, TooLarge(e) \/ ConnectionRefused(e)
      PROVE  EnginesKept /\ serving' \in Engines \cup {NoEngine}
  <2>1. Failure("ValueError") \in Replies /\ Failure("Unavailable") \in Replies
    BY FailureType DEF Errors
  <2> QED BY <1>5, <1>t, <2>1, AnswerKept DEF TooLarge, ConnectionRefused
<1>6. ASSUME NEW e \in Engines, EngineCrash(e)
      PROVE  EnginesKept /\ serving' \in Engines \cup {NoEngine}
  <2>1. EnginesKept
    BY <1>6, RestingSound, UnchangedKept, MoveKept DEF EngineCrash, Become
  <2> QED BY <1>6, <1>t, <2>1 DEF EngineCrash
<1>7. ASSUME NEW e \in Engines, EngineWorks(e)
      PROVE  EnginesKept /\ serving' \in Engines \cup {NoEngine}
  BY <1>7, <1>t, EngineStepKept DEF EngineWorks
<1>8. ASSUME NEW e \in Engines, Recovery(e)
      PROVE  EnginesKept /\ serving' \in Engines \cup {NoEngine}
  <2>1. Sound(NextOf(Pending))
    BY NextOfSound DEF Pending, Unrecorded
  <2>2. EnginesKept
    BY <1>8, <2>1, UnchangedKept, MoveKept DEF Recovery, Recover, Become
  <2> QED BY <1>8, <1>t, <2>2 DEF Recovery
<1>9. ASSUME NEW e \in Engines, NEW a \in Attempts, NEW o \in Operations, Execute(e, a, o)
      PROVE  EnginesKept
  <2>1. RowsKept /\ Recorded(a, o)'
    BY <1>9, PrepareKept DEF Execute
  <2>2. PICK next : next = [Resting EXCEPT !.pc = "submit", !.att = a, !.op = o]
    OBVIOUS
  <2>3. /\ next \in EngineType
        /\ next.att = a /\ next.op = o /\ next.todo = {}
    BY <2>2, NoReplyType DEF Resting, EngineType, EnginePc, Calls, Results
  <2>4. Sound(next)'
    BY <2>1, <2>3 DEF Sound, Works
  <2> QED BY <1>9, <2>1, <2>2, <2>4, BecomeSound DEF EnginesKept, Execute
<1> QED
  BY <1>1, <1>2, <1>3, <1>4, <1>5, <1>6, <1>7, <1>8, <1>9, <1>t
  DEF Next, Progress, Fault, Request, BrokerWorks, BrokerStart, HangUp, OutsideEdit,
      Respond, BrokerCrash

-----------------------------------------------------------------------------
(* The invariant. *)

LEMMA SystemInitInv == Init => SystemInv
<1> SUFFICES ASSUME Init PROVE SystemInv
  OBVIOUS
<1>1. BrokerInv /\ BrokerTypeOK
  BY BrokerInitInv DEF Init, BrokerInv
<1>2. \A e \in Engines : engine[e] = Resting
  BY DEF Init, EngineInit
<1>3. Resting \in EngineType
  BY RestingSound DEF Sound, Works
<1>4. ASSUME NEW e \in Engines
      PROVE  Sound(engine[e])
  BY <1>2, RestingSound
<1>5. ~At("submit") /\ \A a \in Attempts : ledger[a].state = Unrecorded
  BY DEF Init, BrokerInit, At, Down, NoRow
<1>6. \A a \in Attempts : journal[a] = Unprepared
  BY DEF Init, EngineInit
<1>7. TypeOK
  BY <1>1, <1>3
  DEF TypeOK, Init, EngineInit, Unprepared, JournalType, Results
<1> QED BY <1>1, <1>4, <1>5, <1>6, <1>7 DEF SystemInv, JournalFirst, Unprepared

\* Outside of a call the Broker does nothing by itself.
LEMMA IdleWaits ==
  ASSUME broker.pc \in {"idle", "down", "reply"}
  PROVE  ~BrokerStep /\ ~CallFails
<1>1. ~(Accept \/ Refuse \/ ReplayConflict \/ Resume \/ Duplicate \/ Deny
         \/ (\E k \in ApprovalIds : Issue(k)) \/ Consume
         \/ \E e \in {"ApprovalDenied", "ReplayConflict"} : ConsumeExpired(e))
  BY DEF At, Accept, Refuse, ReplayConflict, Resume, Duplicate, Deny, Issue, Consume,
         ConsumeExpired
<1>2. ~(Dispatch \/ ReadFile \/ CheckPrior \/ CheckTarget \/ Replace \/ CheckWritten
         \/ Raise \/ Deliver)
  BY DEF At, Dispatch, ReadFile, CheckPrior, CheckTarget, Replace, CheckWritten, Raise,
         Executing, Deliver
<1>3. ~(Reconciling \/ ReturnReceipt \/ CallFails)
  BY DEF At, Reconciling, CallFails, ReconcileSettled, ReconcilePresent, ReconcileAbsent,
         ReconcileRetry, ReconcileUncertain, ReturnReceipt
<1> QED BY <1>1, <1>2, <1>3 DEF BrokerStep, Submitting

\* The Broker starts on a submission only when an Engine connects for one.
LEMMA SubmitIsRecorded ==
  ASSUME SystemInv, Next, BrokerNext, broker'.pc = "submit"
  PROVE  Recorded(broker'.att, broker'.op)
<1>1. CASE broker' = broker
  BY <1>1 DEF SystemInv, At
<1>2. ASSUME NEW b \in Attempts, NEW o \in Operations, Receive("submit", b, o)
      PROVE  Recorded(broker'.att, broker'.op)
  <2>1. At("idle") /\ broker.pc = "idle"
    BY <1>2 DEF Receive, At
  <2>2. ~(BrokerWorks \/ BrokerStart \/ Respond \/ HangUp \/ BrokerCrash \/ OutsideEdit)
    BY <2>1, IdleWaits
    DEF BrokerWorks, BrokerStart, Respond, HangUp, BrokerCrash, OutsideEdit, At,
        Start, Reply, ReplyBroken, Kill, Down, Idle, Edits, Edit
  <2>3. ASSUME NEW e \in Engines,
               EngineWorks(e) \/ Request(e) \/ Recovery(e) \/ TooLarge(e)
                 \/ ConnectionRefused(e) \/ EngineCrash(e)
        PROVE  FALSE
    BY <2>1, <2>3
    DEF EngineWorks, Request, Recovery, TooLarge, ConnectionRefused, EngineCrash, Down,
        Idle, brokerVars
  <2>4. PICK e \in Engines : Connect(e)
    BY <2>1, <2>2, <2>3 DEF Next, Progress, Fault, CallFails, At
  <2>5. /\ engine[e].pc \in {"submit", "resume"}
        /\ broker'.att = engine[e].att /\ broker'.op = engine[e].op
    BY <2>4 DEF Connect, Receive, Waiting, Calls, CallName, Idle
  <2> QED BY <2>5 DEF SystemInv, Sound, Works
<1> QED BY <1>1, <1>2, SubmitStarts DEF SystemInv

LEMMA SystemStep == SystemInv /\ [Next]_vars => SystemInv'
<1>1. ASSUME SystemInv, Next
      PROVE  SystemInv'
  <2>1. EnginesKept /\ serving' \in Engines \cup {NoEngine}
    BY <1>1, EnginePart
  <2>2. [BrokerNext]_brokerVars
    BY <1>1, BrokerPart
  <2>3. BrokerInv' /\ BrokerTypeOK'
    BY <1>1, <2>2, BrokerInvStep DEF SystemInv, BrokerInv
  <2>4. TypeOK'
    BY <2>1, <2>3 DEF TypeOK, EnginesKept, RowsKept
  <2>5. \A a \in Attempts : journal'[a].state # Unrecorded => journal'[a].op \in Operations
    BY <2>1 DEF EnginesKept, RowsKept
  <2>6. \A e \in Engines : Sound(engine[e])'
    BY <2>1 DEF EnginesKept
  <2>7. ASSUME NEW b, NEW o, Recorded(b, o)
        PROVE  Recorded(b, o)'
    BY <2>1, <2>7 DEF Recorded, EnginesKept, RowsKept
  <2>8. At("submit")' => Recorded(broker.att, broker.op)'
    <3> SUFFICES ASSUME broker'.pc = "submit" PROVE Recorded(broker.att, broker.op)'
      BY DEF At
    <3>1. PICK b, o : b = broker'.att /\ o = broker'.op
      OBVIOUS
    <3>2. CASE UNCHANGED brokerVars
      BY <1>1, <2>7, <3>1, <3>2 DEF SystemInv, At, brokerVars, Recorded
    <3>3. CASE BrokerNext
      BY <1>1, <2>7, <3>1, <3>3, SubmitIsRecorded DEF Recorded
    <3> QED BY <2>2, <3>2, <3>3
  <2>9. JournalFirst'
    <3> SUFFICES ASSUME NEW a \in Attempts, ledger'[a].state # Unrecorded
                 PROVE  /\ journal'[a].state # Unrecorded
                        /\ journal'[a].op = ledger'[a].op
      BY DEF JournalFirst
    <3>1. /\ journal[a].state # Unrecorded
          /\ journal[a].op = ledger'[a].op
      <4>1. CASE UNCHANGED brokerVars
        BY <1>1, <4>1 DEF brokerVars, SystemInv, JournalFirst
      <4>2. CASE BrokerNext /\ ledger[a].state # Unrecorded
        BY <1>1, <4>2, RowsStay DEF SystemInv, JournalFirst
      <4>3. CASE BrokerNext /\ ledger[a].state = Unrecorded
        BY <1>1, <4>3, NewRow DEF SystemInv, Recorded
      <4> QED BY <2>2, <4>1, <4>2, <4>3
    <3> QED BY <2>1, <3>1 DEF EnginesKept, RowsKept
  <2> QED BY <2>3, <2>4, <2>5, <2>6, <2>8, <2>9 DEF SystemInv
<1>2. ASSUME SystemInv, UNCHANGED vars
      PROVE  SystemInv'
  <2>1. /\ UNCHANGED <<ledger, approvals, files, broker, applied>>
        /\ UNCHANGED <<journal, engine, serving>>
    BY <1>2 DEF vars, brokerVars, engineVars
  <2>2. BrokerInv'
    BY <1>2, <2>1, BrokerInvStep DEF SystemInv, brokerVars
  <2>3. TypeOK' /\ JournalFirst'
    BY <1>2, <2>1, <2>2 DEF SystemInv, TypeOK, JournalFirst, BrokerInv
  <2>4. ASSUME NEW p, Sound(p)
        PROVE  Sound(p)'
    BY <1>2, <2>4, UnchangedKept, SoundStays, <2>1
  <2>5. \A e \in Engines : Sound(engine[e])'
    <3> SUFFICES ASSUME NEW e \in Engines PROVE Sound(engine[e])'
      OBVIOUS
    <3>1. PICK p : p = engine[e] /\ Sound(p)
      BY <1>2 DEF SystemInv
    <3> QED BY <2>1, <2>4, <3>1
  <2> QED BY <1>2, <2>1, <2>2, <2>3, <2>5 DEF SystemInv, At, Recorded
<1> QED BY <1>1, <1>2

\* The invariant holds in every state the composed system reaches.
THEOREM SystemInvariant == Spec => []SystemInv
<1> QED BY SystemInitInv, SystemStep, PTL DEF Spec

\* Every variable of the composed system keeps its type.
THEOREM SystemTypeCorrect == Spec => []TypeOK
<1>1. SystemInv => TypeOK
  BY DEF SystemInv
<1> QED BY <1>1, SystemInvariant, PTL

\* The Broker knows of no attempt that recovery could not find in the journal
\* under the same operation, whatever crashes, is retried or is lost
\* (engine.py:32-34).
THEOREM JournalBeforeBroker == Spec => []JournalFirst
<1>1. SystemInv => JournalFirst
  BY DEF SystemInv
<1> QED BY <1>1, SystemInvariant, PTL

\* The Broker of the composed system is the Broker of module Broker, although it
\* serves only calls that Engines make and dies of the replies they do not
\* take: what is proved of the latter holds of the former.
THEOREM SystemRunsTheBroker == Spec => BrokerSpec
<1>1. Init => BrokerInit
  BY DEF Init
<1>2. SystemInv /\ [Next]_vars => [BrokerNext]_brokerVars
  <2>1. CASE UNCHANGED vars
    BY <2>1 DEF vars, brokerVars
  <2> QED BY <2>1, BrokerPart
<1> QED BY <1>1, <1>2, SystemInvariant, PTL DEF Spec, BrokerSpec

\* In the composed system too, the Broker keeps its contract: no effect without
\* an approval, none twice, none on an attempt that is settled
\* (broker.py:52-157).
THEOREM SystemKeepsContract == Spec => ImplementsContract
<1> QED BY SystemRunsTheBroker, BrokerImplementsContract, PTL

=============================================================================
