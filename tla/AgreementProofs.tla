--------------------------- MODULE AgreementProofs ---------------------------
(***************************************************************************)
(* What one process at a time on a journal makes true: that the journal    *)
(* agrees with the ledger, that REJECTED means without an effect, that no  *)
(* internal error is met, and that the status shown is consistent.  The    *)
(* lock of the MCP adapter sees to the one process at a time.              *)
(*                                                                         *)
(* A process that has an answer leaves the Broker at rest, so that what    *)
(* the answer says of the ledger is still so when it goes to the journal.  *)
(* The Broker may have a call of a process that died in hand; until it is  *)
(* done, nobody is answered and nothing moves in the journal.              *)
(***************************************************************************)
EXTENDS Mcp, RetryProofs

Active(e) == engine[e].pc # "idle"

\* At most one process at a time.
OneActive == \A e, x \in Engines : Active(e) /\ Active(x) => e = x

\* The Broker is in no call.
Free == broker.pc \in {"idle", "down"}

\* The Broker may yet change the row of the attempt a.
Busy(a) == broker.att = a /\ ~Free /\ broker.pc \notin {"status", "reply"}

\* The states of the ledger that are ever entered.
Entered ==
  {Unrecorded, "ACCEPTED", "IN_FLIGHT", "DELIVERY_ATTEMPTED", "UNCERTAIN",
   "REJECTED", "SUPERSEDED"}

\* The ledger states in which a process at pc asks the Broker, or goes on.
AskedIn(pc) ==
  CASE pc \in {"submit", "resume"}   -> {Unrecorded, "ACCEPTED"}
    [] pc = "reconcile"              -> Reconcilable
    [] pc \in {"confirm", "deliver"} -> {"DELIVERY_ATTEMPTED"}
    [] OTHER                         -> Entered

\* The reply r to a call made at pc is true of an attempt that the ledger has
\* in the given state.
Truthful(pc, r, state) ==
  /\ pc \in {"status", "inquire"} =>
       /\ r.tag = "none" => state = Unrecorded
       /\ r.tag = "receipt" => state = r.value
  /\ pc \in {"submit", "resume"} =>
       /\ r.tag = "receipt" => r.value = "DELIVERY_ATTEMPTED" /\ state = r.value
       /\ r.tag = "error" /\ r.value \in Rejecting =>
            state \in {Unrecorded, "ACCEPTED", "REJECTED"}
  /\ pc \in {"reconcile", "confirm"} /\ r.tag = "outcome" =>
       \/ r.value = "EFFECT_PRESENT" /\ state = "DELIVERY_ATTEMPTED"
       \/ r.value = "UNCERTAIN" /\ state = "UNCERTAIN"
       \/ pc = "reconcile" /\ r.value = "RETRY_SAFE" /\ state = "SUPERSEDED"

StateOf(p) == ledger[p.att].state

\* A process works on one pending attempt and has others still to work on.
WorkInv(p) ==
  /\ p.pc = "idle" => p = Resting
  /\ p.pc \in {"raise", "inquire"} => p.todo = {}
  /\ Works(p) => p.pc = "retry" \/ p.att \in Pending
  /\ p.todo \subseteq Pending \ {p.att}
  /\ p.pc = "deliver" => StateOf(p) = "DELIVERY_ATTEMPTED"

\* What a process knows of the ledger: while it waits for the Broker to take its
\* call, while the Broker has it, and when it is answered.
KnowsInv(e) ==
  LET p == engine[e]
  IN  /\ Active(e) /\ ~Waiting(e) => Free
      /\ p.pc \in Calls /\ ~Waiting(e) => Truthful(p.pc, p.reply, StateOf(p))
      /\ Waiting(e) /\ serving # e =>
           \/ p.pc \in {"status", "inquire"}
           \/ StateOf(p) \in AskedIn(p.pc) /\ ~Busy(p.att)
      /\ Waiting(e) /\ serving = e =>
           IF At("reply") THEN Truthful(p.pc, broker.reply, StateOf(p))
           ELSE p.pc = "confirm" => StateOf(p) = "DELIVERY_ATTEMPTED"

\* What the Broker works on is pending, whoever asked for it.
BusyInv ==
  /\ \A a \in Attempts : Busy(a) => a \in Pending
  /\ At("submit") => Row.state \in {Unrecorded, "ACCEPTED"}
  /\ At("reconcile") => Row.state \in Reconcilable
  /\ At("receipt") => Row.state = "DELIVERY_ATTEMPTED"
  /\ At("reply") => broker.reply # NoReply

\* The inductive invariant of one process at a time.
AgreeInv ==
  /\ SystemInv
  /\ ServingInv
  /\ OneActive
  /\ JournalAgreesWithLedger
  /\ NoInternalError
  /\ \A a \in Attempts : ledger[a].state \in Entered
  /\ BusyInv
  /\ \A e \in Engines : WorkInv(engine[e]) /\ KnowsInv(e)

\* The lock is held by the thread whose tool runs, and the status tool has read
\* the journal as it still is.
LockInv ==
  /\ tool \in [Engines -> {NoTool, "execute", "recover", "status"}]
  /\ seen \in [Engines -> EngineState \cup {Unrecorded}]
  /\ \A e \in Engines :
       /\ tool[e] # NoTool <=> Active(e)
       /\ engine[e].pc = "inquire" => seen[e] = journal[engine[e].att].state

McpInv == AgreeInv /\ LockInv

-----------------------------------------------------------------------------
(* What the Broker's steps do to the row of the call, and what it answers. *)

\* A row goes forward along these edges, and no others.
Edges ==
  {<<Unrecorded, "ACCEPTED">>, <<"ACCEPTED", "IN_FLIGHT">>, <<"ACCEPTED", "REJECTED">>,
   <<"IN_FLIGHT", "DELIVERY_ATTEMPTED">>, <<"IN_FLIGHT", "UNCERTAIN">>,
   <<"IN_FLIGHT", "SUPERSEDED">>, <<"DELIVERY_ATTEMPTED", "UNCERTAIN">>}

LEMMA RowMoves ==
  ASSUME BrokerInv, BrokerStep \/ CallFails
  PROVE  /\ \A a \in Attempts : a # broker.att => ledger'[a] = ledger[a]
         /\ \/ ledger' = ledger
            \/ <<Row.state, ledger'[broker.att].state>> \in Edges
<1>t. ledger \in [Attempts -> RowType]
  BY DEF BrokerInv, BrokerTypeOK
<1>n. BrokerNext
  BY DEF BrokerNext
<1>1. CASE UNCHANGED ledger
  BY <1>1
<1>2. CASE Accept
  <2>1. broker.att \in Attempts
    BY <1>2, AttemptOfCall DEF Accept, At
  <2> QED BY <1>2, <1>t, <2>1 DEF Accept, Edges, NoRow
<1>3. CASE Deny \/ Dispatch \/ Raise \/ Deliver \/ ReconcileRetry
  BY <1>3, CommittedRow, CommitsAreLegal DEF Committed, Edges
<1>4. CASE ReconcilePresent
  <2>1. Row.state = "DELIVERY_ATTEMPTED" => ledger' = ledger
    BY <1>4, Transitions DEF ReconcilePresent, Commit
  <2> QED BY <1>4, <2>1, CommittedRow, CommitsAreLegal DEF Committed, Edges
<1>5. CASE ReconcileUncertain
  BY <1>5, CommittedRow, CommitsAreLegal DEF Committed, Edges
<1> QED BY <1>n, <1>1, <1>2, <1>3, <1>4, <1>5, WritingSteps DEF Issue, Consume, Replace

\* Where each commit takes the process.
LEMMA CommitsGoOn ==
  ASSUME BrokerInv
  PROVE  /\ Deny => broker' = Answered(Failure("ApprovalDenied"))
         /\ Dispatch => broker' = [broker EXCEPT !.pc = "execute"]
         /\ Raise => broker' = Answered(Failure("RecoveryRequired"))
         /\ Deliver => broker' = [broker EXCEPT !.pc = "receipt"]
         /\ ReconcilePresent => broker' = Answered(Outcome("EFFECT_PRESENT"))
         /\ ReconcileRetry => broker' = Answered(Outcome("RETRY_SAFE"))
         /\ ReconcileUncertain => broker' = Answered(Outcome("UNCERTAIN"))
<1>1. Deny => broker' = Answered(Failure("ApprovalDenied"))
  BY CommitsAreLegal, Transitions DEF Deny, Commit
<1>2. Dispatch => broker' = [broker EXCEPT !.pc = "execute"]
  BY CommitsAreLegal, Transitions DEF Dispatch, Commit
<1>3. Raise => broker' = Answered(Failure("RecoveryRequired"))
  BY CommitsAreLegal, Transitions DEF Raise, Commit
<1>4. Deliver => broker' = [broker EXCEPT !.pc = "receipt"]
  BY CommitsAreLegal, Transitions DEF Deliver, Commit
<1>5. ReconcilePresent => broker' = Answered(Outcome("EFFECT_PRESENT"))
  BY CommitsAreLegal, Transitions DEF ReconcilePresent, Commit
<1>6. ReconcileRetry => broker' = Answered(Outcome("RETRY_SAFE"))
  BY CommitsAreLegal, Transitions DEF ReconcileRetry, Commit
<1>7. ReconcileUncertain => broker' = Answered(Outcome("UNCERTAIN"))
  BY CommitsAreLegal, Transitions DEF ReconcileUncertain, Commit
<1> QED BY <1>1, <1>2, <1>3, <1>4, <1>5, <1>6, <1>7

\* A step of a call leaves it in the same call, and never at its beginning.
LEMMA CallGoesOn ==
  ASSUME BrokerInv, BrokerStep \/ CallFails
  PROVE  /\ broker'.att = broker.att
         /\ ~Free /\ ~At("reply")
         /\ broker'.pc \notin {"idle", "down", "submit", "status", "reconcile"}
         /\ broker'.pc = "receipt" => Deliver
         /\ broker.pc = "status" => broker'.pc = "reply" /\ ledger' = ledger
<1>t. broker \in ProcessType
  BY DEF BrokerInv, BrokerTypeOK
<1>0. ~Free /\ ~At("reply")
  BY IdleWaits DEF Free, At
<1>1. CASE Accept \/ Resume
  BY <1>t, <1>0, <1>1 DEF Accept, Resume, AfterAccepted, ProcessType, At
<1>2. CASE Deny \/ Raise \/ ReconcilePresent \/ ReconcileRetry \/ ReconcileUncertain
  BY <1>t, <1>0, <1>2, CommitsGoOn, AnsweredKeeps
  DEF Deny, Raise, ReconcilePresent, ReconcileRetry, ReconcileUncertain, At, Executing
<1>3. CASE Dispatch \/ Deliver
  BY <1>t, <1>0, <1>3, CommitsGoOn DEF Dispatch, Deliver, At, ProcessType
<1>4. CASE Refuse \/ ReplayConflict \/ Duplicate \/ ReturnReceipt \/ ReconcileSettled
           \/ CallFails \/ \E x \in {"ApprovalDenied", "ReplayConflict"} : ConsumeExpired(x)
  BY <1>t, <1>0, <1>4, AnsweredKeeps
  DEF Refuse, ReplayConflict, Duplicate, ReturnReceipt, ReconcileSettled, CallFails,
      ConsumeExpired, Answer
<1>5. CASE Consume \/ ReadFile \/ CheckPrior \/ CheckTarget \/ Replace
           \/ CheckWritten \/ ReconcileAbsent \/ \E k \in ApprovalIds : Issue(k)
  BY <1>t, <1>0, <1>5
  DEF Consume, ReadFile, CheckPrior, CheckTarget, Replace, CheckWritten,
      ReconcileAbsent, Issue, Goto, ProcessType, At
<1> QED
  BY <1>1, <1>2, <1>3, <1>4, <1>5 DEF BrokerStep, Submitting, Reconciling

\* The kinds of replies.
LEMMA ReplyKinds ==
  /\ NoReply.tag = "pending" /\ NoReceipt.tag = "none"
  /\ \A row : Receipt(row).tag = "receipt" /\ Receipt(row).value = row.state
  /\ \A o : Outcome(o).tag = "outcome" /\ Outcome(o).value = o
  /\ \A x : Failure(x).tag = "error" /\ Failure(x).value = x
BY DEF NoReply, NoReceipt, Receipt, Outcome, Failure

\* What the Broker answers is true of the row it leaves.
LEMMA AnswersAreTrue ==
  ASSUME BrokerInv, BusyInv, BrokerStep \/ CallFails, broker'.pc = "reply",
         NEW c \in Calls, CallName(c) = CallAt(broker.pc),
         c = "confirm" => Row.state = "DELIVERY_ATTEMPTED"
  PROVE  /\ Truthful(c, broker'.reply, ledger'[broker.att].state)
         /\ broker'.reply # NoReply
<1> DEFINE r == broker'.reply
           s == ledger'[broker.att].state
<1>t. broker \in ProcessType
  BY DEF BrokerInv, BrokerTypeOK
<1>c. /\ broker.pc = "status" => c \in {"status", "inquire"}
      /\ broker.pc \in {"reconcile", "recheck"} => c \in {"reconcile", "confirm"}
      /\ broker.pc \notin {"status", "reconcile", "recheck"} => c \in {"submit", "resume"}
  BY DEF Calls, CallName, CallAt
<1>a. ~(Accept \/ Resume \/ Dispatch \/ Deliver \/ Consume \/ ReadFile \/ CheckPrior
          \/ CheckTarget \/ Replace \/ CheckWritten \/ ReconcileAbsent
          \/ \E k \in ApprovalIds : Issue(k))
  BY <1>t, CommitsGoOn
  DEF Accept, Resume, AfterAccepted, Consume, ReadFile, CheckPrior, CheckTarget, Replace,
      CheckWritten, ReconcileAbsent, Issue, Goto, ProcessType
<1>1. CASE Refuse
  <2>1. /\ r = Failure(Verdict(broker.op)) /\ s = Unrecorded
        /\ c \in {"submit", "resume"}
    BY <1>1, <1>c, <1>t, AnsweredKeeps DEF Refuse, Answer, At, Row
  <2> QED BY <2>1, ReplyKinds DEF Truthful
<1>2. CASE ReplayConflict
  <2>1. r = Failure("ReplayConflict") /\ c \in {"submit", "resume"}
    BY <1>2, <1>c, <1>t, AnsweredKeeps DEF ReplayConflict, Answer, At
  <2> QED BY <2>1, ReplyKinds DEF Truthful, Rejecting
<1>3. CASE Duplicate
  BY <1>3 DEF Duplicate, Resumable, BusyInv
<1>4. CASE Deny
  <2>1. r = Failure("ApprovalDenied") /\ s = "REJECTED" /\ c \in {"submit", "resume"}
    BY <1>4, <1>c, <1>t, CommitsGoOn, CommittedRow, AnsweredKeeps DEF Deny, Committed, At
  <2> QED BY <2>1, ReplyKinds DEF Truthful
<1>5. ASSUME NEW x \in {"ApprovalDenied", "ReplayConflict"}, ConsumeExpired(x)
      PROVE  Truthful(c, r, s) /\ r # NoReply
  <2>1. r = Failure(x) /\ s = "ACCEPTED" /\ c \in {"submit", "resume"}
    BY <1>5, <1>c, <1>t, AnsweredKeeps
    DEF ConsumeExpired, Answer, At, BrokerInv, CallInv, PreDispatch, Row
  <2> QED BY <2>1, ReplyKinds DEF Truthful
<1>6. CASE Raise
  <2>1. r = Failure("RecoveryRequired") /\ c \in {"submit", "resume"}
    BY <1>6, <1>c, <1>t, CommitsGoOn, AnsweredKeeps DEF Raise, Executing
  <2> QED BY <2>1, ReplyKinds DEF Truthful, Rejecting
<1>7. CASE ReturnReceipt
  <2>1. /\ r = IF Row.state = Unrecorded THEN NoReceipt ELSE Receipt(Row)
        /\ s = Row.state /\ broker.pc \in {"receipt", "status"}
    BY <1>7, <1>t, AnsweredKeeps DEF ReturnReceipt, Answer, Row
  <2>2. CASE broker.pc = "status"
    BY <1>c, <2>1, <2>2, ReplyKinds DEF Truthful
  <2>3. CASE broker.pc = "receipt"
    <3>1. Row.state = "DELIVERY_ATTEMPTED" /\ r = Receipt(Row) /\ c \in {"submit", "resume"}
      BY <1>c, <2>1, <2>3 DEF BusyInv, At, Unrecorded
    <3> QED BY <2>1, <3>1, ReplyKinds DEF Truthful
  <2> QED BY <2>1, <2>2, <2>3
<1>8. CASE ReconcileSettled
  BY <1>8 DEF ReconcileSettled, BusyInv
<1>9. CASE ReconcilePresent
  <2>1. /\ r = Outcome("EFFECT_PRESENT") /\ c \in {"reconcile", "confirm"}
    BY <1>9, <1>c, <1>t, CommitsGoOn, AnsweredKeeps DEF ReconcilePresent, At
  <2>2. s = "DELIVERY_ATTEMPTED"
    <3>1. CASE Row.state = "IN_FLIGHT"
      BY <1>9, <3>1, AttemptOfCall, Transitions, LegalCommit
      DEF ReconcilePresent, At, Committed, BrokerInv, BrokerTypeOK
    <3>2. CASE Row.state = "DELIVERY_ATTEMPTED"
      BY <1>9, <3>2, Transitions DEF ReconcilePresent, Commit, Row
    <3> QED BY <1>9, <3>1, <3>2, CommitsAreLegal
  <2> QED BY <2>1, <2>2, ReplyKinds DEF Truthful
<1>10. CASE ReconcileRetry
  <2>1. /\ r = Outcome("RETRY_SAFE") /\ s = "SUPERSEDED" /\ c = "reconcile"
    BY <1>10, <1>c, <1>t, CommitsGoOn, CommittedRow, CommitsAreLegal, AnsweredKeeps
    DEF ReconcileRetry, At, Committed
  <2> QED BY <2>1, ReplyKinds DEF Truthful
<1>11. CASE ReconcileUncertain
  <2>1. /\ r = Outcome("UNCERTAIN") /\ s = "UNCERTAIN" /\ c \in {"reconcile", "confirm"}
    BY <1>11, <1>c, <1>t, CommitsGoOn, CommittedRow, AnsweredKeeps
    DEF ReconcileUncertain, At, Committed
  <2> QED BY <2>1, ReplyKinds DEF Truthful
<1>12. CASE CallFails
  <2>1. r \in {Failure("EOFError"), Failure("OSError")}
    BY <1>12, <1>t, AnsweredKeeps DEF CallFails, Answer
  <2> QED BY <2>1, ReplyKinds DEF Truthful, Rejecting
<1> QED
  BY <1>a, <1>1, <1>2, <1>3, <1>4, <1>5, <1>6, <1>7, <1>8, <1>9, <1>10, <1>11, <1>12
  DEF BrokerStep, Submitting, Reconciling

\* Reconcile commits with its answer.
LEMMA CallIsSilent ==
  ASSUME BrokerInv, BrokerStep \/ CallFails, broker'.pc # "reply",
         broker.pc \in {"reconcile", "recheck"}
  PROVE  ledger' = ledger
<1>t. broker \in ProcessType
  BY DEF BrokerInv, BrokerTypeOK
<1>1. ~(Accept \/ Resume \/ Refuse \/ ReplayConflict \/ Duplicate \/ Deny \/ Consume
          \/ Dispatch \/ Deliver \/ Raise \/ \E k \in ApprovalIds : Issue(k))
  BY DEF Accept, Resume, Refuse, ReplayConflict, Duplicate, Deny, Consume, Dispatch,
         Deliver, Raise, Issue, At, Executing
<1>2. ~(ReconcilePresent \/ ReconcileRetry \/ ReconcileUncertain)
  BY <1>t, CommitsGoOn, AnsweredKeeps
<1> QED
  BY <1>1, <1>2
  DEF BrokerStep, Submitting, Reconciling, ConsumeExpired, ReadFile, CheckPrior, CheckTarget,
      Replace, CheckWritten, ReturnReceipt, ReconcileSettled, ReconcileAbsent, CallFails

-----------------------------------------------------------------------------
(* The steps of the Broker. *)

\* A pending row of the journal agrees with any row of the ledger that goes on.
LEMMA PendingAgrees ==
  ASSUME NEW j \in {"PREPARED", "DELIVERY_ATTEMPTED"}, NEW s, NEW t,
         <<s, t>> \in Edges, s \in Compatible(j)
  PROVE  t \in Compatible(j) /\ t \in Entered
<1>1. Compatible("DELIVERY_ATTEMPTED") = {"DELIVERY_ATTEMPTED", "UNCERTAIN"}
  BY DEF Compatible, Unrecorded
<1>2. Compatible("PREPARED") = BrokerState \cup {Unrecorded}
  BY DEF Compatible, Unrecorded
<1>3. CASE s = "DELIVERY_ATTEMPTED"
  BY <1>1, <1>2, <1>3 DEF Edges, BrokerState, Entered, Unrecorded
<1>4. CASE s # "DELIVERY_ATTEMPTED"
  <2>1. j = "PREPARED" /\ t \in {"ACCEPTED", "IN_FLIGHT", "REJECTED", "DELIVERY_ATTEMPTED",
                                "UNCERTAIN", "SUPERSEDED"}
    <3>1. s # "UNCERTAIN"
      BY DEF Edges, Unrecorded
    <3> QED BY <1>1, <1>4, <3>1 DEF Edges
  <2> QED BY <1>2, <2>1 DEF BrokerState, Entered
<1> QED BY <1>3, <1>4

\* What the Broker does in a call, seen from the journal and from a process that
\* waits for another call.
LEMMA RowsAgree ==
  ASSUME AgreeInv, BrokerStep \/ CallFails, UNCHANGED <<engineVars, serving>>
  PROVE  /\ JournalAgreesWithLedger'
         /\ \A a \in Attempts : ledger'[a].state \in Entered
         /\ \A a \in Attempts : Busy(a)' => Busy(a)
         /\ \A a \in Attempts : ~Busy(a) => ledger'[a] = ledger[a]
<1>b. BrokerInv
  BY DEF AgreeInv, SystemInv
<1>1. /\ broker'.att = broker.att /\ ~Free /\ ~At("reply")
      /\ broker.pc = "status" => broker'.pc = "reply" /\ ledger' = ledger
  BY <1>b, CallGoesOn
<1>2. \A a \in Attempts : Busy(a)' => Busy(a)
  BY <1>1 DEF Busy, Free, At
<1>3. \A a \in Attempts : ~Busy(a) => ledger'[a] = ledger[a]
  BY <1>b, <1>1, RowMoves DEF Busy, Free, At
<1>4. ASSUME NEW a \in Attempts
      PROVE  /\ ledger'[a].state \in Compatible(journal[a].state)
             /\ ledger'[a].state \in Entered
  <2>1. CASE ledger'[a].state = ledger[a].state
    BY <2>1 DEF AgreeInv, JournalAgreesWithLedger
  <2>2. CASE ledger'[a].state # ledger[a].state
    <3>1. Busy(a) /\ a = broker.att
      BY <1>3, <2>2 DEF Busy
    <3>2. <<ledger[a].state, ledger'[a].state>> \in Edges
      BY <1>b, <2>2, <3>1, RowMoves DEF Row
    <3>3. journal[a].state \in {"PREPARED", "DELIVERY_ATTEMPTED"}
      BY <3>1 DEF AgreeInv, BusyInv, Pending
    <3>4. ledger[a].state \in Compatible(journal[a].state)
      BY DEF AgreeInv, JournalAgreesWithLedger
    <3> QED BY <3>2, <3>3, <3>4, PendingAgrees
  <2> QED BY <2>1, <2>2
<1> QED BY <1>2, <1>3, <1>4 DEF JournalAgreesWithLedger, engineVars

LEMMA BrokerAgrees ==
  ASSUME AgreeInv, Next, BrokerStep \/ CallFails, UNCHANGED <<engineVars, serving>>
  PROVE  AgreeInv'
<1>b. SystemInv /\ ServingInv /\ BrokerInv /\ BusyInv
  BY DEF AgreeInv, SystemInv
<1>u. UNCHANGED <<journal, engine, serving>>
  BY DEF engineVars
<1>1. SystemInv' /\ ServingInv'
  BY <1>b, SystemStep, ServingStep
<1>2. OneActive' /\ NoInternalError'
  BY <1>u DEF AgreeInv, OneActive, Active, NoInternalError
<1>3. /\ JournalAgreesWithLedger'
      /\ \A a \in Attempts : ledger'[a].state \in Entered
      /\ \A a \in Attempts : Busy(a)' => Busy(a)
      /\ \A a \in Attempts : ~Busy(a) => ledger'[a] = ledger[a]
  BY RowsAgree
<1>4. /\ broker'.att = broker.att /\ ~Free /\ ~At("reply")
      /\ broker'.pc \notin {"idle", "down", "submit", "status", "reconcile"}
      /\ broker'.pc = "receipt" => Deliver
  BY <1>b, CallGoesOn
<1>5. BusyInv'
  <2>1. \A a \in Attempts : Busy(a)' => a \in Pending'
    BY <1>b, <1>u, <1>3 DEF BusyInv, Pending
  <2>2. At("receipt")' => Row'.state = "DELIVERY_ATTEMPTED"
    BY <1>b, <1>4, CommittedRow DEF At, Committed, Row
  <2>3. At("reply")' => broker'.reply # NoReply
    <3> SUFFICES ASSUME broker'.pc = "reply" PROVE broker'.reply # NoReply
      BY DEF At
    <3>1. PICK c \in {"submit", "status", "reconcile"} : c = CallAt(broker.pc)
      BY DEF CallAt
    <3>2. c \in Calls /\ CallName(c) = CallAt(broker.pc) /\ c # "confirm"
      BY <3>1 DEF Calls, CallName
    <3> QED BY <1>b, <3>2, AnswersAreTrue
  <2> QED BY <1>4, <2>1, <2>2, <2>3 DEF BusyInv, At
<1>6. ASSUME NEW e \in Engines
      PROVE  WorkInv(engine[e])' /\ KnowsInv(e)'
  <2>k. WorkInv(engine[e]) /\ KnowsInv(e)
    BY DEF AgreeInv
  <2>1. Active(e) => Waiting(e) /\ engine[e].pc \in Calls
    BY <1>4, <2>k DEF KnowsInv, Waiting
  <2>2. WorkInv(engine[e])'
    <3>1. engine[e].pc # "deliver"
      BY <2>1 DEF Active, Calls
    <3> QED BY <1>u, <2>k, <3>1 DEF WorkInv, Pending, Works
  <2>3. CASE ~Active(e)
    BY <1>u, <2>2, <2>3 DEF KnowsInv, Active, Waiting, Calls
  <2>4. CASE Active(e) /\ serving # e
    <3>1. engine[e].att \in Attempts
      BY <1>b, <2>1, <2>4 DEF SystemInv, Sound, Works, Recorded, Calls
    <3>2. \/ engine[e].pc \in {"status", "inquire"}
          \/ StateOf(engine[e]) \in AskedIn(engine[e].pc) /\ ~Busy(engine[e].att)
      BY <2>k, <2>1, <2>4 DEF KnowsInv
    <3>3. ~Busy(engine[e].att) =>
            ~Busy(engine[e].att)' /\ ledger'[engine[e].att] = ledger[engine[e].att]
      BY <1>3, <1>u, <3>1
    <3> QED BY <1>u, <2>1, <2>2, <2>4, <3>2, <3>3 DEF KnowsInv, Active, Waiting, StateOf
  <2>5. CASE Active(e) /\ serving = e
    <3>1. /\ broker.att = engine[e].att /\ broker.att \in Attempts
          /\ CallName(engine[e].pc) = CallAt(broker.pc)
      BY <1>b, <1>4, <2>5, EnginesAssumption, AttemptOfCall DEF ServingInv, At, Free
    <3>2. engine[e].pc = "confirm" => Row.state = "DELIVERY_ATTEMPTED"
      BY <1>4, <2>k, <2>1, <2>5, <3>1 DEF KnowsInv, StateOf, Row
    <3>3. At("reply")' => Truthful(engine[e].pc, broker'.reply, ledger'[broker.att].state)
      BY <1>b, <2>1, <2>5, <3>1, <3>2, AnswersAreTrue DEF At
    <3>4. ~At("reply")' /\ engine[e].pc = "confirm" => ledger'[broker.att] = ledger[broker.att]
      <4> SUFFICES ASSUME broker'.pc # "reply", CallAt(broker.pc) = "reconcile"
                   PROVE  ledger' = ledger
        BY <3>1 DEF At, CallName
      <4>1. broker.pc \in {"reconcile", "recheck"}
        BY DEF CallAt
      <4> QED
        BY <1>b, <4>1, CallIsSilent
    <3> QED BY <1>u, <2>1, <2>2, <2>5, <3>1, <3>2, <3>3, <3>4
            DEF KnowsInv, Active, Waiting, StateOf, At, Row
  <2> QED BY <2>2, <2>3, <2>4, <2>5
<1> QED BY <1>1, <1>2, <1>3, <1>5, <1>6 DEF AgreeInv

-----------------------------------------------------------------------------
(* The steps of an Engine. *)

\* A process that is not waiting has the Broker for itself, and nobody is beside
\* it.
LEMMA MoverIsAlone ==
  ASSUME AgreeInv, NEW e \in Engines, Active(e), ~Waiting(e)
  PROVE  /\ Free /\ serving = NoEngine
         /\ \A a \in Attempts : ~Busy(a)
         /\ \A x \in Engines : x # e => engine[x] = Resting
<1>1. Free
  BY DEF AgreeInv, KnowsInv
<1>2. \A x \in Engines : x # e => engine[x] = Resting
  BY DEF AgreeInv, OneActive, Active, WorkInv
<1> QED BY <1>1, <1>2 DEF AgreeInv, ServingInv, Free, Busy

\* What the process p knows as it gets to where it is: nothing, if it goes on by
\* itself or asks for the state, and otherwise what it asks on.
Informed(p) ==
  /\ p.reply \notin {Failure("InvalidTransition"), Failure("RuntimeError")}
  /\ \/ p.pc \notin Calls
     \/ p.reply = NoReply /\ p.pc \in {"status", "inquire"}
     \/ p.reply = NoReply /\ StateOf(p) \in AskedIn(p.pc) /\ ~Busy(p.att)

\* One process moves, with the journal, and nothing else.
LEMMA MoveAgrees ==
  ASSUME AgreeInv, SystemInv', ServingInv', OneActive', JournalAgreesWithLedger',
         NEW e \in Engines, ~Waiting(e), NEW next, Become(e, next),
         Active(e) \/ next.pc # "idle",
         UNCHANGED <<ledger, broker, serving>>,
         \A a \in Attempts : Busy(a) => journal'[a] = journal[a],
         WorkInv(next)', Informed(next),
         next.pc \notin Calls \cup {"idle"} => Free
  PROVE  AgreeInv'
<1>t. engine \in [Engines -> EngineType]
  BY DEF AgreeInv, SystemInv, TypeOK
<1>1. engine'[e] = next /\ \A x \in Engines : x # e => engine'[x] = engine[x]
  BY <1>t DEF Become
<1>2. NoInternalError'
  BY <1>1 DEF AgreeInv, NoInternalError, Informed
<1>3. \A a \in Attempts : ledger'[a].state \in Entered
  BY DEF AgreeInv
<1>4. BusyInv'
  BY DEF AgreeInv, BusyInv, Busy, Free, Pending, At, Row
<1>5. WorkInv(engine[e])' /\ KnowsInv(e)'
  <2>1. WorkInv(engine[e])'
    BY <1>1
  <2>2. serving # e
    BY EnginesAssumption DEF AgreeInv, ServingInv
  <2> QED BY <1>1, <2>1, <2>2
          DEF KnowsInv, Informed, Active, Waiting, Free, Busy, At, StateOf
<1>6. ASSUME NEW x \in Engines, x # e
      PROVE  WorkInv(engine[x])' /\ KnowsInv(x)'
  <2>1. CASE Active(x)
    <3>1. next.pc = "idle" /\ ~Active(e)'
      BY <1>1, <1>6, <2>1 DEF OneActive, Active
    <3>2. ~Active(e)
      BY <1>6, <2>1 DEF AgreeInv, OneActive
    <3> QED BY <3>1, <3>2
  <2>2. CASE ~Active(x)
    <3>1. engine'[x] = Resting
      BY <1>1, <1>6, <2>2 DEF AgreeInv, WorkInv, Active
    <3> QED BY <3>1 DEF WorkInv, KnowsInv, Active, Waiting, Works, Resting, Calls
  <2> QED BY <2>1, <2>2
<1> QED BY <1>2, <1>3, <1>4, <1>5, <1>6 DEF AgreeInv

LEMMA RestingWorks ==
  /\ WorkInv(Resting)'
  /\ \A x : WorkInv(Raised(x))'
  /\ Informed(Resting)
  /\ \A x : x \notin {"InvalidTransition", "RuntimeError"} => Informed(Raised(x))
<1>1. Resting.pc = "idle" /\ Resting.todo = {} /\ Resting.reply = NoReply
  BY DEF Resting
<1>2. \A x : /\ Raised(x).pc = "raise" /\ Raised(x).todo = {}
            /\ Raised(x).reply = Failure(x)
  BY DEF Raised, Resting
<1>3. WorkInv(Resting)' /\ \A x : WorkInv(Raised(x))'
  BY <1>1, <1>2 DEF WorkInv, Works
<1>4. Informed(Resting)
  BY <1>1, ReplyKinds DEF Informed, Calls
<1>5. ASSUME NEW x, x \notin {"InvalidTransition", "RuntimeError"}
      PROVE  Informed(Raised(x))
  BY <1>2, <1>5, ReplyKinds DEF Informed, Calls
<1> QED BY <1>3, <1>4, <1>5

\* recover() takes the next of the attempts that are left, which are pending.
LEMMA NextWorks ==
  ASSUME NEW todo, todo \subseteq Pending', NEW next, next = NextOf(todo)
  PROVE  WorkInv(next)' /\ Informed(next)
<1>0. todo \subseteq Nat
  BY AttemptsAssumption DEF Pending
<1>1. CASE todo = {}
  BY <1>1, RestingWorks DEF NextOf
<1>2. CASE todo # {}
  <2> DEFINE a == CHOOSE a \in todo : \A b \in todo : a <= b
  <2>1. a \in todo
    BY <1>0, <1>2, Least
  <2>2. NextOf(todo) = [Resting EXCEPT !.pc = "status", !.att = a,
                                       !.op = journal[a].op, !.todo = todo \ {a}]
    BY <1>2 DEF NextOf
  <2> HIDE DEF a
  <2>3. /\ next.pc = "status" /\ next.att = a
        /\ next.todo = todo \ {a} /\ next.reply = NoReply
    BY <2>2 DEF Resting
  <2>4. WorkInv(next)'
    BY <2>1, <2>3 DEF WorkInv, Works
  <2>5. Informed(next)
    BY <2>3, ReplyKinds DEF Informed
  <2> QED BY <2>4, <2>5
<1> QED BY <1>1, <1>2

\* The states that execute and recover bring a pending attempt to.
Targets == {"DELIVERY_ATTEMPTED", "VERIFIED", "UNCERTAIN", "SUPERSEDED", "REJECTED"}

\* A commit to a state that agrees with the ledger is legal.
LEMMA AgreedIsLegal ==
  ASSUME NEW j \in {"PREPARED", "DELIVERY_ATTEMPTED"}, NEW target \in Targets,
         NEW s, s \in Compatible(j), s \in Compatible(target)
  PROVE  target \in EngineTransitions(j) \/ j = target
BY DEF Targets, Compatible, EngineTransitions, Unrecorded

\* A process goes on with the same attempt.
LEMMA CallNextIs ==
  ASSUME SystemInv, NEW e \in Engines, NEW pc
  PROVE  /\ CallNext(e, pc).pc = pc
         /\ CallNext(e, pc).att = engine[e].att
         /\ CallNext(e, pc).todo = engine[e].todo
         /\ CallNext(e, pc).reply = NoReply
<1>1. engine[e] \in EngineType
  BY DEF SystemInv, Sound
<1> QED BY <1>1 DEF CallNext, EngineType

LEMMA CommitAgrees ==
  ASSUME AgreeInv, SystemInv', ServingInv', OneActive', UNCHANGED <<ledger, broker, serving>>,
         NEW e \in Engines, Works(engine[e]), engine[e].pc # "retry", ~Waiting(e),
         NEW target \in Targets, StateOf(engine[e]) \in Compatible(target),
         NEW result, NEW after, JournalCommit(e, target, result, after),
         \/ after = Done(e)
         \/ \E x : after = Raised(x) /\ Informed(after)
         \/ after = CallNext(e, "retry")
         \/ after = CallNext(e, "confirm") /\ target = "DELIVERY_ATTEMPTED"
              /\ StateOf(engine[e]) = "DELIVERY_ATTEMPTED"
  PROVE  AgreeInv'
<1> DEFINE p == engine[e]
           a == engine[e].att
           j == journal[a].state
<1>s. SystemInv /\ journal \in [Attempts -> JournalType]
  BY DEF AgreeInv, SystemInv, TypeOK
<1>0. Active(e) /\ ~(after.pc = "idle" /\ ~Active(e))
  BY DEF Works, Active
<1>1. /\ Free
      /\ \A b \in Attempts : ~Busy(b)
  BY <1>0, MoverIsAlone
<1>2. a \in Attempts /\ j \in {"PREPARED", "DELIVERY_ATTEMPTED"} /\ ledger[a].state \in Compatible(j)
  BY DEF AgreeInv, WorkInv, Pending, JournalAgreesWithLedger
<1>3. target \in EngineTransitions(j) \/ j = target
  BY <1>2, AgreedIsLegal DEF StateOf
<1>4. /\ Become(e, after)
      /\ journal'[a].state = target
      /\ \A b \in Attempts : b # a => journal'[b] = journal[b]
  BY <1>s, <1>2, <1>3 DEF JournalCommit, JournalType
<1>5. JournalAgreesWithLedger'
  BY <1>2, <1>4 DEF AgreeInv, JournalAgreesWithLedger, StateOf
<1>6. p.todo \subseteq Pending' /\ a \notin p.todo
  BY <1>4 DEF AgreeInv, WorkInv, Pending
<1>7. WorkInv(after)' /\ Informed(after)
  <2>1. CASE after = Done(e)
    BY <1>6, <2>1, NextWorks DEF Done
  <2>2. CASE \E x : after = Raised(x) /\ Informed(after)
    BY <2>2, RestingWorks
  <2>3. CASE after = CallNext(e, "retry")
    <3>1. /\ after.pc = "retry" /\ after.att = a /\ after.todo = p.todo
          /\ after.reply = NoReply
      BY <1>s, <2>3, CallNextIs
    <3> QED BY <1>6, <3>1, ReplyKinds DEF WorkInv, Works, Informed, Calls
  <2>4. CASE /\ after = CallNext(e, "confirm") /\ target = "DELIVERY_ATTEMPTED"
             /\ StateOf(p) = "DELIVERY_ATTEMPTED"
    <3>1. /\ after.pc = "confirm" /\ after.att = a /\ after.todo = p.todo
          /\ after.reply = NoReply
      BY <1>s, <2>4, CallNextIs
    <3>2. WorkInv(after)'
      BY <1>2, <1>4, <1>6, <2>4, <3>1 DEF WorkInv, Works, Pending
    <3>3. Informed(after)
      BY <1>1, <1>2, <2>4, <3>1, ReplyKinds DEF Informed, AskedIn, StateOf
    <3> QED BY <3>2, <3>3
  <2> QED BY <2>1, <2>2, <2>3, <2>4
<1> QED BY <1>0, <1>1, <1>4, <1>5, <1>7, MoveAgrees

\* A receipt is of a row that there is.
LEMMA ReceiptIsRecorded ==
  ASSUME NEW r \in Replies, r.tag = "receipt"
  PROVE  r.value \in BrokerState
<1>1. \E s \in BrokerState, v \in Results : r = Receipt([state |-> s, result |-> v])
  BY ReplyKinds DEF Replies
<1> QED BY <1>1, ReplyKinds

\* A new attempt is one that neither the ledger nor the Broker knows of.
LEMMA NewIsFree ==
  ASSUME AgreeInv, NEW a \in Attempts, journal[a].state = Unrecorded
  PROVE  ledger[a].state = Unrecorded /\ ~Busy(a) /\ a \notin Pending
<1>1. Compatible(Unrecorded) = {Unrecorded}
  BY DEF Compatible, Unrecorded
<1> QED BY <1>1 DEF AgreeInv, JournalAgreesWithLedger, BusyInv, Pending, Unrecorded

\* A new attempt goes to the Broker.
LEMMA NewAgrees ==
  ASSUME AgreeInv, SystemInv', ServingInv', OneActive',
         UNCHANGED <<ledger, broker, serving>>,
         NEW e \in Engines, ~Waiting(e), NEW next, Become(e, next),
         NEW a \in Attempts, NEW o, Prepare(a, o),
         next.pc = "submit", next.att = a, next.reply = NoReply,
         next.todo \subseteq Pending
  PROVE  AgreeInv'
<1>t. journal \in [Attempts -> JournalType]
  BY DEF AgreeInv, SystemInv, TypeOK
<1>1. ledger[a].state = Unrecorded /\ ~Busy(a) /\ a \notin Pending
  BY NewIsFree DEF Prepare
<1>2. /\ journal'[a].state = "PREPARED"
      /\ \A b \in Attempts : b # a => journal'[b] = journal[b]
  BY <1>t DEF Prepare
<1>3. JournalAgreesWithLedger'
  <2>1. Unrecorded \in Compatible("PREPARED")
    BY DEF Compatible, Unrecorded
  <2> QED BY <1>1, <1>2, <2>1 DEF AgreeInv, JournalAgreesWithLedger
<1>4. WorkInv(next)'
  BY <1>1, <1>2 DEF WorkInv, Works, Pending
<1>5. Informed(next)
  BY <1>1, ReplyKinds DEF Informed, StateOf, AskedIn
<1>6. \A b \in Attempts : Busy(b) => journal'[b] = journal[b]
  BY <1>1, <1>2
<1>7. next.pc \in Calls
  BY DEF Calls
<1> QED BY <1>3, <1>4, <1>5, <1>6, <1>7, MoveAgrees

LEMMA RetryAgrees ==
  ASSUME AgreeInv, SystemInv', ServingInv', OneActive',
         UNCHANGED <<ledger, broker, serving>>,
         NEW e \in Engines, ~Waiting(e), NEW a \in Attempts, Retry(e, a)
  PROVE  AgreeInv'
<1>1. PICK next : next = [CallNext(e, "submit") EXCEPT !.att = a]
  OBVIOUS
<1>2. engine[e] \in EngineType
  BY DEF AgreeInv, SystemInv, Sound
<1>3. /\ next.pc = "submit" /\ next.att = a /\ next.reply = NoReply
      /\ next.todo = engine[e].todo
  BY <1>1, <1>2 DEF CallNext, EngineType
<1>4. next.todo \subseteq Pending
  BY <1>3 DEF AgreeInv, WorkInv
<1>5. Become(e, next) /\ Prepare(a, engine[e].op)
  BY <1>1 DEF Retry
<1> QED BY <1>3, <1>4, <1>5, NewAgrees

\* A process goes on with its attempt, as the ledger allows.
LEMMA GoesOnAgrees ==
  ASSUME AgreeInv, SystemInv', ServingInv', OneActive',
         UNCHANGED <<ledger, broker, serving, journal>>,
         NEW e \in Engines, Works(engine[e]), engine[e].pc # "retry", ~Waiting(e),
         NEW next, Become(e, next),
         next.att = engine[e].att, next.todo = engine[e].todo, next.reply = NoReply,
         next.pc \in {"submit", "resume", "reconcile", "confirm", "deliver"},
         StateOf(engine[e]) \in AskedIn(next.pc)
  PROVE  AgreeInv'
<1>1. Active(e)
  BY DEF Works, Active
<1>2. Free /\ \A a \in Attempts : ~Busy(a)
  BY <1>1, MoverIsAlone
<1>3. JournalAgreesWithLedger'
  BY DEF AgreeInv, JournalAgreesWithLedger
<1>4. engine[e].att \in Pending /\ engine[e].todo \subseteq Pending \ {engine[e].att}
  BY DEF AgreeInv, WorkInv
<1>5. WorkInv(next)'
  BY <1>4 DEF WorkInv, Works, Pending, AskedIn, StateOf
<1>6. Informed(next)
  BY <1>2, <1>4, ReplyKinds DEF Informed, StateOf, Pending
<1> QED BY <1>1, <1>2, <1>3, <1>5, <1>6, MoveAgrees

\* A process is done, or raises.
LEMMA EndsAgrees ==
  ASSUME AgreeInv, SystemInv', ServingInv', OneActive',
         UNCHANGED <<ledger, broker, serving, journal>>,
         NEW e \in Engines, Active(e), ~Waiting(e), NEW next, Become(e, next),
         next = Resting \/ \E x : next = Raised(x) /\ Informed(next)
  PROVE  AgreeInv'
<1>1. Free /\ \A a \in Attempts : ~Busy(a)
  BY MoverIsAlone
<1>2. JournalAgreesWithLedger'
  BY DEF AgreeInv, JournalAgreesWithLedger
<1>3. WorkInv(next)' /\ Informed(next)
  BY RestingWorks
<1> QED BY <1>1, <1>2, <1>3, MoveAgrees

LEMMA EngineAgrees ==
  ASSUME AgreeInv, OneActive', NEW e \in Engines, EngineWorks(e)
  PROVE  AgreeInv'
<1> DEFINE p == engine[e]
           r == engine[e].reply
<1>s. /\ SystemInv /\ ServingInv /\ EngineStep(e) /\ Next
      /\ UNCHANGED <<ledger, broker, serving>>
  BY DEF AgreeInv, EngineWorks, Next, Progress, brokerVars
<1>n. SystemInv' /\ ServingInv'
  BY <1>s, SystemStep, ServingStep
<1>w. ~Waiting(e)
  BY <1>s, StepsAreAnswered
<1>k. /\ p.pc \in Calls => Truthful(p.pc, r, StateOf(p))
      /\ r \notin {Failure("InvalidTransition"), Failure("RuntimeError")}
      /\ p.pc = "deliver" => StateOf(p) = "DELIVERY_ATTEMPTED"
  BY <1>w DEF AgreeInv, KnowsInv, WorkInv, NoInternalError
<1>t. r \in Replies /\ p \in EngineType
  BY <1>s DEF SystemInv, Sound, EngineType
<1>m. Works(p) =>
        /\ StateOf(p) \in Entered
        /\ StateOf(p) \in Compatible(journal[p.att].state)
  BY <1>s DEF SystemInv, Sound, Recorded, StateOf, AgreeInv, JournalAgreesWithLedger
<1>c. \A pc : LET next == CallNext(e, pc) IN
        next.pc = pc /\ next.att = p.att /\ next.todo = p.todo /\ next.reply = NoReply
  BY <1>s, CallNextIs
<1>1. CASE StatusUnknown(e)
  <2>1. StateOf(p) \in AskedIn("submit") /\ p.pc = "status"
    BY <1>1, <1>k DEF StatusUnknown, Got, Truthful, AskedIn, Calls
  <2> QED BY <1>1, <1>s, <1>n, <1>w, <1>c, <2>1, GoesOnAgrees DEF StatusUnknown, Works
<1>2. CASE StatusAccepted(e)
  <2>1. StateOf(p) \in AskedIn("resume") /\ p.pc = "status"
    BY <1>2, <1>k DEF StatusAccepted, Got, Value, Truthful, AskedIn, Calls
  <2> QED BY <1>2, <1>s, <1>n, <1>w, <1>c, <2>1, GoesOnAgrees DEF StatusAccepted, Works
<1>3. CASE StatusDispatched(e)
  <2>1. StateOf(p) \in AskedIn("reconcile") /\ p.pc = "status"
    BY <1>3, <1>k DEF StatusDispatched, Got, Value, Truthful, AskedIn, Calls, Reconcilable
  <2> QED BY <1>3, <1>s, <1>n, <1>w, <1>c, <2>1, GoesOnAgrees DEF StatusDispatched, Works
<1>4. CASE StatusSettled(e)
  <2>1. /\ p.pc = "status" /\ StateOf(p) = Value(e) /\ Value(e) # Unrecorded
        /\ Value(e) \notin {"ACCEPTED", "IN_FLIGHT", "DELIVERY_ATTEMPTED"}
    BY <1>4, <1>k, <1>t, ReceiptIsRecorded
    DEF StatusSettled, Got, Value, Truthful, Calls, BrokerState, Unrecorded
  <2>2. Value(e) \in Targets /\ StateOf(p) \in Compatible(Value(e))
    BY <1>m, <2>1 DEF Works, Entered, Targets, Compatible, Unrecorded
  <2> QED BY <1>4, <1>s, <1>n, <1>w, <2>1, <2>2, CommitAgrees DEF StatusSettled, Works
<1>5. CASE ReconciledPresent(e)
  <2>1. p.pc = "reconcile" /\ StateOf(p) \in Compatible("VERIFIED")
    BY <1>5, <1>k DEF ReconciledPresent, Got, Value, Truthful, Calls, Compatible, Unrecorded
  <2> QED BY <1>5, <1>s, <1>n, <1>w, <2>1, CommitAgrees DEF ReconciledPresent, Works, Targets
<1>6. CASE ReconciledRetry(e)
  <2>1. p.pc = "reconcile" /\ StateOf(p) \in Compatible("SUPERSEDED")
    BY <1>6, <1>k DEF ReconciledRetry, Got, Value, Truthful, Calls, Compatible, Unrecorded
  <2> QED BY <1>6, <1>s, <1>n, <1>w, <2>1, CommitAgrees DEF ReconciledRetry, Works, Targets
<1>7. CASE ReconciledUncertain(e)
  <2>1. p.pc = "reconcile" /\ StateOf(p) \in Compatible("UNCERTAIN")
    BY <1>7, <1>k DEF ReconciledUncertain, Got, Value, Truthful, Calls, Compatible, Unrecorded
  <2> QED BY <1>7, <1>s, <1>n, <1>w, <2>1, CommitAgrees DEF ReconciledUncertain, Works, Targets
<1>8. CASE SubmitRejected(e)
  <2>1. /\ p.pc = "submit" /\ Value(e) \in Rejecting
        /\ StateOf(p) \in Compatible("REJECTED")
    BY <1>8, <1>k DEF SubmitRejected, Got, Value, Truthful, Calls, Compatible, Unrecorded
  <2>2. Informed(Raised(Value(e)))
    BY <2>1, RestingWorks DEF Rejecting
  <2> QED BY <1>8, <1>s, <1>n, <1>w, <2>1, <2>2, CommitAgrees DEF SubmitRejected, Works, Targets
<1>9. CASE CallRaises(e)
  <2>1. Value(e) \notin {"InvalidTransition", "RuntimeError"}
    BY <1>9, <1>k, <1>t, ReplyType DEF CallRaises, Value
  <2> QED BY <1>9, <1>s, <1>n, <1>w, <2>1, RestingWorks, EndsAgrees
          DEF CallRaises, Active, Calls
<1>10. CASE ReceiptDelivered(e)
  <2>1. p.pc \in {"submit", "resume"} /\ StateOf(p) = "DELIVERY_ATTEMPTED"
    BY <1>10, <1>k DEF ReceiptDelivered, Submitted, Got, Truthful, Calls
  <2>2. PICK next : /\ Become(e, next)
                    /\ \E pc \in {"deliver", "confirm"} :
                         next = [[p EXCEPT !.got = r.result, !.reply = NoReply] EXCEPT !.pc = pc]
    BY <1>10 DEF ReceiptDelivered
  <2>3. /\ next.att = p.att /\ next.todo = p.todo /\ next.reply = NoReply
        /\ next.pc \in {"deliver", "confirm"}
    BY <1>t, <2>2 DEF EngineType
  <2>4. StateOf(p) \in AskedIn(next.pc)
    BY <2>1, <2>3 DEF AskedIn
  <2> QED BY <1>10, <1>s, <1>n, <1>w, <2>1, <2>2, <2>3, <2>4, GoesOnAgrees
          DEF ReceiptDelivered, Works
<1>11. ~ReceiptInFlight(e) /\ ~ReceiptUnexpected(e)
  BY <1>k DEF ReceiptInFlight, ReceiptUnexpected, Submitted, Got, Value, Truthful, Calls
<1>12. CASE MarkDelivered(e)
  <2>1. /\ p.pc = "deliver" /\ StateOf(p) = "DELIVERY_ATTEMPTED"
        /\ StateOf(p) \in Compatible("DELIVERY_ATTEMPTED")
    BY <1>12, <1>k DEF MarkDelivered, Compatible, Unrecorded
  <2> QED BY <1>12, <1>s, <1>n, <1>w, <2>1, CommitAgrees DEF MarkDelivered, Works, Targets
<1>13. CASE Confirmed(e)
  <2>1. p.pc = "confirm" /\ StateOf(p) \in Compatible("VERIFIED")
    BY <1>13, <1>k DEF Confirmed, Got, Value, Truthful, Calls, Compatible, Unrecorded
  <2> QED BY <1>13, <1>s, <1>n, <1>w, <2>1, CommitAgrees DEF Confirmed, Works, Targets
<1>14. CASE Unconfirmed(e)
  <2>1. p.pc = "confirm" /\ StateOf(p) \in Compatible("UNCERTAIN")
    BY <1>14, <1>k DEF Unconfirmed, Got, Value, Truthful, Calls, Compatible, Unrecorded
  <2> QED BY <1>14, <1>s, <1>n, <1>w, <2>1, CommitAgrees DEF Unconfirmed, Works, Targets
<1>15. CASE Report(e)
  BY <1>15, <1>s, <1>n, <1>w, EndsAgrees DEF Report, Active
<1>16. ASSUME NEW a \in Attempts, Retry(e, a)
       PROVE  AgreeInv'
  BY <1>16, <1>s, <1>n, <1>w, RetryAgrees
<1> QED
  BY <1>s, <1>1, <1>2, <1>3, <1>4, <1>5, <1>6, <1>7, <1>8, <1>9, <1>10, <1>11, <1>12,
     <1>13, <1>14, <1>15, <1>16
  DEF EngineStep, Recovering, Consuming

LEMMA RequestAgrees ==
  ASSUME AgreeInv, SystemInv', ServingInv', OneActive',
         NEW e \in Engines, Request(e) \/ Recovery(e)
  PROVE  AgreeInv'
<1>0. UNCHANGED <<ledger, broker, serving>> /\ engine[e].pc = "idle"
  BY DEF Request, Execute, Recovery, Recover, brokerVars
<1>w. ~Waiting(e)
  BY <1>0 DEF Waiting, Calls
<1>1. ASSUME NEW a \in Attempts, NEW o \in Operations, Execute(e, a, o)
      PROVE  AgreeInv'
  <2>1. PICK next : next = [Resting EXCEPT !.pc = "submit", !.att = a, !.op = o]
    OBVIOUS
  <2>2. /\ next.pc = "submit" /\ next.att = a /\ next.reply = NoReply /\ next.todo = {}
    BY <2>1 DEF Resting
  <2>3. Become(e, next) /\ Prepare(a, o)
    BY <1>1, <2>1 DEF Execute
  <2> QED BY <1>0, <1>w, <2>2, <2>3, NewAgrees
<1>2. CASE Recovery(e)
  <2>1. PICK next : next = NextOf(Pending)
    OBVIOUS
  <2>2. Become(e, next) /\ UNCHANGED journal /\ Pending # {}
    BY <1>2, <2>1 DEF Recovery, Recover
  <2>3. Pending \subseteq Pending'
    BY <2>2 DEF Pending
  <2>4. WorkInv(next)' /\ Informed(next)
    BY <2>1, <2>3, NextWorks
  <2>5. next.pc = "status"
    BY <2>1, <2>2 DEF NextOf, Resting
  <2>6. JournalAgreesWithLedger'
    BY <1>0, <2>2 DEF AgreeInv, JournalAgreesWithLedger
  <2>7. next.pc \in Calls /\ next.pc # "idle"
    BY <2>5 DEF Calls
  <2> QED BY <1>0, <1>w, <2>2, <2>4, <2>6, <2>7, MoveAgrees
<1> QED BY <1>1, <1>2 DEF Request

LEMMA DeathAgrees ==
  ASSUME AgreeInv, SystemInv', ServingInv', OneActive',
         NEW e \in Engines, EngineCrash(e)
  PROVE  AgreeInv'
<1>t. engine \in [Engines -> EngineType]
  BY DEF AgreeInv, SystemInv, TypeOK
<1>0. UNCHANGED <<ledger, broker, journal>> /\ Active(e) /\ Become(e, Resting)
  BY DEF EngineCrash, brokerVars, Active
<1>1. \A x \in Engines : engine'[x] = Resting
  BY <1>t, <1>0 DEF Become, AgreeInv, OneActive, WorkInv, Active
<1>2. ASSUME NEW x \in Engines
      PROVE  /\ WorkInv(engine[x])' /\ KnowsInv(x)'
             /\ engine'[x].reply \notin {Failure("InvalidTransition"), Failure("RuntimeError")}
  <2>1. engine'[x].pc = "idle" /\ engine'[x].todo = {} /\ engine'[x].reply = NoReply
    BY <1>1 DEF Resting
  <2>2. WorkInv(engine[x])'
    BY <1>1, <2>1 DEF WorkInv, Works
  <2>3. KnowsInv(x)'
    BY <2>1 DEF KnowsInv, Active, Waiting, Calls
  <2> QED BY <2>1, <2>2, <2>3, ReplyKinds
<1>3. JournalAgreesWithLedger' /\ BusyInv' /\ NoInternalError'
      /\ \A a \in Attempts : ledger'[a].state \in Entered
  BY <1>0, <1>2
  DEF AgreeInv, JournalAgreesWithLedger, BusyInv, Busy, Free, Pending, At, Row, NoInternalError
<1> QED BY <1>2, <1>3 DEF AgreeInv

-----------------------------------------------------------------------------
(* The connections. *)

\* The ledger and the journal are as before, and the Broker is in no call.
LEMMA FreeKeeps ==
  ASSUME AgreeInv, UNCHANGED <<ledger, journal>>, broker'.pc \in {"idle", "down"}
  PROVE  /\ Free' /\ \A a \in Attempts : ~Busy(a)'
         /\ BusyInv' /\ JournalAgreesWithLedger'
         /\ \A a \in Attempts : ledger'[a].state \in Entered
<1>1. Free' /\ \A a \in Attempts : ~Busy(a)'
  BY DEF Free, Busy
<1>2. BusyInv'
  BY <1>1 DEF BusyInv, At
<1> QED BY <1>1, <1>2 DEF AgreeInv, JournalAgreesWithLedger

\* A process gets its answer, and the Broker is done or dead.
LEMMA AnswerAgrees ==
  ASSUME AgreeInv, SystemInv', ServingInv', UNCHANGED <<ledger, journal>>,
         broker'.pc \in {"idle", "down"},
         NEW e \in Engines, Waiting(e), NEW r, engine' = Answers(e, r), r # NoReply,
         r \notin {Failure("InvalidTransition"), Failure("RuntimeError")},
         Truthful(engine[e].pc, r, StateOf(engine[e]))
  PROVE  AgreeInv'
<1>t. engine \in [Engines -> EngineType]
  BY DEF AgreeInv, SystemInv, TypeOK
<1>1. /\ engine'[e].reply = r /\ engine'[e].pc = engine[e].pc
      /\ engine'[e].att = engine[e].att /\ engine'[e].todo = engine[e].todo
      /\ \A x \in Engines : x # e => engine'[x] = engine[x]
  BY <1>t DEF Answers, EngineType
<1>2. Active(e) /\ engine[e].pc \notin {"idle", "raise", "retry", "deliver"}
  BY DEF Active, Waiting, Calls
<1>3. \A x \in Engines : x # e => engine[x] = Resting
  BY <1>2 DEF AgreeInv, OneActive, WorkInv, Active
<1>4. OneActive' /\ NoInternalError'
  BY <1>1 DEF AgreeInv, OneActive, Active, NoInternalError
<1>5. /\ Free' /\ BusyInv' /\ JournalAgreesWithLedger'
      /\ \A a \in Attempts : ledger'[a].state \in Entered
  BY FreeKeeps
<1>6. WorkInv(engine[e])' /\ KnowsInv(e)'
  <2>1. WorkInv(engine[e])
    BY DEF AgreeInv
  <2>2. WorkInv(engine[e])'
    BY <1>1, <1>2, <2>1 DEF WorkInv, Works, Pending
  <2> QED BY <1>1, <1>5, <2>2 DEF KnowsInv, Waiting, StateOf
<1>7. ASSUME NEW x \in Engines, x # e
      PROVE  WorkInv(engine[x])' /\ KnowsInv(x)'
  <2>1. engine'[x] = Resting
    BY <1>1, <1>3, <1>7
  <2>2. Resting.pc = "idle" /\ Resting.todo = {}
    BY DEF Resting
  <2>3. WorkInv(engine[x])'
    BY <2>1, <2>2 DEF WorkInv, Works
  <2> QED BY <2>1, <2>2, <2>3 DEF KnowsInv, Active, Waiting, Calls
<1> QED BY <1>4, <1>5, <1>6, <1>7 DEF AgreeInv

\* The Broker dies in nobody's call, or starts.
LEMMA FreedAgrees ==
  ASSUME AgreeInv, SystemInv', ServingInv', UNCHANGED <<ledger, engineVars>>,
         broker'.pc \in {"idle", "down"}, serving = NoEngine, serving' = NoEngine
  PROVE  AgreeInv'
<1>1. UNCHANGED <<journal, engine>>
  BY DEF engineVars
<1>2. OneActive' /\ NoInternalError'
  BY <1>1 DEF AgreeInv, OneActive, Active, NoInternalError
<1>3. /\ Free' /\ BusyInv' /\ JournalAgreesWithLedger'
      /\ \A a \in Attempts : ledger'[a].state \in Entered /\ ~Busy(a)'
  BY <1>1, FreeKeeps
<1>4. ASSUME NEW e \in Engines
      PROVE  WorkInv(engine[e])' /\ KnowsInv(e)'
  <2>1. WorkInv(engine[e]) /\ KnowsInv(e) /\ e # NoEngine
    BY EnginesAssumption DEF AgreeInv
  <2>2. WorkInv(engine[e])'
    BY <1>1, <2>1 DEF WorkInv, Works, Pending, StateOf
  <2>3. CASE engine[e].pc \in {"status", "inquire"} \/ ~Waiting(e)
    BY <1>1, <1>3, <2>1, <2>2, <2>3 DEF KnowsInv, Active, Waiting, StateOf
  <2>4. CASE engine[e].pc \notin {"status", "inquire"} /\ Waiting(e)
    <3>1. engine[e].att \in Attempts /\ StateOf(engine[e]) \in AskedIn(engine[e].pc)
      BY <2>1, <2>4 DEF KnowsInv, WorkInv, Waiting, Calls, Works, Pending
    <3> QED BY <1>1, <1>3, <2>1, <2>2, <2>4, <3>1 DEF KnowsInv, Active, Waiting, StateOf
  <2> QED BY <2>3, <2>4
<1> QED BY <1>2, <1>3, <1>4 DEF AgreeInv

LEMMA ConnectAgrees ==
  ASSUME AgreeInv, SystemInv', ServingInv', NEW e \in Engines, Connect(e)
  PROVE  AgreeInv'
<1> DEFINE p == engine[e]
<1>0. /\ UNCHANGED <<ledger, journal, engine>> /\ At("idle") /\ Waiting(e)
      /\ broker'.att = p.att /\ broker'.pc = CallName(p.pc)
      /\ serving' = e
  BY DEF Connect, Receive, Idle, engineVars
<1>1. /\ p.pc \in {"status", "inquire"} => CallName(p.pc) = "status"
      /\ p.pc \in {"submit", "resume"} => CallName(p.pc) = "submit"
      /\ p.pc \in {"reconcile", "confirm"} => CallName(p.pc) = "reconcile"
      /\ p.pc \in {"status", "inquire", "submit", "resume", "reconcile", "confirm"}
  BY <1>0 DEF CallName, Waiting, Calls
<1>2. OneActive' /\ NoInternalError' /\ JournalAgreesWithLedger'
      /\ \A a \in Attempts : ledger'[a].state \in Entered
  BY <1>0 DEF AgreeInv, OneActive, Active, NoInternalError, JournalAgreesWithLedger
<1>3. serving = NoEngine
  BY <1>0 DEF AgreeInv, ServingInv, At
<1>4. /\ KnowsInv(e) /\ WorkInv(p) /\ e # NoEngine
      /\ p.pc \notin {"status", "inquire"} => p.att \in Pending
  BY <1>1, EnginesAssumption DEF AgreeInv, WorkInv, Works
<1>5. p.pc \notin {"status", "inquire"} => StateOf(p) \in AskedIn(p.pc)
  BY <1>0, <1>3, <1>4 DEF KnowsInv
<1>6. BusyInv'
  <2>1. \A a \in Attempts : Busy(a)' => a \in Pending'
    BY <1>0, <1>1, <1>4 DEF Busy, Pending
  <2>2. At("submit")' => Row'.state \in {Unrecorded, "ACCEPTED"}
    BY <1>0, <1>1, <1>5 DEF At, Row, StateOf, AskedIn
  <2>3. At("reconcile")' => Row'.state \in Reconcilable
    BY <1>0, <1>1, <1>5 DEF At, Row, StateOf, AskedIn, Reconcilable
  <2> QED BY <1>0, <1>1, <2>1, <2>2, <2>3 DEF BusyInv, At
<1>7. ASSUME NEW x \in Engines
      PROVE  WorkInv(engine[x])' /\ KnowsInv(x)'
  <2>1. WorkInv(engine[x]) /\ KnowsInv(x)
    BY DEF AgreeInv
  <2>2. WorkInv(engine[x])'
    BY <1>0, <2>1 DEF WorkInv, Works, Pending, StateOf
  <2>3. CASE x = e
    <3>1. p.pc = "confirm" => StateOf(p) = "DELIVERY_ATTEMPTED"
      BY <1>5 DEF AskedIn
    <3> QED BY <1>0, <1>1, <2>2, <2>3, <3>1 DEF KnowsInv, Active, Waiting, StateOf, At
  <2>4. CASE x # e
    <3>1. Active(e) /\ ~Active(x)
      BY <1>1, <2>4 DEF AgreeInv, OneActive, Active
    <3> QED BY <1>0, <2>2, <3>1 DEF KnowsInv, Active, Waiting, Calls
  <2> QED BY <2>3, <2>4
<1> QED BY <1>2, <1>6, <1>7 DEF AgreeInv

\* What a connection brings is as true as what went in.
LEMMA TransportedTruth ==
  ASSUME NEW r \in Replies, NEW c, NEW s, Truthful(c, r, s), r # NoReply
  PROVE  /\ Truthful(c, Transported(r), s)
         /\ Transported(r) # NoReply
         /\ Transported(r) \notin {Failure("InvalidTransition"), Failure("RuntimeError")}
<1> DEFINE t == Transported(r)
<1>1. CASE r.tag # "error" \/ r.value \in {"ApprovalDenied", "PolicyViolation", "ReplayConflict"}
  <2>1. t = r
    BY <1>1 DEF Transported
  <2> QED BY <1>1, <2>1, ReplyKinds
<1>2. CASE ~(r.tag # "error" \/ r.value \in {"ApprovalDenied", "PolicyViolation", "ReplayConflict"})
  <2>1. t = Failure("AutonomousIntelligenceError")
    BY <1>2 DEF Transported
  <2>2. t.tag = "error" /\ t.value = "AutonomousIntelligenceError"
    BY <2>1, ReplyKinds
  <2> HIDE DEF t
  <2>3. Truthful(c, t, s)
    BY <2>2 DEF Truthful, Rejecting
  <2>4. /\ t # NoReply
        /\ t \notin {Failure("InvalidTransition"), Failure("RuntimeError")}
    BY <2>2, ReplyKinds
  <2> QED BY <2>3, <2>4 DEF t
<1> QED BY <1>1, <1>2

\* A failure that is no rejection says nothing of the ledger.
LEMMA FailureTruth ==
  ASSUME NEW x, x \notin Rejecting \cup {"InvalidTransition", "RuntimeError"}
  PROVE  /\ \A c, s : Truthful(c, Failure(x), s)
         /\ Failure(x) # NoReply
         /\ Failure(x) \notin {Failure("InvalidTransition"), Failure("RuntimeError")}
<1>1. Failure(x).tag = "error" /\ Failure(x).value = x
  BY ReplyKinds
<1> QED BY <1>1, ReplyKinds DEF Truthful

\* Nothing here is about the files.
LEMMA EditAgrees ==
  ASSUME AgreeInv, SystemInv', ServingInv',
         UNCHANGED <<ledger, broker, journal, engine, serving>>
  PROVE  AgreeInv'
<1>1. OneActive' /\ NoInternalError' /\ JournalAgreesWithLedger' /\ BusyInv'
      /\ \A a \in Attempts : ledger'[a].state \in Entered
  BY DEF AgreeInv, OneActive, Active, NoInternalError, JournalAgreesWithLedger, BusyInv,
         Busy, Free, Pending, At, Row
<1>2. ASSUME NEW e \in Engines
      PROVE  WorkInv(engine[e])' /\ KnowsInv(e)'
  <2>1. WorkInv(engine[e]) /\ KnowsInv(e)
    BY DEF AgreeInv
  <2>2. WorkInv(engine[e])'
    BY <2>1 DEF WorkInv, Works, Pending, StateOf
  <2> QED BY <2>1, <2>2 DEF KnowsInv, Active, Waiting, Free, Busy, At, StateOf
<1> QED BY <1>1, <1>2 DEF AgreeInv

-----------------------------------------------------------------------------
(* The invariant. *)

\* One process at a time on the journal keeps the journal in agreement with the
\* ledger, whatever it is that sees to the one at a time.
LEMMA AgreeStep ==
  ASSUME AgreeInv, Next, OneActive'
  PROVE  AgreeInv'
<1>s. SystemInv /\ ServingInv /\ broker.reply \in Replies
  BY DEF AgreeInv, SystemInv, TypeOK, BrokerTypeOK, ProcessType
<1>n. SystemInv' /\ ServingInv'
  BY <1>s, SystemStep, ServingStep
<1>f. Idle.pc = "idle" /\ Down.pc = "down"
  BY DEF Idle, Down
<1>1. CASE BrokerWorks \/ (CallFails /\ UNCHANGED <<engineVars, serving>>)
  BY <1>1, BrokerAgrees DEF BrokerWorks
<1>2. CASE BrokerStart
  <2>1. serving = NoEngine
    BY <1>2, <1>s DEF BrokerStart, Start, At, ServingInv
  <2> QED BY <1>2, <1>n, <1>f, <2>1, FreedAgrees DEF BrokerStart, Start
<1>3. CASE HangUp
  BY <1>3, <1>n, <1>f, FreedAgrees DEF HangUp, ReplyBroken
<1>4. CASE Respond
  <2>1. /\ At("reply") /\ serving \in Engines /\ broker' = Idle
        /\ UNCHANGED <<ledger, journal>>
        /\ engine' = Answers(serving, Transported(broker.reply))
    BY <1>4, <1>s DEF Respond, Reply, SystemInv, TypeOK
  <2>2. Waiting(serving)
    BY <1>4, <1>s DEF Respond, ServingInv
  <2>3. Truthful(engine[serving].pc, broker.reply, StateOf(engine[serving]))
        /\ broker.reply # NoReply
    BY <2>1, <2>2 DEF AgreeInv, KnowsInv, BusyInv
  <2> QED BY <1>s, <1>n, <1>f, <2>1, <2>2, <2>3, TransportedTruth, AnswerAgrees
<1>5. CASE BrokerCrash
  <2>1. UNCHANGED <<ledger, journal>> /\ broker' = Down /\ serving' = NoEngine
    BY <1>5 DEF BrokerCrash, Kill
  <2>2. CASE serving = NoEngine
    BY <1>5, <1>n, <1>f, <2>1, <2>2, FreedAgrees DEF BrokerCrash, engineVars
  <2>3. CASE serving # NoEngine
    <3>1. /\ serving \in Engines /\ Waiting(serving)
          /\ engine' = Answers(serving, Failure("EOFError"))
      BY <1>5, <1>s, <2>3 DEF BrokerCrash, ServingInv, SystemInv, TypeOK
    <3> QED BY <1>n, <1>f, <2>1, <3>1, FailureTruth, AnswerAgrees DEF Rejecting
  <2> QED BY <2>2, <2>3
<1>6. CASE OutsideEdit
  BY <1>6, <1>n, EditAgrees DEF OutsideEdit, Edits, Edit, engineVars
<1>7. ASSUME NEW e \in Engines, TooLarge(e)
      PROVE  AgreeInv'
  <2>1. /\ UNCHANGED <<ledger, journal>> /\ broker' = Down /\ Waiting(e)
        /\ engine' = Answers(e, Failure("ValueError"))
    BY <1>7 DEF TooLarge
  <2> QED BY <1>n, <1>f, <2>1, FailureTruth, AnswerAgrees DEF Rejecting
<1>8. ASSUME NEW e \in Engines, ConnectionRefused(e)
      PROVE  AgreeInv'
  <2>1. /\ UNCHANGED <<ledger, journal, broker>> /\ broker.pc = "down" /\ Waiting(e)
        /\ engine' = Answers(e, Failure("Unavailable"))
    BY <1>8 DEF ConnectionRefused, brokerVars, At
  <2> QED BY <1>n, <2>1, FailureTruth, AnswerAgrees DEF Rejecting
<1>9. ASSUME NEW e \in Engines, Connect(e)
      PROVE  AgreeInv'
  BY <1>9, <1>n, ConnectAgrees
<1>10. ASSUME NEW e \in Engines, EngineWorks(e)
       PROVE  AgreeInv'
  BY <1>10, EngineAgrees
<1>11. ASSUME NEW e \in Engines, Request(e) \/ Recovery(e)
       PROVE  AgreeInv'
  BY <1>11, <1>n, RequestAgrees
<1>12. ASSUME NEW e \in Engines, EngineCrash(e)
       PROVE  AgreeInv'
  BY <1>12, <1>n, DeathAgrees
<1> QED
  BY <1>1, <1>2, <1>3, <1>4, <1>5, <1>6, <1>7, <1>8, <1>9, <1>10, <1>11, <1>12
  DEF Next, Progress, Fault

LEMMA AgreeInit == Init => AgreeInv
<1> SUFFICES ASSUME Init PROVE AgreeInv
  OBVIOUS
<1>1. SystemInv /\ ServingInv
  BY SystemInitInv DEF Init, ServingInv
<1>2. \A e \in Engines : engine[e] = Resting
  BY DEF Init, EngineInit
<1>3. Resting.pc = "idle" /\ Resting.todo = {} /\ Resting.reply = NoReply
  BY DEF Resting
<1>4. broker.pc = "down"
  BY DEF Init, BrokerInit, Down
<1>5. OneActive /\ NoInternalError
  BY <1>2, <1>3, ReplyKinds DEF OneActive, Active, NoInternalError
<1>6. JournalAgreesWithLedger /\ \A a \in Attempts : ledger[a].state \in Entered
  BY DEF JournalAgreesWithLedger, Init, BrokerInit, EngineInit, NoRow, Unprepared, Compatible,
         Entered, Unrecorded
<1>7. BusyInv
  BY <1>4 DEF BusyInv, Busy, Free, At
<1>8. ASSUME NEW e \in Engines
      PROVE  WorkInv(engine[e]) /\ KnowsInv(e)
  BY <1>2, <1>3 DEF WorkInv, KnowsInv, Active, Waiting, Works, Calls
<1> QED BY <1>1, <1>5, <1>6, <1>7, <1>8 DEF AgreeInv

-----------------------------------------------------------------------------
(* The adapter. *)

\* Where the steps of execute and recover begin, and what they never come to.
LEMMA StepsOfTools ==
  ASSUME SystemInv, NEW e \in Engines, EngineStep(e)
  PROVE  /\ Active(e)
         /\ engine'[e].pc # "inquire"
         /\ \A x \in Engines : x # e => engine'[x] = engine[x]
<1>t. engine \in [Engines -> EngineType]
  BY DEF SystemInv, TypeOK
<1>d. \A todo : NextOf(todo).pc \in {"idle", "status"}
  BY DEF NextOf, Resting
<1>r. Resting.pc = "idle" /\ \A x : Raised(x).pc = "raise"
  BY DEF Resting, Raised
<1>c. \A pc : CallNext(e, pc).pc = pc
  BY CallNextIs
<1>b. ASSUME NEW next, Become(e, next)
      PROVE  engine'[e] = next /\ \A x \in Engines : x # e => engine'[x] = engine[x]
  BY <1>t, <1>b DEF Become
<1>j. ASSUME NEW target, NEW result, NEW after, JournalCommit(e, target, result, after),
             after.pc # "inquire"
      PROVE  engine'[e].pc # "inquire" /\ \A x \in Engines : x # e => engine'[x] = engine[x]
  <2>1. Become(e, after) \/ Become(e, Raised("InvalidTransition"))
    BY <1>j DEF JournalCommit
  <2> QED BY <1>b, <1>j, <1>r, <2>1
<1>1. CASE StatusUnknown(e) \/ StatusAccepted(e) \/ StatusDispatched(e) \/ ReceiptInFlight(e)
           \/ CallRaises(e) \/ ReceiptUnexpected(e) \/ Report(e)
  BY <1>1, <1>b, <1>c, <1>r
  DEF StatusUnknown, StatusAccepted, StatusDispatched, ReceiptInFlight, CallRaises,
      ReceiptUnexpected, Report, Active, Got, Submitted, Calls
<1>2. CASE StatusSettled(e) \/ ReconciledPresent(e) \/ ReconciledUncertain(e)
           \/ Confirmed(e) \/ Unconfirmed(e)
  <2>1. Done(e).pc # "inquire"
    BY <1>d DEF Done
  <2> QED BY <1>2, <1>j, <2>1
          DEF StatusSettled, ReconciledPresent, ReconciledUncertain, Confirmed, Unconfirmed,
              Active, Got
<1>3. CASE ReconciledRetry(e) \/ MarkDelivered(e) \/ SubmitRejected(e)
  BY <1>3, <1>j, <1>c, <1>r DEF ReconciledRetry, MarkDelivered, SubmitRejected, Active, Got
<1>4. CASE ReceiptDelivered(e)
  <2>1. PICK next : /\ Become(e, next)
                    /\ \E pc \in {"deliver", "confirm"} :
                         next = [[engine[e] EXCEPT !.got = engine[e].reply.result,
                                                   !.reply = NoReply] EXCEPT !.pc = pc]
    BY <1>4 DEF ReceiptDelivered
  <2>2. next.pc \in {"deliver", "confirm"}
    BY <1>t, <2>1 DEF EngineType
  <2> QED BY <1>4, <1>b, <2>1, <2>2 DEF ReceiptDelivered, Submitted, Active, Got
<1>5. ASSUME NEW a \in Attempts, Retry(e, a)
      PROVE  /\ Active(e) /\ engine'[e].pc # "inquire"
             /\ \A x \in Engines : x # e => engine'[x] = engine[x]
  <2>1. PICK next : next = [CallNext(e, "submit") EXCEPT !.att = a]
    OBVIOUS
  <2>2. next.pc = "submit"
    BY <1>t, <2>1 DEF CallNext, EngineType
  <2> QED BY <1>5, <1>b, <2>1, <2>2 DEF Retry, Active
<1> QED BY <1>1, <1>2, <1>3, <1>4, <1>5 DEF EngineStep, Recovering, Consuming

\* The status tool moves its thread and nothing else.
LEMMA ShowKeeps ==
  ASSUME SystemInv, ServingInv, UNCHANGED <<brokerVars, journal, serving>>,
         NEW e \in Engines, ~Waiting(e), NEW next, Sound(next), Become(e, next)
  PROVE  SystemInv' /\ ServingInv'
<1>1. EnginesKept
  BY UnchangedKept, MoveKept DEF Become
<1>2. UNCHANGED <<ledger, approvals, files, broker, applied>>
  BY DEF brokerVars
<1>3. BrokerInv'
  BY <1>2, BrokerInvStep DEF SystemInv, brokerVars
<1>4. SystemInv'
  BY <1>1, <1>2, <1>3
  DEF SystemInv, TypeOK, EnginesKept, RowsKept, BrokerInv, JournalFirst, At, Recorded
<1>5. serving # e /\ (serving # NoEngine => serving \in Engines /\ engine'[serving] = engine[serving])
  BY EnginesAssumption DEF ServingInv, SystemInv, TypeOK, Become
<1>6. ServingInv'
  BY <1>2, <1>5 DEF ServingInv, Waiting
<1> QED BY <1>4, <1>6

\* The Broker, the connections and the other programs stop no tool and start none.
LEMMA OutsideLeaves ==
  ASSUME SystemInv, Outside
  PROVE  /\ Next /\ UNCHANGED journal
         /\ \A e \in Engines : engine'[e].pc = engine[e].pc /\ engine'[e].att = engine[e].att
<1>t. engine \in [Engines -> EngineType]
  BY DEF SystemInv, TypeOK
<1>a. ASSUME NEW e, NEW r, engine' = Answers(e, r)
      PROVE  \A x \in Engines : engine'[x].pc = engine[x].pc /\ engine'[x].att = engine[x].att
  BY <1>t, <1>a DEF Answers, EngineType
<1>1. Next
  BY DEF Outside, Next, Progress, Fault
<1>2. UNCHANGED journal
  BY DEF Outside, BrokerWorks, BrokerStart, Respond, HangUp, BrokerCrash, OutsideEdit,
         Connect, TooLarge, ConnectionRefused, engineVars
<1>3. engine' = engine \/ \E e, r : engine' = Answers(e, r)
  BY DEF Outside, BrokerWorks, BrokerStart, Respond, HangUp, BrokerCrash, OutsideEdit,
         Connect, TooLarge, ConnectionRefused, engineVars
<1> QED BY <1>1, <1>2, <1>3, <1>a

\* The thread whose tool runs is the only one that the death of the adapter stops.
LEMMA CrashOfAll ==
  ASSUME McpInv, AdapterCrash
  PROVE  \E e \in Engines : EngineCrash(e)
<1>s. AgreeInv /\ LockInv /\ SystemInv /\ ServingInv /\ engine \in [Engines -> EngineType]
  BY DEF McpInv, AgreeInv, SystemInv, TypeOK
<1>1. PICK e \in Engines : Active(e)
  BY <1>s DEF AdapterCrash, LockFree, LockInv
<1>2. \A x \in Engines : x # e => engine[x] = Resting
  BY <1>s, <1>1 DEF AgreeInv, OneActive, WorkInv, Active
<1>3. serving \in {e, NoEngine}
  BY <1>s, <1>1 DEF ServingInv, Waiting, Calls, SystemInv, TypeOK, AgreeInv, OneActive, Active
<1> QED BY <1>s, <1>1, <1>2, <1>3 DEF AdapterCrash, EngineCrash, Become, Active

LEMMA McpStep == McpInv /\ [McpNext]_mcpVars => McpInv'
<1> SUFFICES ASSUME McpInv, [McpNext]_mcpVars PROVE McpInv'
  OBVIOUS
<1>s. /\ AgreeInv /\ LockInv /\ SystemInv /\ ServingInv
      /\ engine \in [Engines -> EngineType] /\ journal \in [Attempts -> JournalType]
      /\ tool \in [Engines -> {NoTool, "execute", "recover", "status"}]
      /\ seen \in [Engines -> EngineState \cup {Unrecorded}]
  BY DEF McpInv, LockInv, AgreeInv, SystemInv, TypeOK
<1>l. LockFree => \A x \in Engines : ~Active(x)
  BY <1>s DEF LockFree, LockInv
<1>r. Resting.pc = "idle"
  BY DEF Resting
<1>1. ASSUME NEW e \in Engines, FileTool(e) \/ RecoverTool(e)
      PROVE  McpInv'
  <2>1. /\ Next /\ LockFree /\ UNCHANGED seen /\ engine[e].pc = "idle"
        /\ \E t \in {"execute", "recover"} : tool' = [tool EXCEPT ![e] = t]
        /\ \E next : Become(e, next) /\ next.pc \in {"submit", "status"}
    <3>1. Pending # {} => NextOf(Pending).pc = "status"
      BY DEF NextOf, Resting
    <3>2. \A a, o : [Resting EXCEPT !.pc = "submit", !.att = a, !.op = o].pc = "submit"
      BY DEF Resting
    <3> QED BY <1>1, <3>1, <3>2
            DEF FileTool, RecoverTool, Enter, Request, Execute, Recovery, Recover, Next, Progress
  <2>2. /\ engine'[e].pc \in {"submit", "status"}
        /\ \A x \in Engines : x # e => engine'[x] = engine[x] /\ ~Active(x)
    BY <1>s, <1>l, <2>1 DEF Become
  <2>3. OneActive'
    BY <2>2 DEF OneActive, Active
  <2>4. AgreeInv'
    BY <1>s, <2>1, <2>3, AgreeStep
  <2>5. LockInv'
    BY <1>s, <2>1, <2>2 DEF LockInv, Active, NoTool
  <2> QED BY <2>4, <2>5 DEF McpInv
<1>2. ASSUME NEW e \in Engines, StatusTool(e)
      PROVE  McpInv'
  <2>1. PICK a \in Attempts : /\ Become(e, [Resting EXCEPT !.pc = "inquire", !.att = a])
                              /\ seen' = [seen EXCEPT ![e] = journal[a].state]
    BY <1>2 DEF StatusTool
  <2>2. PICK next : next = [Resting EXCEPT !.pc = "inquire", !.att = a]
    OBVIOUS
  <2>3. /\ next.pc = "inquire" /\ next.att = a /\ next.todo = {} /\ next.reply = NoReply
        /\ next \in EngineType
    BY <2>2, NoReplyType DEF Resting, EngineType, EnginePc, Calls, Results
  <2>4. /\ LockFree /\ UNCHANGED <<brokerVars, journal, serving>> /\ ~Waiting(e)
        /\ UNCHANGED <<ledger, broker>>
        /\ tool' = [tool EXCEPT ![e] = "status"] /\ Become(e, next)
    BY <1>2, <2>1, <2>2 DEF StatusTool, Enter, Waiting, Calls, brokerVars
  <2>5. /\ engine'[e] = next
        /\ \A x \in Engines : x # e => engine'[x] = engine[x] /\ ~Active(x)
    BY <1>s, <1>l, <2>4 DEF Become
  <2>6. Sound(next)
    BY <2>3 DEF Sound, Works
  <2>7. SystemInv' /\ ServingInv'
    BY <1>s, <2>4, <2>6, ShowKeeps
  <2>8. OneActive' /\ JournalAgreesWithLedger'
    BY <1>s, <2>4, <2>5 DEF OneActive, Active, AgreeInv, JournalAgreesWithLedger
  <2>9. WorkInv(next)' /\ Informed(next) /\ next.pc \in Calls /\ next.pc # "idle"
    BY <2>3, ReplyKinds DEF WorkInv, Works, Informed, Calls
  <2>10. AgreeInv'
    BY <1>s, <2>4, <2>7, <2>8, <2>9, MoveAgrees
  <2>11. LockInv'
    BY <1>s, <2>1, <2>3, <2>4, <2>5 DEF LockInv, Active, NoTool, JournalType
  <2> QED BY <2>10, <2>11 DEF McpInv
<1>3. ASSUME NEW e \in Engines, StatusShown(e)
      PROVE  McpInv'
  <2>1. /\ Become(e, Resting) /\ Release(e) /\ UNCHANGED <<brokerVars, journal, serving>>
        /\ UNCHANGED <<ledger, broker>> /\ seen' = [seen EXCEPT ![e] = Unrecorded]
        /\ Active(e) /\ ~Waiting(e)
    BY <1>3, ReplyKinds DEF StatusShown, Got, Active, Waiting, brokerVars
  <2>2. /\ engine'[e] = Resting
        /\ \A x \in Engines : x # e => engine'[x] = engine[x] /\ ~Active(x)
    BY <1>s, <2>1 DEF Become, AgreeInv, OneActive
  <2>3. SystemInv' /\ ServingInv'
    BY <1>s, <2>1, RestingSound, ShowKeeps
  <2>4. OneActive'
    BY <1>r, <2>2 DEF OneActive, Active
  <2>5. AgreeInv'
    BY <1>s, <2>1, <2>3, <2>4, EndsAgrees
  <2>6. LockInv'
    BY <1>s, <1>r, <2>1, <2>2 DEF LockInv, Release, Active
  <2> QED BY <2>5, <2>6 DEF McpInv
<1>4. ASSUME NEW e \in Engines, ToolWorks(e)
      PROVE  McpInv'
  <2>1. /\ EngineWorks(e) /\ EngineStep(e) /\ Release(e)
        /\ seen' = IF engine'[e].pc = "idle" THEN [seen EXCEPT ![e] = Unrecorded] ELSE seen
    BY <1>4 DEF ToolWorks, EngineWorks
  <2>2. /\ Active(e) /\ engine'[e].pc # "inquire"
        /\ \A x \in Engines : x # e => engine'[x] = engine[x]
    BY <1>s, <2>1, StepsOfTools
  <2>3. \A x \in Engines : x # e => engine'[x] = engine[x] /\ ~Active(x)
    BY <1>s, <2>2 DEF AgreeInv, OneActive
  <2>4. OneActive'
    BY <2>3 DEF OneActive, Active
  <2>5. AgreeInv'
    BY <1>s, <2>1, <2>4, EngineAgrees
  <2>6. LockInv'
    BY <1>s, <2>1, <2>2, <2>3 DEF LockInv, Release, Active
  <2> QED BY <2>5, <2>6 DEF McpInv
<1>5. CASE AdapterCrash
  <2>1. Next
    BY <1>5, CrashOfAll DEF Next, Fault, McpInv
  <2>2. OneActive'
    BY <1>5, <1>r DEF AdapterCrash, OneActive, Active
  <2>3. AgreeInv'
    BY <1>s, <2>1, <2>2, AgreeStep
  <2>4. LockInv'
    BY <1>5, <1>r DEF AdapterCrash, LockInv, Active
  <2> QED BY <2>3, <2>4 DEF McpInv
<1>6. CASE Outside /\ UNCHANGED <<tool, seen>>
  <2>1. /\ Next /\ UNCHANGED journal
        /\ \A e \in Engines : engine'[e].pc = engine[e].pc /\ engine'[e].att = engine[e].att
    BY <1>s, <1>6, OutsideLeaves
  <2>2. OneActive'
    BY <1>s, <2>1 DEF AgreeInv, OneActive, Active
  <2>3. AgreeInv'
    BY <1>s, <2>1, <2>2, AgreeStep
  <2>4. LockInv'
    BY <1>s, <1>6, <2>1 DEF LockInv, Active
  <2> QED BY <2>3, <2>4 DEF McpInv
<1>7. CASE UNCHANGED mcpVars
  <2>1. UNCHANGED vars /\ UNCHANGED <<ledger, broker, journal, engine, serving, tool, seen>>
    BY <1>7 DEF mcpVars, vars, brokerVars, engineVars
  <2>2. SystemInv' /\ ServingInv'
    BY <1>s, <2>1, SystemStep DEF ServingInv, Waiting
  <2>3. AgreeInv'
    BY <1>s, <2>1, <2>2, EditAgrees
  <2>4. LockInv'
    BY <1>s, <2>1 DEF LockInv, Active
  <2> QED BY <2>3, <2>4 DEF McpInv
<1> QED BY <1>1, <1>2, <1>3, <1>4, <1>5, <1>6, <1>7 DEF McpNext

LEMMA McpInitInv == McpInit => McpInv
<1> SUFFICES ASSUME McpInit PROVE McpInv
  OBVIOUS
<1>1. AgreeInv
  BY AgreeInit DEF McpInit
<1>2. \A e \in Engines : engine[e].pc = "idle"
  BY DEF McpInit, Init, EngineInit, Resting
<1>3. LockInv
  BY <1>2 DEF McpInit, LockInv, Active
<1> QED BY <1>1, <1>3 DEF McpInv

\* The invariant of the adapter holds in every state that it reaches.
THEOREM McpInvariant == McpSpec => []McpInv
<1> QED BY McpInitInv, McpStep, PTL DEF McpSpec

\* Whatever crashes, of the adapter and the Broker, the journal says of every
\* attempt what the authoritative ledger says, up to what has not been read yet
\* (engine.py:51-142).
THEOREM JournalAgrees == McpSpec => []JournalAgreesWithLedger
<1>1. McpInv => JournalAgreesWithLedger
  BY DEF McpInv, AgreeInv
<1> QED BY <1>1, McpInvariant, PTL

\* A write that the journal calls REJECTED has not been made, and is not made
\* later (engine.py:35-41).
THEOREM RejectedWithoutEffect == McpSpec => []RejectedHasNoEffect
<1>1. McpInv => RejectedHasNoEffect
  <2> SUFFICES ASSUME McpInv, NEW a \in Attempts, journal[a].state = "REJECTED"
               PROVE  applied[a] = 0
    BY DEF RejectedHasNoEffect
  <2>1. ledger[a].state \in Compatible("REJECTED")
    BY DEF McpInv, AgreeInv, JournalAgreesWithLedger
  <2>2. ledger[a].state \in {Unrecorded, "ACCEPTED", "REJECTED"}
    BY <2>1 DEF Compatible, Unrecorded
  <2> QED BY <2>2 DEF McpInv, AgreeInv, SystemInv, BrokerInv, RowInv
<1> QED BY <1>1, McpInvariant, PTL

\* No tool runs into a forbidden transition or a receipt it does not know
\* (engine.py:113).
THEOREM NoToolFailsInternally == McpSpec => []NoInternalError
<1>1. McpInv => NoInternalError
  BY DEF McpInv, AgreeInv
<1> QED BY <1>1, McpInvariant, PTL

\* The two states that the status tool shows are compatible, although it reads
\* them one after the other (mcp_server.py:267-272).
THEOREM StatusShownIsConsistent == McpSpec => []StatusIsConsistent
<1>1. McpInv => StatusIsConsistent
  <2> SUFFICES ASSUME McpInv, NEW e \in Engines,
                      Got(e, "inquire", "receipt") \/ Got(e, "inquire", "none")
               PROVE  Value(e) \in Compatible(seen[e])
    BY DEF StatusIsConsistent
  <2>1. /\ engine[e].pc = "inquire" /\ engine[e].reply \in Replies
        /\ engine[e].att \in Attempts
    BY DEF Got, McpInv, AgreeInv, SystemInv, Sound, EngineType
  <2>2. Truthful("inquire", engine[e].reply, StateOf(engine[e]))
    BY <2>1, ReplyKinds DEF Got, McpInv, AgreeInv, KnowsInv, Waiting, Calls
  <2>3. engine[e].reply.tag = "none" => Value(e) = Unrecorded
    <3>1. engine[e].reply.tag = "none" => engine[e].reply = NoReceipt
      <4>1. \/ engine[e].reply \in {NoReply, NoReceipt}
            \/ \E o \in Outcomes : engine[e].reply = Outcome(o)
            \/ \E x \in Errors : engine[e].reply = Failure(x)
            \/ \E t \in BrokerState, v \in Results :
                 engine[e].reply = Receipt([state |-> t, result |-> v])
        BY <2>1 DEF Replies
      <4> QED BY <4>1, ReplyKinds
    <3> QED BY <3>1 DEF Value, NoReceipt
  <2>4. Value(e) = ledger[engine[e].att].state
    BY <2>2, <2>3 DEF Got, Value, Truthful, StateOf
  <2>5. seen[e] = journal[engine[e].att].state
    BY <2>1 DEF McpInv, LockInv
  <2> QED BY <2>1, <2>4, <2>5 DEF McpInv, AgreeInv, JournalAgreesWithLedger
<1> QED BY <1>1, McpInvariant, PTL

\* Every variable of the adapter's system keeps its type.
THEOREM McpTypeCorrect == McpSpec => []TypeOK
<1>1. McpInv => TypeOK
  BY DEF McpInv, AgreeInv, SystemInv
<1> QED BY <1>1, McpInvariant, PTL

-----------------------------------------------------------------------------
(* Without the adapter: one process on the journal. *)

OneEngine == \A e, x \in Engines : e = x

LEMMA AgreeStutters ==
  ASSUME AgreeInv, UNCHANGED vars
  PROVE  AgreeInv'
<1>1. UNCHANGED <<ledger, broker, journal, engine, serving>>
  BY DEF vars, brokerVars, engineVars
<1>2. SystemInv' /\ ServingInv'
  BY <1>1, SystemStep DEF AgreeInv, ServingInv, Waiting
<1> QED BY <1>1, <1>2, EditAgrees

\* The same holds of the commands, when they run on the journal one after the
\* other: the lock of the adapter is not what it rests on (cli.py:104-156).
THEOREM AgreementAlone ==
  ASSUME OneEngine
  PROVE  Spec => []AgreeInv
<1>1. AgreeInv /\ [Next]_vars => AgreeInv'
  <2>1. ASSUME AgreeInv, Next
        PROVE  AgreeInv'
    <3>1. OneActive'
      BY DEF OneEngine, OneActive
    <3> QED BY <2>1, <3>1, AgreeStep
  <2> QED BY <2>1, AgreeStutters
<1> QED BY <1>1, AgreeInit, PTL DEF Spec

=============================================================================
