------------------------------- MODULE Broker -------------------------------
(***************************************************************************)
(* The ExecutionBroker: one process that serves one call at a time over    *)
(* a durable ledger and the files of the workspace.                        *)
(*                                                                         *)
(* One action is one durable commit or one look at the workspace; between  *)
(* any two of them the process may be killed, another program may edit a   *)
(* file, or the clock may advance.  The ledger and the files survive a     *)
(* kill, everything in the record `broker' is lost.                        *)
(***************************************************************************)
EXTENDS Models

CONSTANTS
  ApprovalIds,  \* approval_id values: bounds the approvals one run can issue
  Editable      \* the paths that programs other than the Broker write to

ASSUME ApprovalIdsAssumption == NoApproval \notin ApprovalIds
ASSUME EditableAssumption == Editable \subseteq Paths

VARIABLES
  ledger,     \* broker_attempts, by attempt_id
  approvals,  \* approvals, by approval_id
  files,      \* content of each workspace path
  broker,     \* the process: where it is in which call
  applied     \* history: how often os.replace ran for an attempt

brokerVars == <<ledger, approvals, files, broker, applied>>

NoRow == [state |-> Unrecorded, op |-> NoOperation,
          approval |-> NoApproval, result |-> NoResult]

Unissued == [att |-> NoAttempt, op |-> NoOperation, consumed |-> FALSE]

Idle == [pc |-> "idle", att |-> NoAttempt, op |-> NoOperation,
         approval |-> NoApproval, seen |-> NoResult, reply |-> NoReply]
Down == [Idle EXCEPT !.pc = "down"]

\* Where the process can be: the three calls, the steps of submit, of the
\* executor and of reconcile, and the reply on the connection.
BrokerPc ==
  {"idle", "down", "submit", "status", "reconcile", "recheck", "approve",
   "consume", "dispatch", "execute", "exists", "replace", "check",
   "deliver", "receipt", "reply"}

Executing == {"execute", "exists", "replace", "check"}

BrokerInit ==
  /\ ledger    = [a \in Attempts |-> NoRow]
  /\ approvals = [k \in ApprovalIds |-> Unissued]
  /\ files     \in [Paths -> Contents \cup {Absent}]
  /\ broker    = Down
  /\ applied   = [a \in Attempts |-> 0]

-----------------------------------------------------------------------------

At(pc)    == broker.pc = pc
Goto(pc)  == broker' = [broker EXCEPT !.pc = pc]
Answered(r) == [broker EXCEPT !.pc = "reply", !.reply = r]
Answer(r) == broker' = Answered(r)

Row == ledger[broker.att]

\* The row an UPDATE leaves; approval_id and result_json are coalesced.
Updated(row, target, approval, result) ==
  [row EXCEPT !.state    = target,
              !.approval = Coalesce(NoApproval, approval, row.approval),
              !.result   = Coalesce(NoResult, result, row.result)]

\* BrokerLedger.transition on the attempt of the call, then on to `after'.
\* A transition to the current state returns before the UPDATE; one that the
\* table does not list raises, and the exception becomes the reply.
Commit(target, approval, result, after) ==
  LET legal == target \in BrokerTransitions(Row.state)
  IN  /\ ledger' = IF legal
                   THEN [ledger EXCEPT ![broker.att] =
                           Updated(@, target, approval, result)]
                   ELSE ledger
      /\ broker' = IF legal \/ Row.state = target
                   THEN after
                   ELSE Answered(Failure("InvalidTransition"))

-----------------------------------------------------------------------------
(* The policy, the executor's checks and the postconditions. *)

Exists(o) == files[Params[o].path] # Absent

\* BrokerPolicy.evaluate: the static screening, then what it asks the file
\* system.  A read resolves its path strictly, so a missing file is an OSError.
Verdict(o) ==
  CASE Params[o].screening # "pass" -> Params[o].screening
    [] /\ Params[o].screening = "pass"
       /\ Params[o].action = "read_file"
       /\ ~Exists(o) -> "OSError"
    [] /\ Params[o].screening = "pass"
       /\ Params[o].action = "write_file_atomic"
       /\ Exists(o)
       /\ ~Params[o].overwrite -> "PolicyViolation"
    [] OTHER -> "pass"

\* Mutant: only an overwrite asks the human.
RequiresApprovalMutant(o) == Params[o].overwrite

RequiresApproval(o) == Params[o].action # "read_file"

\* _write_file_atomic: the prior-hash precondition and the overwrite guard.
PriorMatches(o) == Params[o].prior \in {NoHash, files[Params[o].path]}
TargetFree(o)   == Exists(o) => Params[o].overwrite

\* SemanticActionExecutor.verify
Verify(o) ==
  IF Params[o].action = "read_file"
  THEN Exists(o)
  ELSE files[Params[o].path] = Params[o].content

\* SemanticActionExecutor.precondition_allows_retry
PreconditionAllowsRetry(o) ==
  \/ Params[o].action = "read_file"
  \/ /\ Params[o].prior # NoHash
     /\ files[Params[o].path] = Params[o].prior
  \/ /\ Params[o].prior = NoHash
     /\ ~Exists(o)

-----------------------------------------------------------------------------
(* submit, up to the dispatch. *)

\* accept a connection and read one call from it
Receive(call, a, o) ==
  /\ At("idle")
  /\ broker' = [Idle EXCEPT !.pc = call, !.att = a, !.op = o]
  /\ UNCHANGED <<ledger, approvals, files, applied>>

\* Where submit goes with a row in ACCEPTED.
AfterAccepted(row) ==
  [broker EXCEPT
     !.approval = row.approval,
     !.pc = IF RequiresApproval(broker.op) /\ row.approval = NoApproval
            THEN "approve" ELSE "dispatch"]

\* An unknown attempt_id that the policy lets through is recorded ACCEPTED.
Accept ==
  /\ At("submit")
  /\ Row.state = Unrecorded
  /\ Verdict(broker.op) = "pass"
  /\ LET row == [NoRow EXCEPT !.state = "ACCEPTED", !.op = broker.op]
     IN  /\ ledger' = [ledger EXCEPT ![broker.att] = row]
         /\ broker' = AfterAccepted(row)
  /\ UNCHANGED <<approvals, files, applied>>

\* An unknown attempt_id that the policy rejects leaves no record.
Refuse ==
  /\ At("submit")
  /\ Row.state = Unrecorded
  /\ Verdict(broker.op) # "pass"
  /\ Answer(Failure(Verdict(broker.op)))
  /\ UNCHANGED <<ledger, approvals, files, applied>>

\* A known attempt_id with another payload hash.
Mutated == Row.op # broker.op

ReplayConflict ==
  /\ At("submit")
  /\ Row.state # Unrecorded
  /\ Mutated
  /\ Answer(Failure("ReplayConflict"))
  /\ UNCHANGED <<ledger, approvals, files, applied>>

\* Mutant: an attempt cut off in flight is dispatched again.
ResumableMutant == Row.state \in {"ACCEPTED", "IN_FLIGHT"}

\* Only an ACCEPTED attempt is resumed; any other state is just returned.
Resumable == Row.state = "ACCEPTED"

\* Mutant: whatever the row holds, the resubmission goes on with what it carries.
ResumeMutant ==
  /\ At("submit")
  /\ Row.state # Unrecorded
  /\ Resumable
  /\ broker' = AfterAccepted(Row)
  /\ UNCHANGED <<ledger, approvals, files, applied>>

\* It goes on with the parameters of the row.
Resume ==
  /\ At("submit")
  /\ Row.state # Unrecorded
  /\ ~Mutated
  /\ Resumable
  /\ broker' = [AfterAccepted(Row) EXCEPT !.op = Row.op]
  /\ UNCHANGED <<ledger, approvals, files, applied>>

Duplicate ==
  /\ At("submit")
  /\ Row.state # Unrecorded
  /\ ~Mutated
  /\ ~Resumable
  /\ Answer(Receipt(Row))
  /\ UNCHANGED <<ledger, approvals, files, applied>>

\* The human says no.
Deny ==
  /\ At("approve")
  /\ Commit("REJECTED", NoApproval, NoResult,
            Answered(Failure("ApprovalDenied")))
  /\ UNCHANGED <<approvals, files, applied>>

\* The human says yes: a token for this attempt and payload is recorded.
Issue(k) ==
  /\ At("approve")
  /\ approvals[k] = Unissued
  /\ approvals' = [approvals EXCEPT
       ![k] = [att |-> broker.att, op |-> broker.op, consumed |-> FALSE]]
  /\ broker' = [broker EXCEPT !.pc = "consume", !.approval = k]
  /\ UNCHANGED <<ledger, files, applied>>

\* The token is bound to the attempt and payload of the call, and unused.
Redeemable(k) ==
  /\ approvals[k].att = broker.att
  /\ approvals[k].op = broker.op
  /\ ~approvals[k].consumed

\* Mutant: the token is checked and not marked.
ConsumeMutant ==
  /\ At("consume")
  /\ Redeemable(broker.approval)
  /\ Goto("dispatch")
  /\ UNCHANGED <<ledger, approvals, files, applied>>

Consume ==
  /\ At("consume")
  /\ Redeemable(broker.approval)
  /\ approvals' = [approvals EXCEPT ![broker.approval].consumed = TRUE]
  /\ Goto("dispatch")
  /\ UNCHANGED <<ledger, files, applied>>

\* The clock passed expires_at between issue and consume: ApprovalDenied from
\* the authority's own test, ReplayConflict from the later test of the ledger.
\* Neither touches the attempt's row.
ConsumeExpired(e) ==
  /\ At("consume")
  /\ Answer(Failure(e))
  /\ UNCHANGED <<ledger, approvals, files, applied>>

Dispatch ==
  /\ At("dispatch")
  /\ Commit("IN_FLIGHT", broker.approval, NoResult,
            [broker EXCEPT !.pc = "execute"])
  /\ UNCHANGED <<approvals, files, applied>>

-----------------------------------------------------------------------------
(* The executor, and what submit does with its result. *)

ReadFile ==
  /\ At("execute")
  /\ Params[broker.op].action = "read_file"
  /\ Exists(broker.op)
  /\ broker' = [broker EXCEPT !.pc = "deliver",
                              !.seen = files[Params[broker.op].path]]
  /\ UNCHANGED <<ledger, approvals, files, applied>>

CheckPrior ==
  /\ At("execute")
  /\ Params[broker.op].action = "write_file_atomic"
  /\ PriorMatches(broker.op)
  /\ Goto("exists")
  /\ UNCHANGED <<ledger, approvals, files, applied>>

CheckTarget ==
  /\ At("exists")
  /\ TargetFree(broker.op)
  /\ Goto("replace")
  /\ UNCHANGED <<ledger, approvals, files, applied>>

Replace ==
  /\ At("replace")
  /\ files' = [files EXCEPT ![Params[broker.op].path] = Params[broker.op].content]
  /\ applied' = [applied EXCEPT ![broker.att] = @ + 1]
  /\ broker' = [broker EXCEPT !.pc = "check", !.seen = Params[broker.op].content]
  /\ UNCHANGED <<ledger, approvals>>

CheckWritten ==
  /\ At("check")
  /\ files[Params[broker.op].path] = Params[broker.op].content
  /\ Goto("deliver")
  /\ UNCHANGED <<ledger, approvals, files, applied>>

\* Mutant: a failed execution is recorded as a delivery.
RaiseMutant ==
  /\ broker.pc \in Executing
  /\ Commit("DELIVERY_ATTEMPTED", NoApproval, NoResult,
            Answered(Failure("RecoveryRequired")))
  /\ UNCHANGED <<approvals, files, applied>>

\* The executor raises: one of its checks fails, or the operating system
\* refuses a read, the temporary file or the replacement.  The handler marks
\* the attempt UNCERTAIN, whatever was or was not done.
Raise ==
  /\ broker.pc \in Executing
  /\ Commit("UNCERTAIN", NoApproval, NoResult,
            Answered(Failure("RecoveryRequired")))
  /\ UNCHANGED <<approvals, files, applied>>

Deliver ==
  /\ At("deliver")
  /\ Commit("DELIVERY_ATTEMPTED", NoApproval, broker.seen,
            [broker EXCEPT !.pc = "receipt"])
  /\ UNCHANGED <<approvals, files, applied>>

\* Mutant: a missing row is not told apart.
ReturnReceiptMutant ==
  /\ broker.pc \in {"receipt", "status"}
  /\ Answer(Receipt(Row))
  /\ UNCHANGED <<ledger, approvals, files, applied>>

\* submit's last step and the whole of status: read the row back.
ReturnReceipt ==
  /\ broker.pc \in {"receipt", "status"}
  /\ Answer(IF Row.state = Unrecorded THEN NoReceipt ELSE Receipt(Row))
  /\ UNCHANGED <<ledger, approvals, files, applied>>

-----------------------------------------------------------------------------
(* reconcile *)

\* Mutant: an attempt that was not dispatched is reconciled like one that was.
ReconcilableMutant == {"ACCEPTED", "IN_FLIGHT", "DELIVERY_ATTEMPTED"}

Reconcilable == {"IN_FLIGHT", "DELIVERY_ATTEMPTED"}

ReconcileSettled ==
  /\ At("reconcile")
  /\ Row.state \notin Reconcilable
  /\ Answer(Outcome(CASE Row.state = Unrecorded -> "NOT_FOUND"
                      [] Row.state = "ACCEPTED" -> "RESUME_SAFE"
                      [] OTHER -> Row.state))
  /\ UNCHANGED <<ledger, approvals, files, applied>>

\* The postcondition holds.  Only an IN_FLIGHT row changes.
ReconcilePresent ==
  /\ At("reconcile")
  /\ Row.state \in Reconcilable
  /\ Verify(Row.op)
  /\ Commit("DELIVERY_ATTEMPTED", NoApproval, Reconciled,
            Answered(Outcome("EFFECT_PRESENT")))
  /\ UNCHANGED <<approvals, files, applied>>

ReconcileAbsent ==
  /\ At("reconcile")
  /\ Row.state \in Reconcilable
  /\ ~Verify(Row.op)
  /\ Goto("recheck")
  /\ UNCHANGED <<ledger, approvals, files, applied>>

RetrySafe ==
  /\ Row.state = "IN_FLIGHT"
  /\ ActionClass(Row.op) \in {"PURE", "RECONCILABLE"}
  /\ PreconditionAllowsRetry(Row.op)

ReconcileRetry ==
  /\ At("recheck")
  /\ RetrySafe
  /\ Commit("SUPERSEDED", NoApproval, NoResult, Answered(Outcome("RETRY_SAFE")))
  /\ UNCHANGED <<approvals, files, applied>>

ReconcileUncertain ==
  /\ At("recheck")
  /\ ~RetrySafe
  /\ Commit("UNCERTAIN", NoApproval, NoResult, Answered(Outcome("UNCERTAIN")))
  /\ UNCHANGED <<approvals, files, applied>>

-----------------------------------------------------------------------------

\* The prompt raises, because nobody is at the Broker's terminal, or hashing the
\* target does; nothing has been committed yet.
CallFails ==
  /\ \/ At("approve")
     \/ At("reconcile") /\ Row.state \in Reconcilable
     \/ At("recheck")
  /\ Answer(Failure(IF At("approve") THEN "EOFError" ELSE "OSError"))
  /\ UNCHANGED <<ledger, approvals, files, applied>>

-----------------------------------------------------------------------------
(* The server loop, and what happens to the process and to the files. *)

\* The reply is sent and the connection closed.
Reply ==
  /\ At("reply")
  /\ broker' = Idle
  /\ UNCHANGED <<ledger, approvals, files, applied>>

\* Mutant: the server waits for a client that is gone.
ReplyBrokenMutant ==
  /\ At("reply")
  /\ UNCHANGED brokerVars

\* The client hung up: send_bytes raises outside the try, the serve loop ends
\* and the process exits.
ReplyBroken ==
  /\ At("reply")
  /\ broker' = Down
  /\ UNCHANGED <<ledger, approvals, files, applied>>

Kill ==
  /\ ~At("down")
  /\ broker' = Down
  /\ UNCHANGED <<ledger, approvals, files, applied>>

Start ==
  /\ At("down")
  /\ broker' = Idle
  /\ UNCHANGED <<ledger, approvals, files, applied>>

Edit(p, c) ==
  /\ files' = [files EXCEPT ![p] = c]
  /\ UNCHANGED <<ledger, approvals, broker, applied>>

-----------------------------------------------------------------------------

\* The steps of a call in progress, those that wait for the human included.
Submitting ==
  \/ Accept \/ Refuse \/ ReplayConflict \/ Resume \/ Duplicate
  \/ Deny
  \/ \E k \in ApprovalIds : Issue(k)
  \/ Consume
  \/ \E e \in {"ApprovalDenied", "ReplayConflict"} : ConsumeExpired(e)
  \/ Dispatch
  \/ ReadFile \/ CheckPrior \/ CheckTarget \/ Replace \/ CheckWritten \/ Raise
  \/ Deliver

Reconciling ==
  \/ ReconcileSettled \/ ReconcilePresent \/ ReconcileAbsent
  \/ ReconcileRetry \/ ReconcileUncertain

BrokerStep == Submitting \/ Reconciling \/ ReturnReceipt

Edits == \E p \in Editable, c \in Contents \cup {Absent} : Edit(p, c)

\* A client may submit any payload under any attempt_id, and ask about any.
Call ==
  \/ \E a \in Attempts, o \in Operations : Receive("submit", a, o)
  \/ \E a \in Attempts, c \in {"status", "reconcile"} : Receive(c, a, NoOperation)

BrokerNext ==
  \/ Call \/ BrokerStep \/ CallFails \/ Reply \/ ReplyBroken
  \/ Kill \/ Start \/ Edits

BrokerSpec == BrokerInit /\ [][BrokerNext]_brokerVars

-----------------------------------------------------------------------------
(* What the Broker keeps true. *)

RowType ==
  [state    : BrokerState \cup {Unrecorded},
   op       : Operations \cup {NoOperation},
   approval : ApprovalIds \cup {NoApproval},
   result   : Results]

ApprovalType ==
  [att      : Attempts \cup {NoAttempt},
   op       : Operations \cup {NoOperation},
   consumed : BOOLEAN]

ProcessType ==
  [pc       : BrokerPc,
   att      : Attempts \cup {NoAttempt},
   op       : Operations \cup {NoOperation},
   approval : ApprovalIds \cup {NoApproval},
   seen     : Results,
   reply    : Replies]

\* The type of every variable.
BrokerTypeOK ==
  /\ ledger \in [Attempts -> RowType]
  /\ approvals \in [ApprovalIds -> ApprovalType]
  /\ files \in [Paths -> Contents \cup {Absent}]
  /\ broker \in ProcessType
  /\ applied \in [Attempts -> Nat]

\* A consumed approval that names exactly this attempt and this operation.
Approved(a, o, k) ==
  /\ k \in ApprovalIds
  /\ approvals[k].att = a
  /\ approvals[k].op = o
  /\ approvals[k].consumed = TRUE

\* However often the Broker is killed, restarted, asked again or asked under a
\* reused attempt_id, os.replace runs at most once for an attempt: only an
\* ACCEPTED row is dispatched, and IN_FLIGHT is durable before the executor
\* starts (broker.py:62, 90).
EffectAtMostOnce == \A a \in Attempts : applied[a] <= 1

\* A file changed by an attempt was changed under the approval recorded in its
\* row, which a human gave for exactly that attempt and that operation, and
\* which is used up (broker.py:77-94, approval.py:85-97).  So no two effects
\* share an approval.
EffectWasApproved ==
  \A a \in Attempts :
    applied[a] > 0 => Approved(a, ledger[a].op, ledger[a].approval)

\* The replacement is made while the row is durably IN_FLIGHT, with the payload
\* that the row records and not with that of a later call (broker.py:90-100):
\* an attempt that recovery has settled has no late effect.
EffectIsRecorded ==
  [][\A a \in Attempts : applied'[a] # applied[a] =>
       /\ ledger[a].state = "IN_FLIGHT"
       /\ files'[Params[ledger[a].op].path] = Params[ledger[a].op].content]_brokerVars

\* A receipt that says DELIVERY_ATTEMPTED carries evidence: the content this
\* attempt wrote or read, or the mark that reconcile found the postcondition
\* true.  A failed dispatch is never reported as a delivery (broker.py:102-116).
DeliveryHasEvidence ==
  \A a \in Attempts : ledger[a].state = "DELIVERY_ATTEMPTED" =>
    \/ ledger[a].result = Reconciled
    \/ ledger[a].result \in Contents /\ Params[ledger[a].op].action = "read_file"
    \/ ledger[a].result = Params[ledger[a].op].content /\ applied[a] = 1

\* What os.replace replaces is what the executor checked: the prior content the
\* caller expects, and no file at all unless it may be overwritten ("Use
\* expected_prior_sha256 for safe compare-and-swap overwrites",
\* mcp_server.py:172; actions.py:67-87).
ReplacesOnlyWhatItChecked ==
  [][\A a \in Attempts : applied'[a] # applied[a] =>
       /\ PriorMatches(ledger[a].op)
       /\ TargetFree(ledger[a].op)]_brokerVars

\* Recovery gives up a write that was in flight only when it may not retry it
\* ("Precondition for recovery retry: the target is absent, or its current hash
\* equals expected_prior_hash", docs/PROTOCOL.md:51; actions.py:45-49).
GivesUpOnlyWithoutPrecondition ==
  [][/\ At("recheck")
     /\ Row.state = "IN_FLIGHT"
     /\ RequiresApproval(Row.op)
     /\ ledger'[broker.att].state = "UNCERTAIN"
     => files[Params[Row.op].path] \notin {Absent, Params[Row.op].prior}]_brokerVars

\* No handler attempts a transition that the table forbids: the one process
\* that serves one call at a time never finds its own row moved under it.
NoInvalidTransition == broker.reply # Failure("InvalidTransition")

-----------------------------------------------------------------------------
(* What the Broker needs of its surroundings for some of its promises. *)

\* No other program writes the files of the operations.
Undisturbed == \A o \in Operations : Params[o].path \notin Editable

\* The write o may find the content c and replace it.
Overwrites(o, c) ==
  /\ Params[o].action = "write_file_atomic"
  /\ Params[o].prior \in {NoHash, c}
  /\ Params[o].overwrite

\* Along the order, a write leaves its file as it is or takes it forward.
Forward(order) ==
  /\ \A p \in Paths, c \in Contents : <<c, c>> \notin order[p]
  /\ \A p \in Paths, b, c, d \in Contents :
       <<b, c>> \in order[p] /\ <<c, d>> \in order[p] => <<b, d>> \in order[p]
  /\ \A o \in Operations, c \in Contents : Overwrites(o, c) =>
       \/ c = Params[o].content
       \/ <<c, Params[o].content>> \in order[Params[o].path]

\* No sequence of writes brings a file back to a content that one of them has
\* replaced: the contents of each file have an order.
NothingRestored ==
  \E order \in [Paths -> SUBSET (Contents \X Contents)] : Forward(order)

-----------------------------------------------------------------------------
(* The abstract contract, seen through the ledger. *)

Consented(a) == \E k \in ApprovalIds : Approved(a, ledger[a].op, k)

Contract == INSTANCE DispatchContract WITH
  Gated     <- {o \in Operations : RequiresApproval(o)},
  NoSubject <- NoOperation,
  status    <- [a \in Attempts |-> ledger[a].state],
  subject   <- [a \in Attempts |-> ledger[a].op],
  consent   <- [a \in Attempts |-> Consented(a)],
  effects   <- applied

\* The Broker implements the contract: whatever is killed, repeated or asked in
\* between, what its ledger, its approvals and its replacements show is the
\* dispatch order of docs/PROTOCOL.md:22-31.
ImplementsContract == Contract!Spec

-----------------------------------------------------------------------------

PreDispatch == {"approve", "consume", "dispatch"}
InFlight    == Executing \cup {"deliver"}

\* What the process knows of the row it works on, at each step of a call.
CallInv ==
  /\ broker.pc \notin {"idle", "down", "reply"} => broker.att \in Attempts
  /\ At("submit") => broker.op \in Operations
  /\ broker.pc \in PreDispatch =>
       /\ Row.state = "ACCEPTED"
       /\ Row.op = broker.op
  /\ broker.pc \in InFlight =>
       /\ Row.state = "IN_FLIGHT"
       /\ Row.op = broker.op
       /\ RequiresApproval(broker.op) => Approved(broker.att, broker.op, Row.approval)
  /\ broker.pc \in {"execute", "exists", "replace"} => applied[broker.att] = 0
  /\ broker.pc \in {"exists", "replace", "check"} =>
       Params[broker.op].action = "write_file_atomic"
  /\ broker.pc \in {"check", "deliver"} /\ RequiresApproval(broker.op) =>
       /\ applied[broker.att] = 1
       /\ broker.seen = Params[broker.op].content
  /\ At("deliver") /\ ~RequiresApproval(broker.op) => broker.seen \in Contents
  /\ At("consume") =>
       broker.approval \in ApprovalIds /\ Redeemable(broker.approval)
  /\ At("dispatch") /\ RequiresApproval(broker.op) =>
       Approved(broker.att, broker.op, broker.approval)
  /\ At("recheck") => Row.state \in Reconcilable

\* What the rows say of the effects.
RowInv ==
  \A a \in Attempts :
    /\ ledger[a].state # Unrecorded => ledger[a].op \in Operations
    /\ ledger[a].state = "ACCEPTED" => ledger[a].approval = NoApproval
    /\ ledger[a].state \in {Unrecorded, "ACCEPTED", "REJECTED"} => applied[a] = 0

\* The inductive invariant behind the four properties it contains.
BrokerInv ==
  /\ BrokerTypeOK
  /\ CallInv
  /\ RowInv
  /\ EffectAtMostOnce
  /\ EffectWasApproved
  /\ DeliveryHasEvidence
  /\ NoInvalidTransition

=============================================================================
