------------------------------- MODULE Engine -------------------------------
(***************************************************************************)
(* The AutonomousEngine: processes that share one journal, each of which   *)
(* executes a request or recovers the pending ones, one at a time.  (The   *)
(* MCP adapter is one such process on its own journal; every invocation of *)
(* the CLI is one on the CLI's journal.)                                   *)
(*                                                                         *)
(* One action is one durable commit or the handling of one reply.  A       *)
(* process waits at a call until its connection has a reply; who gives it  *)
(* is left to the module that composes the Engine with the Broker.         *)
(***************************************************************************)
EXTENDS Models

CONSTANT Engines

VARIABLES
  journal,  \* engine_attempts, by attempt_id
  engine    \* each process: where it is, on which attempt, with which reply

engineVars == <<journal, engine>>

Unprepared == [state |-> Unrecorded, op |-> NoOperation, result |-> NoResult]

Resting == [pc |-> "idle", att |-> NoAttempt, op |-> NoOperation,
            todo |-> {}, got |-> NoResult, reply |-> NoReply]

\* The calls a process can wait in.  execute submits; _recover_request asks for
\* the status, then resumes or reconciles; _consume_receipt confirms.  A tool or
\* command that shows an attempt inquires.
Calls == {"submit", "status", "resume", "reconcile", "confirm", "inquire"}

EnginePc == Calls \cup {"idle", "deliver", "retry", "raise"}

\* The operation a call carries to the Broker.
CallName(pc) ==
  CASE pc \in {"submit", "resume"}     -> "submit"
    [] pc \in {"status", "inquire"}    -> "status"
    [] pc \in {"reconcile", "confirm"} -> "reconcile"

EngineInit ==
  /\ journal = [a \in Attempts |-> Unprepared]
  /\ engine  = [e \in Engines |-> Resting]

-----------------------------------------------------------------------------

Waiting(e)    == engine[e].pc \in Calls /\ engine[e].reply = NoReply
Answers(e, r) == [engine EXCEPT ![e].reply = r]

\* A reply of the given kind has arrived at the call `pc'.
Got(e, pc, tag) == engine[e].pc = pc /\ engine[e].reply.tag = tag
Value(e)        == engine[e].reply.value

Become(e, next) == engine' = [engine EXCEPT ![e] = next]

CallNext(e, pc) == [engine[e] EXCEPT !.pc = pc, !.reply = NoReply]
Raised(err)     == [Resting EXCEPT !.pc = "raise", !.reply = Failure(err)]

\* Mutant: a delivered attempt is not pending.
PendingMutant == {a \in Attempts : journal[a].state = "PREPARED"}

\* pending(): the attempts recover() walks through, oldest first.
Pending == {a \in Attempts : journal[a].state \in {"PREPARED", "DELIVERY_ATTEMPTED"}}

\* _recover_request on the first of `todo', or recover()'s return.
NextOf(todo) ==
  IF todo = {} THEN Resting
  ELSE LET a == CHOOSE a \in todo : \A b \in todo : a <= b
       IN  [Resting EXCEPT !.pc = "status", !.att = a, !.op = journal[a].op,
                           !.todo = todo \ {a}]

Done(e) == NextOf(engine[e].todo)

\* EngineJournal.transition on the attempt of the process, then on to `after'.
\* A forbidden transition raises out of execute or recover.
JournalCommit(e, target, result, after) ==
  LET a     == engine[e].att
      legal == target \in EngineTransitions(journal[a].state)
  IN  /\ journal' = IF legal
                    THEN [journal EXCEPT
                            ![a].state  = target,
                            ![a].result = Coalesce(NoResult, result, @)]
                    ELSE journal
      /\ Become(e, IF legal \/ journal[a].state = target
                   THEN after
                   ELSE Raised("InvalidTransition"))

\* Mutant: the request goes out before the journal has it.
PrepareMutant(a, o) ==
  /\ journal[a].state = Unrecorded
  /\ UNCHANGED journal

\* EngineJournal.prepare of a fresh attempt_id.
Prepare(a, o) ==
  /\ journal[a].state = Unrecorded
  /\ journal' = [journal EXCEPT ![a] = [state |-> "PREPARED", op |-> o,
                                        result |-> NoResult]]

-----------------------------------------------------------------------------
(* execute and recover *)

\* A request with a fresh attempt_id and a fresh logical_operation_id.
Execute(e, a, o) ==
  /\ engine[e].pc = "idle"
  /\ \A b \in Attempts : journal[b].op # o
  /\ Prepare(a, o)
  /\ Become(e, [Resting EXCEPT !.pc = "submit", !.att = a, !.op = o])

Recover(e) ==
  /\ engine[e].pc = "idle"
  /\ Pending # {}
  /\ Become(e, NextOf(Pending))
  /\ UNCHANGED journal

-----------------------------------------------------------------------------
(* _recover_request *)

\* No row at the Broker: execute() again, whose prepare finds the row there.
StatusUnknown(e) ==
  /\ Got(e, "status", "none")
  /\ Become(e, CallNext(e, "submit"))
  /\ UNCHANGED journal

StatusAccepted(e) ==
  /\ Got(e, "status", "receipt")
  /\ Value(e) = "ACCEPTED"
  /\ Become(e, CallNext(e, "resume"))
  /\ UNCHANGED journal

StatusDispatched(e) ==
  /\ Got(e, "status", "receipt")
  /\ Value(e) \in {"IN_FLIGHT", "DELIVERY_ATTEMPTED"}
  /\ Become(e, CallNext(e, "reconcile"))
  /\ UNCHANGED journal

\* The Broker's final states have the same names in the journal.
StatusSettled(e) ==
  /\ Got(e, "status", "receipt")
  /\ Value(e) \notin {"ACCEPTED", "IN_FLIGHT", "DELIVERY_ATTEMPTED"}
  /\ JournalCommit(e, Value(e), NoResult, Done(e))

\* Mutant: an uncertain outcome passes for a verified one.
ReconciledPresentMutant(e) ==
  /\ Got(e, "reconcile", "outcome")
  /\ Value(e) \in {"EFFECT_PRESENT", "UNCERTAIN"}
  /\ JournalCommit(e, "VERIFIED", Reconciled, Done(e))

ReconciledPresent(e) ==
  /\ Got(e, "reconcile", "outcome")
  /\ Value(e) = "EFFECT_PRESENT"
  /\ JournalCommit(e, "VERIFIED", Reconciled, Done(e))

\* Mutant: an uncertain attempt is retried too.
ReconciledRetryMutant(e) ==
  /\ Got(e, "reconcile", "outcome")
  /\ Value(e) \in {"RETRY_SAFE", "UNCERTAIN"}
  /\ JournalCommit(e, "SUPERSEDED", NoResult, CallNext(e, "retry"))

ReconciledRetry(e) ==
  /\ Got(e, "reconcile", "outcome")
  /\ Value(e) = "RETRY_SAFE"
  /\ JournalCommit(e, "SUPERSEDED", NoResult, CallNext(e, "retry"))

ReconciledUncertain(e) ==
  /\ Got(e, "reconcile", "outcome")
  /\ Value(e) \notin {"EFFECT_PRESENT", "RETRY_SAFE"}
  /\ JournalCommit(e, "UNCERTAIN", NoResult, Done(e))

\* execute() of the same operation under a fresh attempt_id.
Retry(e, a) ==
  /\ engine[e].pc = "retry"
  /\ Prepare(a, engine[e].op)
  /\ Become(e, [CallNext(e, "submit") EXCEPT !.att = a])

-----------------------------------------------------------------------------
(* execute's handling of the submission, and _consume_receipt *)

\* Only execute() catches these; a resumed submission lets them through.
Rejecting == {"ApprovalDenied", "PolicyViolation"}

\* Mutant: a rejection is reported and not recorded.
SubmitRejectedMutant(e) ==
  /\ Got(e, "submit", "error")
  /\ Value(e) \in Rejecting
  /\ Become(e, Raised(Value(e)))
  /\ UNCHANGED journal

SubmitRejected(e) ==
  /\ Got(e, "submit", "error")
  /\ Value(e) \in Rejecting
  /\ JournalCommit(e, "REJECTED", NoResult, Raised(Value(e)))

\* Mutant: a submission that failed is tried again at once.
CallRaisesMutant(e) ==
  /\ Got(e, "submit", "error")
  /\ Become(e, CallNext(e, "retry"))
  /\ UNCHANGED journal

\* Every other exception leaves execute() or recover(), the rest of the
\* pending attempts included.
CallRaises(e) ==
  /\ engine[e].reply.tag = "error"
  /\ \/ engine[e].pc \in Calls \ {"submit"}
     \/ engine[e].pc = "submit" /\ Value(e) \notin Rejecting
  /\ Become(e, Raised(Value(e)))
  /\ UNCHANGED journal

Submitted(e) == \E pc \in {"submit", "resume"} : Got(e, pc, "receipt")

ReceiptDelivered(e) ==
  /\ Submitted(e)
  /\ Value(e) = "DELIVERY_ATTEMPTED"
  /\ LET got   == [engine[e] EXCEPT !.got = engine[e].reply.result,
                                    !.reply = NoReply]
         fresh == journal[engine[e].att].state = "PREPARED"
     IN  Become(e, [got EXCEPT !.pc = IF fresh THEN "deliver" ELSE "confirm"])
  /\ UNCHANGED journal

ReceiptInFlight(e) ==
  /\ Submitted(e)
  /\ Value(e) = "IN_FLIGHT"
  /\ Become(e, CallNext(e, "status"))
  /\ UNCHANGED journal

ReceiptUnexpected(e) ==
  /\ Submitted(e)
  /\ Value(e) \notin {"DELIVERY_ATTEMPTED", "IN_FLIGHT"}
  /\ Become(e, Raised("RuntimeError"))
  /\ UNCHANGED journal

MarkDelivered(e) ==
  /\ engine[e].pc = "deliver"
  /\ JournalCommit(e, "DELIVERY_ATTEMPTED", engine[e].got, CallNext(e, "confirm"))

\* Mutant: the outcome of the confirmation is not looked at.
ConfirmedMutant(e) ==
  /\ Got(e, "confirm", "outcome")
  /\ JournalCommit(e, "VERIFIED", engine[e].got, Done(e))

Confirmed(e) ==
  /\ Got(e, "confirm", "outcome")
  /\ Value(e) = "EFFECT_PRESENT"
  /\ JournalCommit(e, "VERIFIED", engine[e].got, Done(e))

Unconfirmed(e) ==
  /\ Got(e, "confirm", "outcome")
  /\ Value(e) # "EFFECT_PRESENT"
  /\ JournalCommit(e, "UNCERTAIN", NoResult, Done(e))

\* The exception reaches the caller, who sees it and goes on.
Report(e) ==
  /\ engine[e].pc = "raise"
  /\ Become(e, Resting)
  /\ UNCHANGED journal

-----------------------------------------------------------------------------

Recovering(e) ==
  \/ StatusUnknown(e) \/ StatusAccepted(e) \/ StatusDispatched(e)
  \/ StatusSettled(e)
  \/ ReconciledPresent(e) \/ ReconciledRetry(e) \/ ReconciledUncertain(e)
  \/ \E a \in Attempts : Retry(e, a)

Consuming(e) ==
  \/ ReceiptDelivered(e) \/ ReceiptInFlight(e) \/ ReceiptUnexpected(e)
  \/ MarkDelivered(e) \/ Confirmed(e) \/ Unconfirmed(e)

\* What a process does by itself once it has been asked to do something.
EngineStep(e) ==
  Recovering(e) \/ Consuming(e) \/ SubmitRejected(e) \/ CallRaises(e) \/ Report(e)

-----------------------------------------------------------------------------

JournalType ==
  [state  : EngineState \cup {Unrecorded},
   op     : Operations \cup {NoOperation},
   result : Results]

EngineType ==
  [pc    : EnginePc,
   att   : Attempts \cup {NoAttempt},
   op    : Operations \cup {NoOperation},
   todo  : SUBSET Attempts,
   got   : Results,
   reply : Replies]

=============================================================================
