-------------------------- MODULE TransactionSystem --------------------------
(***************************************************************************)
(* Engines and the Broker, joined by connections that carry one call each. *)
(*                                                                         *)
(* A process of either side may die at any point.  An Engine whose call is *)
(* cut off sees a connection error; a Broker whose client is gone dies of  *)
(* the reply it cannot send.                                               *)
(***************************************************************************)
EXTENDS Broker, Engine, FiniteSets

CONSTANT Oversized  \* operations whose request exceeds MAX_MESSAGE_BYTES

VARIABLE serving  \* the Engine whose call the Broker is serving

vars == <<brokerVars, engineVars, serving>>

NoEngine == "NO_ENGINE"

ASSUME EnginesAssumption == NoEngine \notin Engines

Init == BrokerInit /\ EngineInit /\ serving = NoEngine

-----------------------------------------------------------------------------

\* Mutant: the look-up of the exception type has no default.
TransportedMutant(reply) ==
  IF \/ reply.tag # "error"
     \/ reply.value \in {"ApprovalDenied", "PolicyViolation", "ReplayConflict"}
  THEN reply
  ELSE Failure("KeyError")

\* RemoteBrokerClient._call keeps the type of three exceptions.
Transported(reply) ==
  IF \/ reply.tag # "error"
     \/ reply.value \in {"ApprovalDenied", "PolicyViolation", "ReplayConflict"}
  THEN reply
  ELSE Failure("AutonomousIntelligenceError")

\* Only submit carries more than the attempt_id.
Sendable(e) == CallName(engine[e].pc) = "submit" => engine[e].op \notin Oversized

\* The Broker takes the connection of a waiting Engine.
Connect(e) ==
  /\ Waiting(e)
  /\ Sendable(e)
  /\ LET call == CallName(engine[e].pc)
     IN  Receive(call, engine[e].att,
                 IF call = "submit" THEN engine[e].op ELSE NoOperation)
  /\ serving' = e
  /\ UNCHANGED engineVars

\* The client raises once it is connected and closes the connection, and the
\* Broker dies of the reply to it.
TooLarge(e) ==
  /\ Waiting(e)
  /\ ~Sendable(e)
  /\ At("idle")
  /\ engine' = Answers(e, Failure("ValueError"))
  /\ broker' = Down
  /\ UNCHANGED <<ledger, approvals, files, applied, journal, serving>>

Respond ==
  /\ serving # NoEngine
  /\ Reply
  /\ engine' = Answers(serving, Transported(broker.reply))
  /\ serving' = NoEngine
  /\ UNCHANGED journal

\* The client of this call is gone.
HangUp ==
  /\ serving = NoEngine
  /\ ReplyBroken
  /\ UNCHANGED <<engineVars, serving>>

\* The Broker dies, and with it the connection it was serving.
BrokerCrash ==
  /\ Kill
  /\ engine' = IF serving = NoEngine THEN engine
               ELSE Answers(serving, Failure("EOFError"))
  /\ serving' = NoEngine
  /\ UNCHANGED journal

\* No Broker listens.
ConnectionRefused(e) ==
  /\ Waiting(e)
  /\ At("down")
  /\ engine' = Answers(e, Failure("Unavailable"))
  /\ UNCHANGED <<brokerVars, journal, serving>>

\* The Engine dies; a call the Broker has taken goes on without a client.
EngineCrash(e) ==
  /\ engine[e].pc # "idle"
  /\ Become(e, Resting)
  /\ serving' = IF serving = e THEN NoEngine ELSE serving
  /\ UNCHANGED <<brokerVars, journal>>

-----------------------------------------------------------------------------

BrokerWorks == BrokerStep /\ UNCHANGED <<engineVars, serving>>
BrokerStart == Start /\ UNCHANGED <<engineVars, serving>>

EngineWorks(e) == EngineStep(e) /\ UNCHANGED <<brokerVars, serving>>

Request(e) ==
  /\ \E a \in Attempts, o \in Operations : Execute(e, a, o)
  /\ UNCHANGED <<brokerVars, serving>>

Recovery(e) == Recover(e) /\ UNCHANGED <<brokerVars, serving>>

Progress ==
  \/ BrokerWorks \/ BrokerStart \/ Respond \/ HangUp
  \/ \E e \in Engines :
       \/ EngineWorks(e) \/ Request(e) \/ Recovery(e)
       \/ Connect(e) \/ TooLarge(e) \/ ConnectionRefused(e)

\* A crash of either side, or an error of the operating system or of the prompt
\* that ends a call.
Fault ==
  \/ BrokerCrash
  \/ \E e \in Engines : EngineCrash(e)
  \/ CallFails /\ UNCHANGED <<engineVars, serving>>

OutsideEdit == Edits /\ UNCHANGED <<engineVars, serving>>

Next == Progress \/ Fault \/ OutsideEdit

Spec == Init /\ [][Next]_vars

-----------------------------------------------------------------------------

\* The type of the Engine's variables and of the connection.
TypeOK ==
  /\ BrokerTypeOK
  /\ journal \in [Attempts -> JournalType]
  /\ engine \in [Engines -> EngineType]
  /\ serving \in Engines \cup {NoEngine}

\* Nothing reaches the Broker that the journal does not know: whatever the
\* Broker has recorded, and so whatever it may have done, recovery can find
\* under the same operation (engine.py:32-34).
JournalFirst ==
  \A a \in Attempts : ledger[a].state # Unrecorded =>
    /\ journal[a].state # Unrecorded
    /\ journal[a].op = ledger[a].op

\* Of two attempts at one operation, the Broker has superseded one: recovery
\* never starts a second attempt beside one that is still to be dispatched, is
\* delivered or is uncertain (engine.py:79-94).  Two Engines that recover the
\* same journal at once do not get two retries out of one attempt either.
OneLiveAttempt ==
  \A a, b \in Attempts :
    /\ a # b
    /\ journal[a].op = journal[b].op
    /\ journal[a].op # NoOperation
    => \/ ledger[a].state = "SUPERSEDED"
       \/ ledger[b].state = "SUPERSEDED"

\* The ledger states that each journal state is compatible with.
Compatible(state) ==
  CASE state = Unrecorded           -> {Unrecorded}
    [] state = "PREPARED"           -> BrokerState \cup {Unrecorded}
    [] state = "DELIVERY_ATTEMPTED" -> {"DELIVERY_ATTEMPTED", "UNCERTAIN"}
    [] state = "VERIFIED"           -> {"DELIVERY_ATTEMPTED"}
    [] state = "UNCERTAIN"          -> {"UNCERTAIN"}
    [] state = "SUPERSEDED"         -> {"SUPERSEDED"}
    [] state = "REJECTED"           -> {Unrecorded, "ACCEPTED", "REJECTED"}
    [] OTHER                        -> {}

\* With one Engine on the journal, what it says of an attempt is what the
\* authoritative ledger says, up to what the Engine has not read yet, whatever
\* crashed in between (engine.py:51-142).
JournalAgreesWithLedger ==
  \A a \in Attempts : ledger[a].state \in Compatible(journal[a].state)

\* What is REJECTED in the journal has had no effect: the caller was told that
\* the write was denied ("write_denial_is_durable_and_has_no_effect",
\* tests/test_transaction_core.py:64; engine.py:35-41).
RejectedHasNoEffect ==
  \A a \in Attempts : journal[a].state = "REJECTED" => applied[a] = 0

\* With one Engine on the journal, execute and recover never run into a
\* forbidden transition or a receipt they do not know (engine.py:113).
NoInternalError ==
  \A e \in Engines :
    engine[e].reply \notin {Failure("InvalidTransition"), Failure("RuntimeError")}

\* An operation changes its file at most once, over all the attempts that
\* recovery makes at it ("No automatic retry when delivery or postcondition
\* cannot be proven", README.md:47; broker.py:143-149).
EffectOncePerOperation ==
  \A a, b \in Attempts :
    a # b /\ applied[a] > 0 /\ applied[b] > 0 => ledger[a].op # ledger[b].op

\* Once an operation is reported VERIFIED nothing is dispatched for it any more,
\* whichever processes still execute, recover or retry it, and whatever was cut
\* off and goes on at the Broker (engine.py:46-142, broker.py:62-90, 134-149).
VerifiedIsNotRedone ==
  [][\A a, b \in Attempts :
       /\ journal[a].state = "VERIFIED"
       /\ ledger[b].state # "IN_FLIGHT"
       /\ ledger'[b].state = "IN_FLIGHT"
       => ledger[b].op # journal[a].op]_vars

\* A read that is VERIFIED has the content it read ("Postcondition: the broker
\* returns UTF-8 content and its SHA-256 digest", docs/PROTOCOL.md:43;
\* engine.py:62-78).
VerifiedReadHasContent ==
  \A a \in Attempts :
    /\ journal[a].state = "VERIFIED"
    /\ Params[journal[a].op].action = "read_file"
    => journal[a].result \in Contents

-----------------------------------------------------------------------------
(* The abstract contract of an operation, seen through its attempts. *)

\* The journal states of its attempts.
StatesOf(o) == {journal[a].state : a \in {b \in Attempts : journal[b].op = o}}

Phase(o) ==
  LET states == StatesOf(o)
  IN  IF states = {} THEN "none"
      ELSE IF "VERIFIED" \in states THEN "verified"
      ELSE IF "REJECTED" \in states THEN "rejected"
      ELSE IF "UNCERTAIN" \in states THEN "uncertain"
      ELSE "pending"

ChangedBy(o) == {a \in Attempts : applied[a] > 0 /\ ledger[a].op = o}

Operation == INSTANCE OperationContract WITH
  phase   <- [o \in Operations |-> Phase(o)],
  changes <- [o \in Operations |-> Cardinality(ChangedBy(o))]

\* With one Engine, nobody else writing and nothing put back, the attempts at an
\* operation, with all their crashes, retries and recoveries, amount to one
\* compare-and-swap and one truthful outcome: VERIFIED only while the file holds
\* the content, REJECTED only without an effect, and no effect once it is
\* settled (engine.py:31-142, broker.py:52-157; README.md:30-33).
ImplementsOperations == Operation!Spec

=============================================================================
