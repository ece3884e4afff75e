------------------------------- MODULE Models -------------------------------
(***************************************************************************)
(* The vocabulary shared by the Engine and the Broker: action requests,    *)
(* the two attempt state machines with their transition tables, and the    *)
(* replies the Broker gives to its three calls.                            *)
(*                                                                         *)
(* A request is the pair of an attempt_id and a logical operation.  The    *)
(* operation stands for everything else that canonical_payload hashes      *)
(* (logical_operation_id, action, params), so that two requests have the   *)
(* same payload hash exactly when they name the same operation.  A file's  *)
(* content stands for its SHA-256 digest.                                  *)
(***************************************************************************)
EXTENDS Naturals

CONSTANTS
  Attempts,    \* attempt_id values, ordered as pending() orders its rows
  Operations,  \* logical operations, each with its action and parameters
  Paths,       \* files of the workspace
  Contents,    \* what a file can hold
  Params       \* the parameters of each operation

NoAttempt   == 0
NoOperation == "NO_OPERATION"
NoApproval  == "NO_APPROVAL"
Absent      == "ABSENT"      \* file_sha256 of a path with no file: None
NoHash      == "NO_HASH"     \* expected_prior_hash = None
NoResult    == "NO_RESULT"   \* result_json IS NULL
Reconciled  == "RECONCILED"  \* result_json = {"reconciled": true}

\* The static part of the policy's verdict is an attribute of the request:
\* PolicyViolation stands for an unknown action, a path outside the workspace
\* or inside a protected directory, a bad type, size or digest; OSError for a
\* path whose parent directory the strict resolution does not find.
ActionParams ==
  [action    : {"read_file", "write_file_atomic"},
   path      : Paths,
   content   : Contents,
   prior     : Contents \cup {NoHash},
   overwrite : BOOLEAN,
   screening : {"pass", "PolicyViolation", "OSError"}]

ASSUME AttemptsAssumption == Attempts \subseteq Nat \ {NoAttempt}
ASSUME OperationsAssumption == NoOperation \notin Operations
ASSUME ParamsAssumption == Params \in [Operations -> ActionParams]
ASSUME ContentsAssumption ==
  Contents \cap {Absent, NoHash, NoResult, Reconciled} = {}

Results == Contents \cup {NoResult, Reconciled}

-----------------------------------------------------------------------------

\* EngineState and BrokerState; Unrecorded is an attempt_id with no row.
Unrecorded == "UNRECORDED"

EngineState ==
  {"PREPARED", "DELIVERY_ATTEMPTED", "VERIFIED", "UNCERTAIN", "REJECTED",
   "EXPIRED", "CANCELLED", "FAILED", "SUPERSEDED"}

BrokerState ==
  {"ACCEPTED", "IN_FLIGHT", "DELIVERY_ATTEMPTED", "UNCERTAIN", "REJECTED",
   "EXPIRED", "CANCELLED", "FAILED", "SUPERSEDED"}

\* Mutant: recovery of a PREPARED attempt may not verify it.
EngineTransitionsMutant(current) ==
  CASE current = "PREPARED" ->
         {"DELIVERY_ATTEMPTED", "UNCERTAIN", "REJECTED", "EXPIRED",
          "CANCELLED", "FAILED", "SUPERSEDED"}
    [] current = "DELIVERY_ATTEMPTED" ->
         {"VERIFIED", "UNCERTAIN", "FAILED", "SUPERSEDED"}
    [] OTHER -> {}

\* ENGINE_TRANSITIONS.get(current, set())
EngineTransitions(current) ==
  CASE current = "PREPARED" ->
         {"DELIVERY_ATTEMPTED", "VERIFIED", "UNCERTAIN", "REJECTED",
          "EXPIRED", "CANCELLED", "FAILED", "SUPERSEDED"}
    [] current = "DELIVERY_ATTEMPTED" ->
         {"VERIFIED", "UNCERTAIN", "FAILED", "SUPERSEDED"}
    [] OTHER -> {}

\* BROKER_TRANSITIONS.get(current, set())
BrokerTransitions(current) ==
  CASE current = "ACCEPTED" ->
         {"IN_FLIGHT", "REJECTED", "EXPIRED", "CANCELLED", "FAILED"}
    [] current = "IN_FLIGHT" ->
         {"DELIVERY_ATTEMPTED", "UNCERTAIN", "FAILED", "SUPERSEDED"}
    [] current = "DELIVERY_ATTEMPTED" -> {"UNCERTAIN", "SUPERSEDED"}
    [] OTHER -> {}

\* COALESCE(new, old) of the UPDATE statements: NULL keeps the old value.
Coalesce(null, new, old) == IF new = null THEN old ELSE new

\* The action class the policy derives; no handler yields another one.
ActionClass(o) ==
  IF Params[o].action = "read_file" THEN "PURE" ELSE "RECONCILABLE"

-----------------------------------------------------------------------------

\* What a call to the Broker returns: a receipt, None, a reconciliation
\* outcome, or an exception.
Receipt(row) == [tag |-> "receipt", value |-> row.state, result |-> row.result]
NoReceipt    == [tag |-> "none",    value |-> Unrecorded, result |-> NoResult]
Outcome(o)   == [tag |-> "outcome", value |-> o,         result |-> NoResult]
Failure(e)   == [tag |-> "error",   value |-> e,         result |-> NoResult]
NoReply      == [tag |-> "pending", value |-> Unrecorded, result |-> NoResult]

Outcomes ==
  BrokerState \cup {"NOT_FOUND", "RESUME_SAFE", "EFFECT_PRESENT", "RETRY_SAFE"}

Errors ==
  {"PolicyViolation", "OSError", "ReplayConflict", "ApprovalDenied",
   "RecoveryRequired", "InvalidTransition", "AutonomousIntelligenceError",
   "Unavailable", "EOFError", "ValueError", "RuntimeError"}

Replies ==
  {NoReply, NoReceipt} \cup {Outcome(o) : o \in Outcomes}
    \cup {Failure(e) : e \in Errors}
    \cup {Receipt([state |-> s, result |-> r]) : s \in BrokerState, r \in Results}

=============================================================================
