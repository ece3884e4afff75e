-------------------------- MODULE DispatchContract --------------------------
(***************************************************************************)
(* What the Broker promises about one dispatch attempt, with no process,   *)
(* no calls and no crashes in it.  Each action is one durable step of      *)
(* submit or reconcile (broker.py:52-157) as an observer of the ledger     *)
(* sees it: consent comes before dispatch, dispatch before the effect, and *)
(* the effect happens at most once and never outside of the dispatch.      *)
(***************************************************************************)
EXTENDS Naturals

CONSTANTS
  Attempts,
  Operations,
  Gated,       \* the operations that need a human's consent
  NoSubject    \* the subject of an attempt that was never accepted

VARIABLES
  status,   \* how far the attempt is
  subject,  \* the operation it is an attempt at
  consent,  \* a human agreed to exactly this attempt at exactly this operation
  effects   \* how often the world was changed on its behalf

vars == <<status, subject, consent, effects>>

Init ==
  /\ status  = [a \in Attempts |-> "UNRECORDED"]
  /\ subject = [a \in Attempts |-> NoSubject]
  /\ consent = [a \in Attempts |-> FALSE]
  /\ effects = [a \in Attempts |-> 0]

Move(a, from, to) ==
  /\ status[a] \in from
  /\ status' = [status EXCEPT ![a] = to]

Accept(a, o) ==
  /\ Move(a, {"UNRECORDED"}, "ACCEPTED")
  /\ subject' = [subject EXCEPT ![a] = o]
  /\ UNCHANGED <<consent, effects>>

Reject(a) ==
  /\ Move(a, {"ACCEPTED"}, "REJECTED")
  /\ UNCHANGED <<subject, consent, effects>>

Consent(a) ==
  /\ status[a] = "ACCEPTED"
  /\ consent' = [consent EXCEPT ![a] = TRUE]
  /\ UNCHANGED <<status, subject, effects>>

Dispatch(a) ==
  /\ Move(a, {"ACCEPTED"}, "IN_FLIGHT")
  /\ subject[a] \in Gated => consent[a]
  /\ UNCHANGED <<subject, consent, effects>>

Effect(a) ==
  /\ status[a] = "IN_FLIGHT"
  /\ subject[a] \in Gated
  /\ effects[a] = 0
  /\ effects' = [effects EXCEPT ![a] = 1]
  /\ UNCHANGED <<status, subject, consent>>

Deliver(a) ==
  /\ Move(a, {"IN_FLIGHT"}, "DELIVERY_ATTEMPTED")
  /\ UNCHANGED <<subject, consent, effects>>

GiveUp(a) ==
  /\ Move(a, {"IN_FLIGHT", "DELIVERY_ATTEMPTED"}, "UNCERTAIN")
  /\ UNCHANGED <<subject, consent, effects>>

Supersede(a) ==
  /\ Move(a, {"IN_FLIGHT"}, "SUPERSEDED")
  /\ UNCHANGED <<subject, consent, effects>>

Next ==
  \E a \in Attempts :
    \/ \E o \in Operations : Accept(a, o)
    \/ Reject(a) \/ Consent(a) \/ Dispatch(a) \/ Effect(a)
    \/ Deliver(a) \/ GiveUp(a) \/ Supersede(a)

Spec == Init /\ [][Next]_vars

=============================================================================
