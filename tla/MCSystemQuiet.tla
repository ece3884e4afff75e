---------------------------- MODULE MCSystemQuiet ----------------------------
(***************************************************************************)
(* The instance in which one Engine and the Broker are alone, and no write *)
(* undoes another: what the theorems about the operations assume is true   *)
(* here.                                                                   *)
(***************************************************************************)
EXTENDS MCTransactionSystem

ASSUME QuietAssumption ==
  /\ Undisturbed
  /\ NothingRestored
  /\ Editable = {}
  /\ \A e, x \in Engines : e = x

=============================================================================
