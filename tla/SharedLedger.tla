---------------------------- MODULE SharedLedger ----------------------------
(***************************************************************************)
(* A Broker that is not alone on its ledger.  Broker looks an attempt_id   *)
(* up and accepts it in one step, since nobody else writes in between;     *)
(* here get() and accept() are the two transactions that they are.         *)
(* Only submissions are served: reconcile is left out.                     *)
(***************************************************************************)
EXTENDS Broker

\* get() finds no row, and the policy lets the request through.
New == /\ At("submit")
       /\ Row.state = Unrecorded
       /\ Verdict(broker.op) = "pass"

LookUp ==
  /\ New
  /\ Goto("accept")
  /\ UNCHANGED <<ledger, approvals, files, applied>>

Insert ==
  /\ At("accept")
  /\ Row.state = Unrecorded
  /\ LET row == [NoRow EXCEPT !.state = "ACCEPTED", !.op = broker.op]
     IN  /\ ledger' = [ledger EXCEPT ![broker.att] = row]
         /\ broker' = AfterAccepted(row)
  /\ UNCHANGED <<approvals, files, applied>>

\* Mutant: accept() does not compare the payloads again.
FindMutant ==
  /\ At("accept")
  /\ Row.state # Unrecorded
  /\ broker' = AfterAccepted(Row)
  /\ UNCHANGED <<ledger, approvals, files, applied>>

\* Another Broker has inserted a row in between.  submit goes on with it if it
\* has the same payload, and does not look at its state.
Find ==
  /\ At("accept")
  /\ Row.state # Unrecorded
  /\ broker' = IF Mutated THEN Answered(Failure("ReplayConflict"))
               ELSE AfterAccepted(Row)
  /\ UNCHANGED <<ledger, approvals, files, applied>>

SharedNext ==
  \/ \E a \in Attempts, o \in Operations : Receive("submit", a, o)
  \/ LookUp \/ Insert \/ Find
  \/ ~New /\ Submitting
  \/ ReturnReceipt \/ Reply \/ Kill \/ Start

=============================================================================
