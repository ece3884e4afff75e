----------------------------- MODULE TwoBrokers -----------------------------
(***************************************************************************)
(* Two Brokers on one state directory, as two `broker --pipe' commands     *)
(* start them: each serves its own address, and they share the ledger, the *)
(* approvals and the files.                                                *)
(***************************************************************************)
EXTENDS Models, FiniteSets

CONSTANTS ApprovalIds, Editable

ASSUME SharedApprovalIdsAssumption == NoApproval \notin ApprovalIds

VARIABLES
  ledger, approvals, files, applied,
  first, second  \* the two processes

twoVars == <<ledger, approvals, files, applied, first, second>>

First  == INSTANCE SharedLedger WITH broker <- first
Second == INSTANCE SharedLedger WITH broker <- second

TwoInit == First!BrokerInit /\ Second!BrokerInit

TwoNext ==
  \/ First!SharedNext /\ UNCHANGED second
  \/ Second!SharedNext /\ UNCHANGED first

TwoSpec == TwoInit /\ [][TwoNext]_twoVars

-----------------------------------------------------------------------------

\* Also with two Brokers, a file changed by an attempt was changed under an
\* approval for exactly that attempt and its recorded operation: the payload is
\* compared again where the row is inserted (storage.py:313-321).
EffectWasApproved == First!EffectWasApproved

\* An attempt is dispatched once ("unique dispatch attempt and broker replay
\* key", docs/PROTOCOL.md:8; storage.py:370-371).
EffectAtMostOnce == First!EffectAtMostOnce

\* Every effect uses up an approval of its own ("single-use broker
\* authorization record for one exact attempt", docs/PROTOCOL.md:10;
\* broker.py:67-77).
EffectsUseUpApprovals ==
  \A a \in Attempts :
    applied[a] <= Cardinality({k \in ApprovalIds : /\ approvals[k].att = a
                                                   /\ approvals[k].consumed})

=============================================================================
