---------------------------- MODULE CallContract ----------------------------
(***************************************************************************)
(* What a caller of the Broker may rely on, with no sockets in it: a call  *)
(* is handled at most once, one that returns was handled, and one that     *)
(* fails may have been handled, be handled later or never.  (So a failed   *)
(* submit proves nothing, and the Engine asks for the status.)             *)
(***************************************************************************)
CONSTANTS
  Calls,
  Unsendable  \* the calls that are too large for the transport

VARIABLES
  outcome,  \* what the caller of each call has seen
  handled   \* whether the Broker has acted on each call

vars == <<outcome, handled>>

Init ==
  /\ outcome = [c \in Calls |-> "none"]
  /\ handled = [c \in Calls |-> 0]

Move(c, from, to) ==
  /\ outcome[c] = from
  /\ outcome' = [outcome EXCEPT ![c] = to]

Ask(c) == Move(c, "none", "pending") /\ UNCHANGED handled

Handle(c) ==
  /\ outcome[c] \in {"pending", "failed"}
  /\ c \notin Unsendable
  /\ handled[c] = 0
  /\ handled' = [handled EXCEPT ![c] = 1]
  /\ UNCHANGED outcome

Return(c) ==
  /\ handled[c] = 1
  /\ Move(c, "pending", "returned")
  /\ UNCHANGED handled

Fail(c) ==
  /\ \/ Move(c, "none", "failed")
     \/ Move(c, "pending", "failed")
  /\ UNCHANGED handled

\* Any number of calls fail together when the Broker goes away.
FailAll(lost) ==
  /\ \A c \in lost : outcome[c] = "pending"
  /\ outcome' = [c \in Calls |-> IF c \in lost THEN "failed" ELSE outcome[c]]
  /\ UNCHANGED handled

Next ==
  \/ \E c \in Calls : Ask(c) \/ Handle(c) \/ Return(c) \/ Fail(c)
  \/ \E lost \in SUBSET Calls : FailAll(lost)

Spec == Init /\ [][Next]_vars

=============================================================================
