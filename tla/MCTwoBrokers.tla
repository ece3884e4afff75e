---------------------------- MODULE MCTwoBrokers ----------------------------
(***************************************************************************)
(* One attempt_id under two operations on one file, at two Brokers.        *)
(***************************************************************************)
EXTENDS TwoBrokers, TLC

CONSTANTS f, c1, c2, k1, k2, k3

MCParams ==
  [o \in Operations |->
     [action |-> IF o = "read" THEN "read_file" ELSE "write_file_atomic",
      path |-> f, content |-> IF o = "other" THEN c2 ELSE c1, prior |-> NoHash,
      overwrite |-> TRUE, screening |-> "pass"]]

\* Approvals are interchangeable.
ApprovalSymmetry == Permutations(ApprovalIds)

=============================================================================
