------------------------------ MODULE MCBroker ------------------------------
(***************************************************************************)
(* The Broker on its own: any client, any attempt_id, any order of calls,  *)
(* kills and outside edits, with two attempts on one file.                 *)
(***************************************************************************)
EXTENDS Broker, TLC

CONSTANTS f, c1, c2, k1, k2, k3

create == [action |-> "write_file_atomic", path |-> f, content |-> c1,
           prior |-> NoHash, overwrite |-> FALSE, screening |-> "pass"]
swap   == [action |-> "write_file_atomic", path |-> f, content |-> c2,
           prior |-> c1, overwrite |-> TRUE, screening |-> "pass"]
read   == [action |-> "read_file", path |-> f, content |-> c1,
           prior |-> NoHash, overwrite |-> FALSE, screening |-> "pass"]
escape == [create EXCEPT !.screening = "PolicyViolation"]

MCParams ==
  [o \in Operations |->
     CASE o = "create" -> create
       [] o = "swap"   -> swap
       [] o = "read"   -> read
       [] o = "escape" -> escape]

\* Approvals are interchangeable.
ApprovalSymmetry == Permutations(ApprovalIds)

=============================================================================
