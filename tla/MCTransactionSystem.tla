------------------------ MODULE MCTransactionSystem ------------------------
(***************************************************************************)
(* Instances of the composed system.                                       *)
(***************************************************************************)
EXTENDS TransactionSystem, TLC

CONSTANTS f, c1, c2, c3, k1, k2, k3, e1, e2

Write(content, prior, overwrite) ==
  [action |-> "write_file_atomic", path |-> f, content |-> content,
   prior |-> prior, overwrite |-> overwrite, screening |-> "pass"]

\* Create a file, replace what create wrote, put that back, overwrite anything,
\* read, exceed the message limit, escape from the workspace.
MCParams ==
  [o \in Operations |->
     CASE o = "create"  -> Write(c1, NoHash, FALSE)
       [] o = "swap"    -> Write(c2, c1, TRUE)
       [] o = "restore" -> Write(c1, c2, TRUE)
       [] o = "clobber" -> Write(c3, NoHash, TRUE)
       [] o = "read"    -> [Write(c1, NoHash, FALSE) EXCEPT !.action = "read_file"]
       [] o = "huge"    -> Write(c3, NoHash, TRUE)
       [] o = "escape"  -> [Write(c1, NoHash, FALSE) EXCEPT
                              !.screening = "PolicyViolation"]]

ApprovalSymmetry == Permutations(ApprovalIds)

\* The Engines are interchangeable, too.
SystemSymmetry == ApprovalSymmetry \cup Permutations(Engines)

=============================================================================
