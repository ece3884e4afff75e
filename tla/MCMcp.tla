-------------------------------- MODULE MCMcp --------------------------------
(***************************************************************************)
(* Two threads of the MCP adapter and a Broker.                            *)
(***************************************************************************)
EXTENDS Mcp, TLC

CONSTANTS f, c1, c2, k1, k2, t1, t2

MCParams ==
  [o \in Operations |->
     [action |-> IF o = "read" THEN "read_file" ELSE "write_file_atomic",
      path |-> f, content |-> c1, prior |-> NoHash, overwrite |-> o = "clobber",
      screening |-> IF o = "escape" THEN "PolicyViolation" ELSE "pass"]]

\* Approvals are interchangeable, and so are threads.
McpSymmetry == Permutations(ApprovalIds) \cup Permutations(Engines)

=============================================================================
