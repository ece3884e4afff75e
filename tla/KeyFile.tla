------------------------------- MODULE KeyFile -------------------------------
(***************************************************************************)
(* A key file that several processes create or read when they start.       *)
(*                                                                         *)
(* The Broker, the MCP adapter and every invocation of the command line    *)
(* load ipc.key this way, and the Broker its approval secret: the two      *)
(* functions run the same steps.  Nothing locks the file, so any two       *)
(* processes interleave and any of them may be killed between two steps.   *)
(***************************************************************************)

CONSTANTS
  Processes,  \* those that load the key
  Keys        \* what token_bytes(32) can draw

Missing == "MISSING"  \* no such file
Empty   == "EMPTY"    \* created and not written yet: fewer than 32 bytes

ASSUME KeysAssumption == Keys \cap {Missing, Empty} = {}

VARIABLES
  file,  \* what the path holds
  pc,    \* how far each process is
  key    \* the bytes each process has drawn or read

vars == <<file, pc, key>>

Init ==
  /\ file = Missing
  /\ pc  = [p \in Processes |-> "stopped"]
  /\ key = [p \in Processes |-> Empty]

Moves(p, from, to) ==
  /\ pc[p] = from
  /\ pc' = [pc EXCEPT ![p] = to]

-----------------------------------------------------------------------------

\* exists(): from here on the answer may be stale.
Look(p) ==
  /\ Moves(p, "stopped", IF file = Missing THEN "create" ELSE "read")
  /\ UNCHANGED <<file, key>>

Read(p) ==
  /\ Moves(p, "read", "check")
  /\ key' = [key EXCEPT ![p] = file]
  /\ UNCHANGED file

\* Mutant: opened with "wb", which truncates a file that is there.
CreateMutant(p) ==
  /\ Moves(p, "create", "write")
  /\ file' = Empty
  /\ \E k \in Keys : key' = [key EXCEPT ![p] = k]

\* A fresh key, and open("xb").
Create(p) ==
  /\ file = Missing
  /\ Moves(p, "create", "write")
  /\ file' = Empty
  /\ \E k \in Keys : key' = [key EXCEPT ![p] = k]

\* Mutant: the open is tried again.
CreateRacedMutant(p) ==
  /\ file # Missing
  /\ pc[p] = "create"
  /\ UNCHANGED vars

\* FileExistsError leaves the process.
CreateRaced(p) ==
  /\ file # Missing
  /\ Moves(p, "create", "stopped")
  /\ UNCHANGED <<file, key>>

\* write and flush
Write(p) ==
  /\ Moves(p, "write", "check")
  /\ file' = key[p]
  /\ UNCHANGED key

Accepted(p) ==
  /\ key[p] # Empty
  /\ Moves(p, "check", "running")
  /\ UNCHANGED <<file, key>>

\* ValueError leaves the process.
TooShort(p) ==
  /\ key[p] = Empty
  /\ Moves(p, "check", "stopped")
  /\ UNCHANGED <<file, key>>

\* A process that has its key ends when its work is done.
Exit(p) ==
  /\ Moves(p, "running", "stopped")
  /\ UNCHANGED <<file, key>>

\* Killed while it loads the key.
Kill(p) ==
  /\ pc[p] \in {"create", "write", "read", "check"}
  /\ pc' = [pc EXCEPT ![p] = "stopped"]
  /\ UNCHANGED <<file, key>>

-----------------------------------------------------------------------------

Load(p) ==
  \/ Look(p) \/ Read(p) \/ Create(p) \/ CreateRaced(p) \/ Write(p)
  \/ Accepted(p) \/ TooShort(p)

Next == \E p \in Processes : Load(p) \/ Exit(p) \/ Kill(p)

Spec == Init /\ [][Next]_vars

-----------------------------------------------------------------------------

TypeOK ==
  /\ file \in Keys \cup {Missing, Empty}
  /\ pc \in [Processes -> {"stopped", "create", "write", "read", "check", "running"}]
  /\ key \in [Processes -> Keys \cup {Empty}]

\* Whoever runs has the key that is in the file, and so does everybody else who
\* runs: a Broker and a client that start at the same moment can authenticate
\* to each other ("Both processes derive the same authenticated local IPC
\* address", docs/CLIENT_SETUP.md:5; ipc.py:21-34).
KeysAgree ==
  \A p \in Processes : pc[p] = "running" => file \in Keys /\ key[p] = file

\* A key that is in the file is never replaced, whoever starts, fails or is
\* killed: a client that is configured today meets the Broker of tomorrow
\* (ipc.py:25, approval.py:54).
KeyIsPermanent == [][(file \in Keys) => file' = file]_vars

\* What a process that is loading the key knows of the file.
LoadInv ==
  /\ \A p \in Processes :
       /\ pc[p] = "write" => file = Empty /\ key[p] \in Keys
       /\ pc[p] = "read" => file # Missing
       /\ pc[p] = "check" /\ key[p] # Empty => file \in Keys /\ key[p] = file
  /\ \A p, q \in Processes : pc[p] = "write" /\ pc[q] = "write" => p = q

\* The inductive invariant behind the two.
KeyInv == TypeOK /\ LoadInv /\ KeysAgree

=============================================================================
